---------------------------- MODULE SocialProofs ----------------------------
(***************************************************************************)
(* Theorems about Social, for any users, handlers, settings and bounds.    *)
(***************************************************************************)
EXTENDS Social, FiniteSetTheorems, SequenceTheorems, WellFoundedInduction, TLAPS

Bodies == {Idle.body} \cup {s[2] : s \in Settings}

Request ==
  [at : Stages, kind : RequestKinds, user : Users \cup {Nobody}, peer : Users \cup {Nobody},
   id : Nat, todo : Seq(Users \X NoteType), row : FriendRow, ent : ProfileRow, body : Bodies]

-----------------------------------------------------------------------------
\* Values

LEMMA Numbers == MaxRows \in Nat /\ MaxNotes \in Nat /\ Limit \in Nat \ {0}
BY SocialBounds

LEMMA IdsAreNat == \A i \in RowIds \cup NoteIds : i \in Nat
BY Numbers DEF RowIds, NoteIds

LEMMA BlankTypes ==
  /\ NoRow \in FriendRow /\ NoProfile \in ProfileRow /\ NewProfile \in ProfileRow
  /\ NoNote \in NoteRow /\ Idle \in Request
<1>1. NoRow \in FriendRow /\ NoProfile \in ProfileRow /\ NoNote \in NoteRow
  BY DEF NoRow, FriendRow, FriendStatus, NoProfile, ProfileRow, PrivacyLevel, NoNote, NoteRow,
         NoteType
<1>2. NewProfile \in ProfileRow
  BY <1>1 DEF NewProfile, ProfileRow
<1>3. <<>> \in Seq(Users \X NoteType)
  OBVIOUS
<1>4. Idle.body \in Bodies
  BY DEF Bodies
<1>5. QED
  BY <1>1, <1>2, <1>3, <1>4 DEF Idle, Request, Stages, RequestKinds

\* What a user sends is a part of a profile.
LEMMA BodiesFit == \A s \in Bodies : SettingsBody(s)
<1>1. SettingsBody(Idle.body)
  BY DEF SettingsBody, Idle
<1>2. QED
  BY <1>1, SocialRequests DEF Bodies

\* Settings that are applied leave a profile, with the visibility they name.
LEMMA WithSettings ==
  ASSUME NEW p \in ProfileRow, NEW s \in Bodies
  PROVE  /\ With(p, s) \in ProfileRow
         /\ With(p, s).profilePrivacy = IF "profilePrivacy" \in DOMAIN s
                                        THEN s["profilePrivacy"] ELSE p.profilePrivacy
<1>1. /\ DOMAIN s \subseteq DOMAIN NoProfile \ {"there"}
      /\ \A c \in DOMAIN s : [NoProfile EXCEPT ![c] = s[c]] \in ProfileRow
  BY BodiesFit DEF SettingsBody
<1>2. DOMAIN p = {"there", "profilePrivacy", "activityPrivacy", "enabled", "preferences"}
  BY DEF ProfileRow
<1>3. "profilePrivacy" \in DOMAIN s => s["profilePrivacy"] \in PrivacyLevel
  BY <1>1, BlankTypes DEF ProfileRow
<1>4. "activityPrivacy" \in DOMAIN s => s["activityPrivacy"] \in PrivacyLevel
  BY <1>1, BlankTypes DEF ProfileRow
<1>5. "enabled" \in DOMAIN s => s["enabled"] \in BOOLEAN
  BY <1>1, BlankTypes DEF ProfileRow
<1>6. "preferences" \in DOMAIN s => s["preferences"] \in SUBSET NoteType
  BY <1>1, BlankTypes DEF ProfileRow
<1>7. "there" \notin DOMAIN s
  BY <1>1
<1>8. With(p, s) = [there |-> p.there,
        profilePrivacy |-> IF "profilePrivacy" \in DOMAIN s THEN s["profilePrivacy"]
                           ELSE p.profilePrivacy,
        activityPrivacy |-> IF "activityPrivacy" \in DOMAIN s THEN s["activityPrivacy"]
                            ELSE p.activityPrivacy,
        enabled |-> IF "enabled" \in DOMAIN s THEN s["enabled"] ELSE p.enabled,
        preferences |-> IF "preferences" \in DOMAIN s THEN s["preferences"] ELSE p.preferences]
  BY <1>2, <1>7 DEF With
<1>9. QED
  BY <1>3, <1>4, <1>5, <1>6, <1>8 DEF ProfileRow

LEMMA LongerTail ==
  ASSUME NEW S, NEW s \in Seq(S), Len(s) > 1
  PROVE  Tail(s) \in Seq(S) /\ Tail(s) # <<>>
<1>1. s # <<>>
  OBVIOUS
<1>2. Tail(s) \in Seq(S) /\ Len(Tail(s)) = Len(s) - 1
  BY <1>1, HeadTailProperties
<1>3. Len(s) \in Nat /\ Len(Tail(s)) # 0
  BY <1>2
<1>4. Tail(s) # <<>>
  BY <1>2, <1>3, EmptySeq
<1>5. QED
  BY <1>2, <1>4

-----------------------------------------------------------------------------
\* Stages and types

\* The request of a handler, by its stage
ReqStaged(r) ==
  /\ r.at \notin {"idle", "tell", "makeProfile", "post"} => r.user \in Users /\ r.peer \in Users
  /\ r.at = "insert" => r.kind = "send" /\ r.user # r.peer
  /\ r.at = "saveRow" => /\ r.kind = "accept" /\ r.id \in RowIds
                         /\ r.row = [there |-> TRUE, from |-> r.peer, to |-> r.user,
                                     status |-> "accepted"]
  /\ r.at = "removeRow" => r.kind \in {"decline", "cancel", "unfriend"} /\ r.id \in RowIds
  /\ r.at \in {"tell", "makeProfile", "post"} => r.todo # <<>>
  /\ r.at \in {"load", "makeOwn", "saveProfile"} => r.kind = "settings"
  /\ r.at = "saveNote" => r.kind = "read" /\ r.id \in NoteIds

\* The row of a handler is one between its two users; its notification exists
ReqRow(r) ==
  /\ r.at = "saveRow" => friend[r.id].from = r.peer /\ friend[r.id].to = r.user
  /\ r.at = "removeRow" => {friend[r.id].from, friend[r.id].to} = {r.user, r.peer}
  /\ r.at = "saveNote" => note[r.id].state # "none"

\* A row is unused, or between two different users for ever
RowsSound ==
  \A i \in RowIds : \/ friend[i] = NoRow
                    \/ /\ friend[i].from \in Users /\ friend[i].to \in Users
                       /\ friend[i].from # friend[i].to

RowsKept ==
  \A i \in RowIds : friend[i].from # Nobody => /\ friend'[i].from = friend[i].from
                                               /\ friend'[i].to = friend[i].to

NotesKept == \A i \in NoteIds : note[i].state # "none" => note'[i].state # "none"

NotesOwned == \A i \in NoteIds : note[i].state # "none" => note[i].user \in Users

Staged ==
  /\ SocialTypeOK
  /\ req \in [Handlers -> Request]
  /\ RowsSound
  /\ NotesOwned
  /\ \A h \in Handlers : ReqStaged(req[h]) /\ ReqRow(req[h])

\* The stages that can come after a stage
Follows(a, b) ==
  \/ b = "idle"
  \/ a \in {"insert", "saveRow", "removeRow", "makeProfile", "post"} /\ b = "tell"
  \/ a = "tell" /\ b \in {"tell", "makeProfile", "post"}
  \/ a = "makeProfile" /\ b = "post"
  \/ a = "makeOwn" /\ b = "load"
  \/ a = "load" /\ b = "saveProfile"

\* A step that begins a request changes notifications at most
Begun(h) ==
  \E r \in Request :
    /\ ReqStaged(r) /\ ReqRow(r) /\ Begin(h, r)
    /\ friend' = friend /\ profile' = profile

\* A step of a request that goes on, or ends
Moved(h) ==
  /\ Continue(h) /\ req[h].at # "idle"
  /\ req'[h] \in Request /\ ReqStaged(req'[h])
  /\ Follows(req[h].at, req'[h].at) /\ crossed' = crossed
  /\ req'[h].at \notin {"idle", "tell"} => req'[h].user = req[h].user

Others(h) == \A g \in Handlers : g # h => req'[g] = req[g]

\* The handlers of a step: one request at most is replaced.
LEMMA FrameReq ==
  ASSUME NEW h \in Handlers, NEW r \in Request, req \in [Handlers -> Request],
         req' = [req EXCEPT ![h] = r]
  PROVE  req'[h] = r /\ Others(h) /\ req' \in [Handlers -> Request]
BY DEF Others

LEMMA GoToReq ==
  ASSUME NEW h \in Handlers, NEW stage \in Stages, req \in [Handlers -> Request], GoTo(h, stage)
  PROVE  /\ req'[h] = [req[h] EXCEPT !.at = stage] /\ req'[h] \in Request
         /\ Others(h) /\ req' \in [Handlers -> Request]
<1>1. [req[h] EXCEPT !.at = stage] \in Request
  BY DEF Request
<1>2. QED
  BY <1>1 DEF GoTo, Others

LEMMA TellReq ==
  ASSUME NEW h \in Handlers, req \in [Handlers -> Request],
         NEW todo \in Seq(Users \X NoteType), Tell(h, todo)
  PROVE  /\ req'[h] = [Idle EXCEPT !.at = "tell", !.todo = todo] /\ req'[h] \in Request
         /\ Others(h) /\ req' \in [Handlers -> Request]
<1>1. [Idle EXCEPT !.at = "tell", !.todo = todo] \in Request
  BY BlankTypes DEF Request, Stages
<1>2. QED
  BY <1>1 DEF Tell, Others

LEMMA FinishReq ==
  ASSUME NEW h \in Handlers, req \in [Handlers -> Request], Finish(h)
  PROVE  req'[h] = Idle /\ Others(h) /\ req' \in [Handlers -> Request]
BY BlankTypes DEF Finish, Others

LEMMA IdleStaged == ReqStaged(Idle) /\ Idle.at = "idle"
BY DEF ReqStaged, Idle

\* A handler goes on to the next notification, if there is one.
LEMMA NextToldReq ==
  ASSUME NEW h \in Handlers, req \in [Handlers -> Request], NextTold(h)
  PROVE  /\ req'[h] \in Request /\ Others(h) /\ req' \in [Handlers -> Request]
         /\ \/ req'[h] = Idle
            \/ req'[h].at = "tell" /\ req'[h].todo # <<>>
<1>1. CASE Len(req[h].todo) > 1
  <2>1. req[h].todo \in Seq(Users \X NoteType)
    BY DEF Request
  <2>2. Tail(req[h].todo) \in Seq(Users \X NoteType) /\ Tail(req[h].todo) # <<>>
    BY <1>1, <2>1, LongerTail
  <2> DEFINE r == [req[h] EXCEPT !.at = "tell", !.todo = Tail(req[h].todo)]
  <2>3. req' = [req EXCEPT ![h] = r]
    BY <1>1 DEF NextTold, Request
  <2>4. r \in Request /\ r.at = "tell" /\ r.todo = Tail(req[h].todo)
    BY <2>2 DEF Request, Stages
  <2> HIDE DEF r
  <2>5. QED
    BY <2>2, <2>3, <2>4, FrameReq
<1>2. CASE ~(Len(req[h].todo) > 1)
  BY <1>2, FinishReq, BlankTypes DEF NextTold
<1>3. QED
  BY <1>1, <1>2

-----------------------------------------------------------------------------
\* Requests that begin

LEMMA ContactUsers == \A c \in Contacts : c[1] \in Users /\ c[2] \in Users
BY SocialUsers

LEMMA BegunSend ==
  ASSUME Staged, NEW h \in Handlers, NEW u \in Users, NEW v \in Users, Send(h, u, v)
  PROVE  Begun(h) /\ note' = note
<1> DEFINE r == [Idle EXCEPT !.at = "insert", !.kind = "send", !.user = u, !.peer = v]
<1>1. r \in Request
  BY BlankTypes DEF Request, Stages, RequestKinds
<1>2. ReqStaged(r) /\ ReqRow(r)
  BY DEF Send, ReqStaged, ReqRow, Idle
<1>3. Begin(h, r)
  BY DEF Send
<1>4. QED
  BY <1>1, <1>2, <1>3 DEF Send, Begun

LEMMA AcceptedRow ==
  ASSUME NEW row \in FriendRow
  PROVE  [row EXCEPT !.status = "accepted"] =
           [there |-> row.there, from |-> row.from, to |-> row.to, status |-> "accepted"]
BY DEF FriendRow

LEMMA BegunAccept ==
  ASSUME Staged, NEW h \in Handlers, NEW u \in Users, NEW v \in Users, Accept(h, u, v)
  PROVE  Begun(h) /\ note' = note
<1>1. PICK i \in Pending(v, u) :
        Begin(h, [Idle EXCEPT !.at = "saveRow", !.kind = "accept", !.user = u, !.peer = v,
                              !.id = i, !.row = [friend[i] EXCEPT !.status = "accepted"]])
  BY DEF Accept
<1> DEFINE row == [friend[i] EXCEPT !.status = "accepted"]
           r == [Idle EXCEPT !.at = "saveRow", !.kind = "accept", !.user = u, !.peer = v,
                             !.id = i, !.row = row]
<1>2. i \in RowIds /\ friend[i].there /\ friend[i].from = v /\ friend[i].to = u
  BY DEF Pending, Between
<1>3. row = [there |-> TRUE, from |-> v, to |-> u, status |-> "accepted"]
  <2>1. friend[i] \in FriendRow
    BY <1>2 DEF Staged, SocialTypeOK
  <2>2. friend[i].there = TRUE
    BY <1>2, <2>1 DEF FriendRow
  <2>3. QED
    BY <1>2, <2>1, <2>2, AcceptedRow
<1>4. row \in FriendRow /\ i \in Nat
  BY <1>2, <1>3, IdsAreNat DEF FriendRow, FriendStatus
<1>5. r \in Request /\ r.row = row /\ r.at = "saveRow" /\ r.user = u /\ r.peer = v /\ r.id = i
      /\ r.kind = "accept"
  <2> HIDE DEF row
  <2>1. r \in Request
    BY <1>4, BlankTypes DEF Request, Stages, RequestKinds
  <2>2. QED
    BY <2>1 DEF Request, Idle
<1>6. Begin(h, r)
  BY <1>1
<1> HIDE DEF r, row
<1>7. ReqStaged(r) /\ ReqRow(r)
  BY <1>2, <1>3, <1>5 DEF ReqStaged, ReqRow
<1>8. QED
  BY <1>5, <1>6, <1>7 DEF Accept, Begun

LEMMA BegunRemove ==
  ASSUME Staged, NEW h \in Handlers, NEW u \in Users, NEW v \in Users,
         NEW kind \in {"decline", "cancel", "unfriend"}, FindToRemove(h, kind, u, v)
  PROVE  /\ Begun(h) /\ note' = note
<1>1. PICK i \in Between(u, v) \cup Between(v, u) :
        Begin(h, [Idle EXCEPT !.at = "removeRow", !.kind = kind, !.user = u, !.peer = v, !.id = i])
  BY DEF FindToRemove, Pending, Accepted
<1> DEFINE r == [Idle EXCEPT !.at = "removeRow", !.kind = kind, !.user = u, !.peer = v, !.id = i]
<1>2. i \in RowIds /\ {friend[i].from, friend[i].to} = {u, v}
  BY DEF Between
<1>3. r \in Request
  BY <1>2, BlankTypes, IdsAreNat DEF Request, Stages, RequestKinds
<1>4. ReqStaged(r) /\ ReqRow(r)
  BY <1>2 DEF ReqStaged, ReqRow, Idle
<1>5. Begin(h, r)
  BY <1>1
<1>6. QED
  BY <1>3, <1>4, <1>5 DEF FindToRemove, Begun

LEMMA BegunSettings ==
  ASSUME Staged, NEW h \in Handlers, NEW s \in Settings, LoadProfile(h, s[1], s[2])
  PROVE  Begun(h) /\ note' = note
<1> DEFINE u == s[1]
           at == IF ~profile[u].there THEN "makeOwn" ELSE "load"
           ent == IF profile[u].there THEN profile[u] ELSE NewProfile
           r == [Idle EXCEPT !.at = at, !.kind = "settings", !.user = u, !.peer = u,
                             !.body = s[2], !.ent = ent]
<1>1. u \in Users /\ s[2] \in Bodies
  BY SocialRequests DEF Bodies
<1>2. at \in {"makeOwn", "load"} /\ ent \in ProfileRow
  BY <1>1, BlankTypes DEF Staged, SocialTypeOK
<1>3. Begin(h, r)
  BY DEF LoadProfile
<1> HIDE DEF u, at, ent
<1>4. r \in Request
  BY <1>1, <1>2, BlankTypes DEF Request, Stages, RequestKinds
<1>5. ReqStaged(r) /\ ReqRow(r)
  BY <1>1, <1>2 DEF ReqStaged, ReqRow, Idle
<1>6. QED
  BY <1>3, <1>4, <1>5 DEF LoadProfile, Begun

LEMMA BegunReadNote ==
  ASSUME Staged, NEW h \in Handlers, NEW i \in NoteIds, ReadNote(h, i)
  PROVE  Begun(h) /\ note' = note
<1> DEFINE u == note[i].user
           r == [Idle EXCEPT !.at = "saveNote", !.kind = "read", !.user = u, !.peer = u, !.id = i]
<1>1. u \in Users /\ i \in Nat
  BY IdsAreNat DEF ReadNote, Staged, NotesOwned
<1>2. Begin(h, r)
  BY DEF ReadNote
<1> HIDE DEF u
<1>3. r \in Request
  BY <1>1, BlankTypes DEF Request, Stages, RequestKinds
<1>4. ReqStaged(r) /\ ReqRow(r)
  BY <1>1 DEF ReqStaged, ReqRow, Idle, ReadNote
<1>5. QED
  BY <1>2, <1>3, <1>4 DEF ReadNote, Begun

\* What the requests of one statement leave of the notifications.
NotesMarked(new) ==
  /\ note' = new
  /\ new \in [NoteIds -> NoteRow]
  /\ \A i \in NoteIds : /\ new[i].user = note[i].user
                        /\ note[i].state = "none" <=> new[i].state = "none"

LEMMA BegunNotes ==
  ASSUME Staged, NEW h \in Handlers, NEW u \in Users,
         ReadAll(h, u) \/ \E S : DeleteNotes(h, u, S)
  PROVE  Begun(h) /\ NotesMarked(note')
<1>1. note \in [NoteIds -> NoteRow]
  BY DEF Staged, SocialTypeOK
<1>2. CASE ReadAll(h, u)
  <2> DEFINE r == [Idle EXCEPT !.kind = "readAll", !.user = u, !.peer = u]
             new == [i \in NoteIds |-> IF note[i].user = u /\ note[i].state = "unread"
                                       THEN [note[i] EXCEPT !.state = "read"] ELSE note[i]]
  <2>1. r \in Request /\ ReqStaged(r) /\ ReqRow(r)
    BY BlankTypes DEF Request, Stages, RequestKinds, ReqStaged, ReqRow, Idle
  <2>2. NotesMarked(new)
    BY <1>1, <1>2 DEF NoteRow, NotesMarked, ReadAll
  <2>3. QED
    BY <1>2, <2>1, <2>2 DEF ReadAll, Begun, NotesMarked
<1>3. ASSUME NEW S, DeleteNotes(h, u, S)
      PROVE  Begun(h) /\ NotesMarked(note')
  <2> DEFINE r == [Idle EXCEPT !.kind = "deleteNote", !.user = u, !.peer = u]
             new == [i \in NoteIds |->
                       IF i \in S /\ note[i].user = u /\ note[i].state # "none"
                       THEN [note[i] EXCEPT !.state = "deleted"] ELSE note[i]]
  <2>1. r \in Request /\ ReqStaged(r) /\ ReqRow(r)
    BY BlankTypes DEF Request, Stages, RequestKinds, ReqStaged, ReqRow, Idle
  <2>2. NotesMarked(new)
    BY <1>1, <1>3 DEF NoteRow, NotesMarked, DeleteNotes
  <2>3. QED
    BY <1>3, <2>1, <2>2 DEF DeleteNotes, Begun, NotesMarked
<1>4. QED
  BY <1>2, <1>3

LEMMA ArriveShape ==
  ASSUME Staged, NEW h \in Handlers, Arrive(h)
  PROVE  /\ Begun(h)
         /\ note' = note \/ NotesMarked(note')
<1>1. CASE \E c \in Contacts : Send(h, c[1], c[2]) \/ Accept(h, c[2], c[1])
  BY <1>1, ContactUsers, BegunSend, BegunAccept
<1>2. CASE \E c \in Contacts :
             \/ \E kind \in {"decline", "unfriend"} : FindToRemove(h, kind, c[2], c[1])
             \/ \E kind \in {"cancel", "unfriend"} : FindToRemove(h, kind, c[1], c[2])
  BY <1>2, ContactUsers, BegunRemove
<1>3. CASE \E s \in Settings : LoadProfile(h, s[1], s[2])
  BY <1>3, BegunSettings
<1>4. CASE \E i \in NoteIds : ReadNote(h, i)
  BY <1>4, BegunReadNote
<1>5. CASE \E u \in Users : ReadAll(h, u) \/ \E S : DeleteNotes(h, u, S)
  BY <1>5, BegunNotes
<1>6. QED
  BY <1>1, <1>2, <1>3, <1>4, <1>5 DEF Arrive

-----------------------------------------------------------------------------
\* Requests that go on

RowsStep  == friend' \in [RowIds -> FriendRow] /\ RowsSound' /\ RowsKept
NotesStep == note' \in [NoteIds -> NoteRow] /\ NotesOwned' /\ NotesKept

\* What a step of a request keeps, whatever its stage
Kept(h) ==
  /\ Moved(h) /\ Others(h) /\ req' \in [Handlers -> Request]
  /\ RowsStep /\ NotesStep /\ profile' \in [Users -> ProfileRow]

LEMMA SameRows == Staged /\ friend' = friend => RowsStep
BY DEF Staged, SocialTypeOK, RowsStep, RowsSound, RowsKept

LEMMA SameNotes == Staged /\ note' = note => NotesStep
BY DEF Staged, SocialTypeOK, NotesStep, NotesOwned, NotesKept

LEMMA ReqTyped ==
  ASSUME Staged, NEW h \in Handlers
  PROVE  req[h] \in Request /\ ReqStaged(req[h]) /\ ReqRow(req[h]) /\ req \in [Handlers -> Request]
BY DEF Staged

\* The stages that requests begin at.
LEMMA BegunStage ==
  ASSUME Staged, NEW h \in Handlers, Arrive(h)
  PROVE  \/ req'[h].at = "idle"
         \/ /\ req'[h].at = "removeRow"
            /\ \E u, v \in Users : \E kind \in {"decline", "cancel", "unfriend"} :
                 FindToRemove(h, kind, u, v)
         \/ req'[h].at = "insert" /\ \E c \in Contacts : Send(h, c[1], c[2])
         \/ req'[h].at = "saveRow" /\ \E u, v \in Users : Accept(h, u, v)
         \/ req'[h].at \in {"makeOwn", "load"} /\ \E s \in Settings : LoadProfile(h, s[1], s[2])
         \/ req'[h].at = "saveNote" /\ \E i \in NoteIds : ReadNote(h, i)
<1>1. req \in [Handlers -> Request]
  BY ReqTyped
<1>2. ASSUME NEW u \in Users, NEW v \in Users, Send(h, u, v)
      PROVE  req'[h].at = "insert"
  BY <1>1, <1>2 DEF Send, Begin, Idle
<1>3. ASSUME NEW u \in Users, NEW v \in Users, Accept(h, u, v)
      PROVE  req'[h].at = "saveRow"
  BY <1>1, <1>3 DEF Accept, Begin, Idle
<1>4. ASSUME NEW u \in Users, NEW v \in Users, NEW kind, FindToRemove(h, kind, u, v)
      PROVE  req'[h].at = "removeRow"
  BY <1>1, <1>4 DEF FindToRemove, Begin, Idle
<1>5. ASSUME NEW u \in Users, ReadAll(h, u) \/ \E S : DeleteNotes(h, u, S)
      PROVE  req'[h].at = "idle"
  BY <1>1, <1>5 DEF ReadAll, DeleteNotes, Begin, Idle
<1>6. ASSUME NEW s \in Settings, LoadProfile(h, s[1], s[2])
      PROVE  req'[h].at \in {"makeOwn", "load"}
  BY <1>1, <1>6 DEF LoadProfile, Begin, Idle
<1>7. ASSUME NEW i \in NoteIds, ReadNote(h, i)
      PROVE  req'[h].at = "saveNote"
  BY <1>1, <1>7 DEF ReadNote, Begin, Idle
<1>8. QED
  BY <1>2, <1>3, <1>4, <1>5, <1>6, <1>7, ContactUsers DEF Arrive

\* The ways a request goes on
LEMMA SameCrossed == \A h \in Handlers : Continue(h) => crossed' = crossed
BY DEF Continue, Insert, SaveRow, RemoveRow, ReadPreferences, MakeProfile, Post, SaveNote,
       MakeOwn, ApplySettings, SaveProfile

LEMMA MovedIdle ==
  ASSUME Staged, NEW h \in Handlers, Continue(h), req[h].at # "idle", Finish(h)
  PROVE  Moved(h) /\ Others(h) /\ req' \in [Handlers -> Request]
BY ReqTyped, FinishReq, BlankTypes, IdleStaged, SameCrossed DEF Moved, Follows

LEMMA MovedTell ==
  ASSUME Staged, NEW h \in Handlers, Continue(h), NEW todo \in Seq(Users \X NoteType),
         req[h].at \in {"insert", "saveRow", "removeRow"},
         todo # <<>>, Tell(h, todo)
  PROVE  Moved(h) /\ Others(h) /\ req' \in [Handlers -> Request]
<1> DEFINE r == [Idle EXCEPT !.at = "tell", !.todo = todo]
<1>1. req'[h] = r /\ r \in Request /\ Others(h) /\ req' \in [Handlers -> Request]
  BY ReqTyped, TellReq
<1>2. r.at = "tell" /\ r.todo = todo
  BY DEF Idle
<1>3. ReqStaged(r)
  BY <1>2 DEF ReqStaged
<1>4. QED
  BY <1>1, <1>2, <1>3, SameCrossed DEF Moved, Follows

LEMMA MovedGoTo ==
  ASSUME Staged, NEW h \in Handlers, Continue(h), NEW stage \in Stages, req[h].at # "idle",
         Follows(req[h].at, stage), stage \in {"makeProfile", "post", "load"},
         GoTo(h, stage)
  PROVE  Moved(h) /\ Others(h) /\ req' \in [Handlers -> Request]
<1> DEFINE r == [req[h] EXCEPT !.at = stage]
<1>1. req'[h] = r /\ r \in Request /\ Others(h) /\ req' \in [Handlers -> Request]
  BY ReqTyped, GoToReq
<1>2. /\ r.at = stage /\ r.kind = req[h].kind /\ r.todo = req[h].todo
      /\ r.user = req[h].user /\ r.peer = req[h].peer
  BY ReqTyped DEF Request
<1>3. ReqStaged(r)
  BY <1>2, ReqTyped DEF ReqStaged, Follows
<1>4. QED
  BY <1>1, <1>2, <1>3, SameCrossed DEF Moved

LEMMA MovedNext ==
  ASSUME Staged, NEW h \in Handlers, Continue(h),
         req[h].at \in {"tell", "makeProfile", "post"}, NextTold(h)
  PROVE  Moved(h) /\ Others(h) /\ req' \in [Handlers -> Request]
<1>1. /\ req'[h] \in Request /\ Others(h) /\ req' \in [Handlers -> Request]
      /\ \/ req'[h] = Idle
         \/ req'[h].at = "tell" /\ req'[h].todo # <<>>
  BY ReqTyped, NextToldReq
<1>2. CASE req'[h] = Idle
  BY <1>1, <1>2, IdleStaged, SameCrossed DEF Moved, Follows
<1>3. CASE req'[h].at = "tell" /\ req'[h].todo # <<>>
  <2>1. ReqStaged(req'[h])
    BY <1>3, ReqTyped DEF ReqStaged
  <2>2. QED
    BY <1>1, <1>3, <2>1, SameCrossed DEF Moved, Follows
<1>4. QED
  BY <1>1, <1>2, <1>3

\* sendFriendRequest takes a row that was never used.
LEMMA KeptInsert ==
  ASSUME Staged, NEW h \in Handlers, Insert(h)
  PROVE  Kept(h)
<1> DEFINE u == req[h].user
           v == req[h].peer
           todo == <<<<v, "received">>>>
<1>1. /\ req[h].at = "insert" /\ u \in Users /\ v \in Users /\ u # v /\ req[h].kind = "send"
      /\ Continue(h)
  BY ReqTyped DEF Insert, ReqStaged, Continue
<1>2. NotesStep /\ profile' \in [Users -> ProfileRow]
  BY SameNotes DEF Insert, Staged, SocialTypeOK
<1>3. CASE Between(u, v) # {}
  BY <1>1, <1>2, <1>3, SameRows, MovedIdle DEF Insert, Kept
<1>4. CASE Between(u, v) = {}
  <2>1. todo \in Seq(Users \X NoteType) /\ todo # <<>>
    BY <1>1 DEF NoteType
  <2>2. Tell(h, todo)
    BY <1>4 DEF Insert
  <2>3. Moved(h) /\ Others(h) /\ req' \in [Handlers -> Request]
    BY <1>1, <2>1, <2>2, MovedTell
  <2>4. PICK i \in FreeRows :
          friend' = [friend EXCEPT ![i] = [there |-> TRUE, from |-> u, to |-> v, status |-> "pending"]]
    BY <1>4 DEF Insert
  <2>5. i \in RowIds /\ friend[i].from = Nobody /\ friend \in [RowIds -> FriendRow]
    BY DEF FreeRows, Staged, SocialTypeOK
  <2>6. [there |-> TRUE, from |-> u, to |-> v, status |-> "pending"] \in FriendRow
    BY <1>1 DEF FriendRow, FriendStatus
  <2>7. RowsStep
    BY <1>1, <2>4, <2>5, <2>6 DEF RowsStep, RowsSound, RowsKept, Staged
  <2>8. QED
    BY <1>2, <2>3, <2>7 DEF Kept
<1>5. QED
  BY <1>3, <1>4

\* acceptFriendRequest writes the row it read over the row with its id.
LEMMA KeptSaveRow ==
  ASSUME Staged, NEW h \in Handlers, SaveRow(h)
  PROVE  Kept(h)
<1> DEFINE u == req[h].user
           v == req[h].peer
           i == req[h].id
           row == req[h].row
           todo == <<<<row.from, "accepted">>, <<row.to, "accepted">>>>
<1>1. /\ req[h].at = "saveRow" /\ u \in Users /\ v \in Users /\ i \in RowIds
      /\ row = [there |-> TRUE, from |-> v, to |-> u, status |-> "accepted"]
      /\ friend[i].from = v /\ friend[i].to = u /\ req[h].kind = "accept"
      /\ Continue(h)
  BY ReqTyped DEF SaveRow, ReqStaged, ReqRow, Continue
<1>2. NotesStep /\ profile' \in [Users -> ProfileRow]
  BY SameNotes DEF SaveRow, Staged, SocialTypeOK
<1>3. CASE ~friend[i].there /\ Between(row.from, row.to) # {}
  BY <1>1, <1>2, <1>3, SameRows, MovedIdle DEF SaveRow, Kept
<1>4. CASE ~(~friend[i].there /\ Between(row.from, row.to) # {})
  <2>1. todo \in Seq(Users \X NoteType) /\ todo # <<>>
    BY <1>1 DEF NoteType
  <2>2. Tell(h, todo) /\ friend' = [friend EXCEPT ![i] = row]
    BY <1>4 DEF SaveRow
  <2>3. Moved(h) /\ Others(h) /\ req' \in [Handlers -> Request]
    BY <1>1, <2>1, <2>2, MovedTell
  <2>4. row \in FriendRow /\ friend \in [RowIds -> FriendRow]
    BY <1>1 DEF FriendRow, FriendStatus, Staged, SocialTypeOK
  <2>5. friend[i] # NoRow /\ friend[i].from # friend[i].to
    BY <1>1, SocialUsers DEF Staged, RowsSound, NoRow
  <2>6. RowsStep
    BY <1>1, <2>2, <2>4, <2>5 DEF RowsStep, RowsSound, RowsKept, Staged
  <2>7. QED
    BY <1>2, <2>3, <2>6 DEF Kept
<1>5. QED
  BY <1>3, <1>4

\* declineFriendRequest, cancelFriendRequest and unfriend remove their row.
LEMMA KeptRemoveRow ==
  ASSUME Staged, NEW h \in Handlers, RemoveRow(h)
  PROVE  Kept(h)
<1> DEFINE u == req[h].user
           v == req[h].peer
           i == req[h].id
           todo == <<<<v, "declined">>, <<u, "declined">>>>
<1>1. /\ req[h].at = "removeRow" /\ u \in Users /\ v \in Users /\ i \in RowIds
      /\ {friend[i].from, friend[i].to} = {u, v} /\ Continue(h)
  BY ReqTyped DEF RemoveRow, ReqStaged, ReqRow, Continue
<1>2. NotesStep /\ profile' \in [Users -> ProfileRow]
  BY SameNotes DEF RemoveRow, Staged, SocialTypeOK
<1>3. Moved(h) /\ Others(h) /\ req' \in [Handlers -> Request]
  <2>1. CASE req[h].kind = "decline"
    <3>1. todo \in Seq(Users \X NoteType) /\ todo # <<>>
      BY <1>1 DEF NoteType
    <3>2. QED
      BY <1>1, <2>1, <3>1, MovedTell DEF RemoveRow
  <2>2. CASE req[h].kind # "decline"
    BY <1>1, <2>2, MovedIdle DEF RemoveRow
  <2>3. QED
    BY <2>1, <2>2
<1>4. friend' = [friend EXCEPT ![i].there = FALSE] /\ friend \in [RowIds -> FriendRow]
  BY DEF RemoveRow, Staged, SocialTypeOK
<1>5. /\ friend'[i] \in FriendRow /\ friend'[i].from = friend[i].from
      /\ friend'[i].to = friend[i].to
  BY <1>1, <1>4 DEF FriendRow
<1>6. \A j \in RowIds : j # i => friend'[j] = friend[j]
  BY <1>4
<1>7. friend[i] # NoRow /\ friend[i].from # friend[i].to
      /\ friend[i].from \in Users /\ friend[i].to \in Users
  BY <1>1, SocialUsers DEF Staged, RowsSound, NoRow
<1>8. RowsStep
  <2>1. friend' \in [RowIds -> FriendRow]
    BY <1>4, <1>5, <1>6
  <2>2. RowsSound' /\ RowsKept
    BY <1>5, <1>6, <1>7 DEF Staged, RowsSound, RowsKept
  <2>3. QED
    BY <2>1, <2>2 DEF RowsStep
<1>9. QED
  BY <1>2, <1>3, <1>8 DEF Kept

\* The steps that send a notification.
LEMMA KeptTell ==
  ASSUME Staged, NEW h \in Handlers, ReadPreferences(h) \/ MakeProfile(h) \/ Post(h)
  PROVE  Kept(h)
<1> DEFINE to == req[h].todo[1][1]
           type == req[h].todo[1][2]
<1>1. /\ req[h].at \in {"tell", "makeProfile", "post"} /\ Continue(h) /\ req[h] \in Request
      /\ req[h].todo # <<>>
  BY ReqTyped DEF ReqStaged, ReadPreferences, MakeProfile, Post, Continue
<1>2. to \in Users /\ type \in NoteType
  <2>1. req[h].todo \in Seq(Users \X NoteType) /\ Len(req[h].todo) \in Nat \ {0}
    BY <1>1, EmptySeq DEF Request
  <2>2. req[h].todo[1] \in Users \X NoteType
    BY <2>1
  <2>3. QED
    BY <2>2
<1>3. RowsStep
  BY SameRows DEF ReadPreferences, MakeProfile, Post
<1>4. Moved(h) /\ Others(h) /\ req' \in [Handlers -> Request]
  <2>1. CASE ReadPreferences(h)
    BY <1>1, <2>1, MovedGoTo, MovedNext DEF ReadPreferences, Follows, Stages
  <2>2. CASE MakeProfile(h)
    BY <1>1, <2>2, MovedGoTo, MovedNext DEF MakeProfile, Follows, Stages
  <2>3. CASE Post(h)
    BY <1>1, <2>3, MovedNext DEF Post
  <2>4. QED
    BY <2>1, <2>2, <2>3
<1>5. profile' \in [Users -> ProfileRow]
  BY <1>2, BlankTypes DEF ReadPreferences, MakeProfile, Post, Staged, SocialTypeOK
<1>6. NotesStep
  <2>1. CASE note' = note
    BY <2>1, SameNotes
  <2>2. ASSUME NEW i \in FreeNotes,
               note' = [note EXCEPT ![i] = [state |-> "unread", user |-> to]]
        PROVE  NotesStep
    <3>1. i \in NoteIds /\ note \in [NoteIds -> NoteRow]
      BY DEF FreeNotes, Staged, SocialTypeOK
    <3>2. [state |-> "unread", user |-> to] \in NoteRow
      BY <1>2 DEF NoteRow
    <3>3. QED
      BY <1>2, <2>2, <3>1, <3>2 DEF NotesStep, NotesOwned, NotesKept, Staged
  <2>3. QED
    BY <2>1, <2>2 DEF ReadPreferences, MakeProfile, Post
<1>7. QED
  BY <1>3, <1>4, <1>5, <1>6 DEF Kept

\* markAsRead saves the notification it read.
LEMMA KeptSaveNote ==
  ASSUME Staged, NEW h \in Handlers, SaveNote(h)
  PROVE  Kept(h)
<1> DEFINE i == req[h].id
<1>1. req[h].at = "saveNote" /\ i \in NoteIds /\ Continue(h) /\ note[i].state # "none"
  BY ReqTyped DEF SaveNote, ReqStaged, ReqRow, Continue
<1>2. Moved(h) /\ Others(h) /\ req' \in [Handlers -> Request]
  BY <1>1, MovedIdle DEF SaveNote
<1>3. note' = [note EXCEPT ![i].state = "read"] /\ note \in [NoteIds -> NoteRow]
  BY DEF SaveNote, Staged, SocialTypeOK
<1>4. \A j \in NoteIds : j # i => note'[j] = note[j]
  BY <1>3
<1>5. /\ note'[i] \in NoteRow /\ note'[i].user = note[i].user
      /\ note'[i].state = "read"
  BY <1>1, <1>3 DEF NoteRow
<1>6. NotesStep
  <2>1. note' \in [NoteIds -> NoteRow]
    BY <1>3, <1>4, <1>5
  <2>2. NotesOwned' /\ NotesKept
    BY <1>1, <1>4, <1>5 DEF Staged, NotesOwned, NotesKept
  <2>3. QED
    BY <2>1, <2>2 DEF NotesStep
<1>7. RowsStep /\ profile' \in [Users -> ProfileRow]
  BY SameRows DEF SaveNote, Staged, SocialTypeOK
<1>8. QED
  BY <1>2, <1>6, <1>7 DEF Kept

\* The steps that apply settings to a profile.
LEMMA KeptProfile ==
  ASSUME Staged, NEW h \in Handlers, MakeOwn(h) \/ ApplySettings(h) \/ SaveProfile(h)
  PROVE  Kept(h)
<1> DEFINE u == req[h].user
           ent == With(req[h].ent, req[h].body)
           r == [req[h] EXCEPT !.at = "saveProfile", !.ent = ent]
<1>1. /\ req[h].at \in {"makeOwn", "load", "saveProfile"} /\ u \in Users /\ Continue(h)
      /\ req[h] \in Request /\ req \in [Handlers -> Request] /\ req[h].kind = "settings"
  BY ReqTyped DEF ReqStaged, MakeOwn, ApplySettings, SaveProfile, Continue
<1>2. RowsStep /\ NotesStep
  BY SameRows, SameNotes DEF MakeOwn, ApplySettings, SaveProfile
<1>3. profile' \in [Users -> ProfileRow]
  <2>1. profile \in [Users -> ProfileRow] /\ req[h].ent \in ProfileRow
    BY <1>1 DEF Staged, SocialTypeOK, Request
  <2>2. QED
    BY <1>1, <2>1, BlankTypes DEF MakeOwn, ApplySettings, SaveProfile
<1>4. Moved(h) /\ Others(h) /\ req' \in [Handlers -> Request]
  <2>1. CASE MakeOwn(h)
    BY <1>1, <2>1, MovedGoTo, MovedIdle DEF MakeOwn, Follows, Stages
  <2>2. CASE SaveProfile(h)
    BY <1>1, <2>2, MovedIdle DEF SaveProfile
  <2>3. CASE ApplySettings(h) /\ Finish(h)
    BY <1>1, <2>3, MovedIdle
  <2>4. CASE ApplySettings(h) /\ ~Finish(h)
    <3>1. req' = [req EXCEPT ![h] = r] /\ req[h].at = "load"
      BY <1>1, <2>4 DEF ApplySettings, Request
    <3>2. ent \in ProfileRow
      BY <1>1, WithSettings DEF Request
    <3> HIDE DEF ent
    <3>3. /\ r \in Request /\ r.at = "saveProfile" /\ r.kind = req[h].kind
          /\ r.user = req[h].user /\ r.peer = req[h].peer
      BY <1>1, <3>2 DEF Request, Stages
    <3>4. ReqStaged(r)
      BY <1>1, <3>1, <3>3, ReqTyped DEF ReqStaged
    <3>5. req'[h] = r /\ Others(h) /\ req' \in [Handlers -> Request]
      BY <1>1, <3>1, <3>3, FrameReq
    <3>6. QED
      BY <1>1, <3>1, <3>3, <3>4, <3>5, SameCrossed DEF Moved, Follows
  <2>5. QED
    BY <2>1, <2>2, <2>3, <2>4
<1>5. QED
  BY <1>2, <1>3, <1>4 DEF Kept

LEMMA ContinueShape ==
  ASSUME Staged, NEW h \in Handlers, Continue(h)
  PROVE  Kept(h)
BY KeptInsert, KeptSaveRow, KeptRemoveRow, KeptTell, KeptSaveNote, KeptProfile DEF Continue

\* Only a question can cross another one.
LEMMA CrossedTyped ==
  ASSUME Staged, NEW h \in Handlers, Arrive(h)
  PROVE  /\ crossed' \subseteq SUBSET Users
         /\ crossed' = crossed \/ \E c \in Contacts : Send(h, c[1], c[2])
<1>1. ASSUME NEW c \in Contacts, Send(h, c[1], c[2])
      PROVE  crossed' \subseteq SUBSET Users
  <2>1. {c[1], c[2]} \in SUBSET Users /\ crossed \subseteq SUBSET Users
    BY ContactUsers DEF Staged, SocialTypeOK
  <2>2. crossed' = crossed \/ crossed' = crossed \cup {{c[1], c[2]}}
    BY <1>1 DEF Send, NoteCrossed
  <2>3. QED
    BY <2>1, <2>2
<1>2. CASE ~\E c \in Contacts : Send(h, c[1], c[2])
  <2>1. crossed' = crossed
    BY <1>2 DEF Arrive, Accept, FindToRemove, LoadProfile, ReadNote, ReadAll, DeleteNotes
  <2>2. QED
    BY <2>1 DEF Staged, SocialTypeOK
<1>3. QED
  BY <1>1, <1>2

\* A step begins a request, or moves one on, and touches no other.
LEMMA StepShape ==
  ASSUME Staged, [Next]_vars
  PROVE  \/ UNCHANGED vars
         \/ \E h \in Handlers :
              /\ Others(h) /\ req' \in [Handlers -> Request] /\ crossed' \subseteq SUBSET Users
              /\ RowsStep /\ NotesStep /\ profile' \in [Users -> ProfileRow]
              /\ \/ Begun(h) /\ Arrive(h)
                 \/ Moved(h)
<1>1. ASSUME NEW h \in Handlers, Arrive(h)
      PROVE  /\ Others(h) /\ req' \in [Handlers -> Request] /\ Begun(h)
             /\ crossed' \subseteq SUBSET Users
             /\ RowsStep /\ NotesStep /\ profile' \in [Users -> ProfileRow]
  <2>1. Begun(h) /\ (note' = note \/ NotesMarked(note'))
    BY <1>1, ArriveShape
  <2>2. PICK r \in Request : Begin(h, r) /\ friend' = friend /\ profile' = profile
    BY <2>1 DEF Begun
  <2>3. Others(h) /\ req' \in [Handlers -> Request]
    BY <2>2, ReqTyped, FrameReq DEF Begin
  <2>4. NotesStep
    BY <2>1, SameNotes DEF NotesMarked, NotesStep, NotesOwned, NotesKept, Staged
  <2>5. RowsStep /\ profile' \in [Users -> ProfileRow]
    BY <2>2, SameRows DEF Staged, SocialTypeOK
  <2>6. QED
    BY <1>1, <2>1, <2>3, <2>4, <2>5, CrossedTyped
<1>2. ASSUME NEW h \in Handlers, Continue(h)
      PROVE  Kept(h) /\ crossed' \subseteq SUBSET Users
  BY <1>2, ContinueShape DEF Kept, Moved, Staged, SocialTypeOK
<1>3. QED
  BY <1>1, <1>2 DEF Next, Kept

LEMMA RowOfOthers ==
  ASSUME NEW r \in Request, ReqStaged(r), ReqRow(r), RowsKept, NotesKept
  PROVE  ReqRow(r)'
<1>1. CASE r.at = "saveRow"
  BY <1>1, SocialUsers DEF ReqStaged, ReqRow, RowsKept
<1>2. CASE r.at = "removeRow"
  <2>1. r.id \in RowIds /\ r.user \in Users /\ r.peer \in Users
        /\ {friend[r.id].from, friend[r.id].to} = {r.user, r.peer}
    BY <1>2 DEF ReqStaged, ReqRow
  <2>2. friend[r.id].from # Nobody
    BY <2>1, SocialUsers
  <2>3. friend'[r.id].from = friend[r.id].from /\ friend'[r.id].to = friend[r.id].to
    BY <2>1, <2>2 DEF RowsKept
  <2>4. QED
    BY <1>2, <2>1, <2>3 DEF ReqRow
<1>3. CASE r.at = "saveNote"
  BY <1>3 DEF ReqStaged, ReqRow, NotesKept
<1>4. QED
  BY <1>1, <1>2, <1>3 DEF ReqRow

LEMMA StagedInit == Init => Staged
<1> SUFFICES ASSUME Init
             PROVE  Staged
  OBVIOUS
<1>1. SocialTypeOK /\ req \in [Handlers -> Request]
  BY BlankTypes DEF Init, SocialTypeOK, Idle, Stages, RequestKinds
<1>2. RowsSound /\ NotesOwned
  BY DEF Init, RowsSound, NotesOwned, NoNote
<1>3. \A h \in Handlers : ReqStaged(req[h]) /\ ReqRow(req[h])
  BY IdleStaged DEF Init, ReqRow
<1>4. QED
  BY <1>1, <1>2, <1>3 DEF Staged

LEMMA StagedStep == Staged /\ [Next]_vars => Staged'
<1> SUFFICES ASSUME Staged, [Next]_vars
             PROVE  Staged'
  OBVIOUS
<1>1. CASE UNCHANGED vars
  BY <1>1 DEF vars, Staged, SocialTypeOK, RowsSound, NotesOwned, ReqRow
<1>2. ASSUME NEW h \in Handlers, Others(h), req' \in [Handlers -> Request],
             crossed' \subseteq SUBSET Users, RowsStep, NotesStep, profile' \in [Users -> ProfileRow], Begun(h) \/ Moved(h)
      PROVE  Staged'
  <2>1. SocialTypeOK' /\ RowsSound' /\ NotesOwned' /\ RowsKept /\ NotesKept
    BY <1>2 DEF SocialTypeOK, RowsStep, NotesStep, Request
  <2>2. ReqStaged(req'[h]) /\ ReqRow(req[h])'
    <3>1. CASE Begun(h)
      <4>1. PICK r \in Request : ReqStaged(r) /\ ReqRow(r) /\ Begin(h, r)
        BY <3>1 DEF Begun
      <4>2. req'[h] = r
        BY <4>1, ReqTyped DEF Begin
      <4>3. QED
        BY <2>1, <4>1, <4>2, RowOfOthers DEF ReqRow
    <3>2. CASE Moved(h)
      BY <3>2 DEF Moved, Follows, ReqRow
    <3>3. QED
      BY <1>2, <3>1, <3>2
  <2>3. ASSUME NEW g \in Handlers, g # h
        PROVE  ReqStaged(req'[g]) /\ ReqRow(req[g])'
    BY <1>2, <2>1, <2>3, ReqTyped, RowOfOthers DEF Others, ReqRow
  <2>4. ReqStaged(req[h])' /\ \A g \in Handlers : g # h => ReqStaged(req[g])'
    BY <2>2, <2>3 DEF ReqStaged
  <2>5. QED
    BY <1>2, <2>1, <2>2, <2>3, <2>4 DEF Staged
<1>3. QED
  BY <1>1, <1>2, StepShape

\* Rows of friends, profiles and notifications keep their types, whatever the
\* requests do: what a handler saves has the type of what it read.
THEOREM SocialTypeCorrect == Spec => []SocialTypeOK
<1>1. Staged => SocialTypeOK
  BY DEF Staged
<1>2. QED
  BY <1>1, StagedInit, StagedStep, PTL DEF Spec

-----------------------------------------------------------------------------
\* The profile of an author

\* What is going to be saved over the profile of an author is public as well
AuthorReq(r) ==
  r.at \in {"makeOwn", "load", "saveProfile"} /\ r.user \in Authors
    => r.ent.profilePrivacy = "public"

AuthorsInv == AuthorsPublic /\ \A h \in Handlers : AuthorReq(req[h])

LEMMA AuthorsInit == Init => AuthorsInv
<1> SUFFICES ASSUME Init
             PROVE  AuthorsInv
  OBVIOUS
<1>1. AuthorsPublic
  BY SocialUsers DEF Init, AuthorsPublic, NewProfile, NoProfile
<1>2. \A h \in Handlers : AuthorReq(req[h])
  BY IdleStaged DEF Init, AuthorReq
<1>3. QED
  BY <1>1, <1>2 DEF AuthorsInv

\* A request for new settings begins with the profile, or with a new one.
LEMMA AuthorBegun ==
  ASSUME Staged, AuthorsInv, NEW h \in Handlers, Arrive(h)
  PROVE  AuthorReq(req'[h])
<1>1. CASE \E s \in Settings : LoadProfile(h, s[1], s[2])
  <2>1. PICK s \in Settings : LoadProfile(h, s[1], s[2])
    BY <1>1
  <2> DEFINE ent == IF profile[s[1]].there THEN profile[s[1]] ELSE NewProfile
  <2>2. s[1] \in Authors => ent.profilePrivacy = "public"
    BY DEF AuthorsInv, AuthorsPublic, NewProfile, NoProfile
  <2>3. req'[h].user = s[1] /\ req'[h].ent = ent
    BY <2>1, ReqTyped DEF LoadProfile, Begin, Idle
  <2>4. QED
    BY <2>2, <2>3 DEF AuthorReq
<1>2. CASE ~\E s \in Settings : LoadProfile(h, s[1], s[2])
  <2>1. req'[h].at \notin {"makeOwn", "load", "saveProfile"}
    BY <1>2, BegunStage
  <2>2. QED
    BY <2>1 DEF AuthorReq
<1>3. QED
  BY <1>1, <1>2

\* Saves and new profiles keep the profiles of authors public.
LEMMA AuthorMoved ==
  ASSUME Staged, AuthorsInv, NEW h \in Handlers, Continue(h)
  PROVE  AuthorsPublic' /\ AuthorReq(req'[h])
<1>1. /\ Moved(h) /\ req[h] \in Request /\ ReqStaged(req[h]) /\ req \in [Handlers -> Request]
      /\ profile \in [Users -> ProfileRow]
  BY ContinueShape, ReqTyped DEF Kept, Staged, SocialTypeOK
<1>2. AuthorsPublic'
  <2>1. CASE profile' = profile
    BY <2>1 DEF AuthorsInv, AuthorsPublic
  <2>2. CASE SaveProfile(h)
    BY <1>1, <2>2 DEF SaveProfile, AuthorsInv, AuthorsPublic, AuthorReq
  <2>3. CASE \E u \in Users : profile' = [profile EXCEPT ![u] = NewProfile]
    BY <1>1, <2>3, SocialUsers DEF AuthorsInv, AuthorsPublic, NewProfile, NoProfile
  <2>4. CASE MakeOwn(h)
    BY <1>1, <2>1, <2>3, <2>4 DEF MakeOwn, ReqStaged
  <2>5. CASE MakeProfile(h)
    <3>1. CASE profile[req[h].todo[1][1]].there
      BY <2>1, <2>5, <3>1 DEF MakeProfile
    <3>2. CASE ~profile[req[h].todo[1][1]].there
      <4>1. profile' = [profile EXCEPT ![req[h].todo[1][1]] = NewProfile]
        BY <2>5, <3>2 DEF MakeProfile
      <4>2. QED
        BY <1>1, <4>1, SocialUsers DEF AuthorsInv, AuthorsPublic, NewProfile, NoProfile
    <3>3. QED
      BY <3>1, <3>2
  <2>6. QED
    BY <2>1, <2>2, <2>4, <2>5
       DEF Continue, Insert, SaveRow, RemoveRow, ReadPreferences, Post, SaveNote, ApplySettings
<1>3. AuthorReq(req'[h])
  <2>1. CASE ApplySettings(h) /\ ~Refused(req[h].user, req[h].body)
    <3>1. req'[h] = [req[h] EXCEPT !.at = "saveProfile", !.ent = With(req[h].ent, req[h].body)]
      BY <1>1, <2>1 DEF ApplySettings, Request
    <3>2. req'[h].user = req[h].user /\ req'[h].ent = With(req[h].ent, req[h].body)
      BY <1>1, <3>1 DEF Request
    <3>3. req[h].user \in Authors => With(req[h].ent, req[h].body).profilePrivacy = "public"
      BY <1>1, <2>1, WithSettings DEF Refused, ApplySettings, AuthorsInv, AuthorReq, Request
    <3>4. QED
      BY <3>2, <3>3 DEF AuthorReq
  <2>2. CASE MakeOwn(h) /\ GoTo(h, "load")
    <3>1. req'[h] = [req[h] EXCEPT !.at = "load"] /\ req[h].at = "makeOwn"
      BY <1>1, <2>2, GoToReq DEF MakeOwn, Stages
    <3>2. req'[h].user = req[h].user /\ req'[h].ent = req[h].ent
      BY <1>1, <3>1 DEF Request
    <3>3. QED
      BY <3>1, <3>2 DEF AuthorsInv, AuthorReq
  <2>3. CASE Finish(h)
    BY <1>1, <2>3, FinishReq, IdleStaged DEF AuthorReq
  <2>4. CASE req[h].at \notin {"makeOwn", "load"}
    BY <1>1, <2>4 DEF Moved, Follows, AuthorReq
  <2>5. QED
    BY <2>1, <2>2, <2>3, <2>4 DEF Continue, Insert, SaveRow, RemoveRow, ReadPreferences,
       MakeProfile, Post, SaveNote, MakeOwn, ApplySettings, SaveProfile
<1>4. QED
  BY <1>2, <1>3

LEMMA AuthorsStep == Staged /\ AuthorsInv /\ [Next]_vars => AuthorsInv'
<1> SUFFICES ASSUME Staged, AuthorsInv, [Next]_vars
             PROVE  AuthorsInv'
  OBVIOUS
<1>1. CASE UNCHANGED vars
  BY <1>1 DEF vars, AuthorsInv, AuthorsPublic, AuthorReq
<1>2. ASSUME NEW h \in Handlers, Arrive(h) \/ Continue(h), Others(h),
             AuthorsPublic', AuthorReq(req'[h])
      PROVE  AuthorsInv'
  BY <1>2 DEF Others, AuthorsInv, AuthorReq
<1>3. ASSUME NEW h \in Handlers, Arrive(h)
      PROVE  AuthorsInv'
  <2>1. PICK r \in Request : Begin(h, r) /\ profile' = profile
    BY <1>3, ArriveShape DEF Begun
  <2>2. Others(h) /\ AuthorsPublic'
    BY <2>1, ReqTyped, FrameReq DEF Begin, AuthorsInv, AuthorsPublic
  <2>3. QED
    BY <1>2, <1>3, <2>2, AuthorBegun
<1>4. ASSUME NEW h \in Handlers, Continue(h)
      PROVE  AuthorsInv'
  BY <1>2, <1>4, AuthorMoved, ContinueShape DEF Kept
<1>5. QED
  BY <1>1, <1>3, <1>4 DEF Next

\* The profile of an author stays public: settings are checked and saved in
\* different steps, and the profile may be made by another request.
THEOREM AuthorsStayPublic == Spec => []AuthorsPublic
<1>1. AuthorsInv => AuthorsPublic
  BY DEF AuthorsInv
<1>2. QED
  BY <1>1, StagedInit, StagedStep, AuthorsInit, AuthorsStep, PTL DEF Spec

-----------------------------------------------------------------------------
\* Notifications

NotesSettled ==
  \A i \in NoteIds :
    /\ note[i].state = "read" => note'[i].state \in {"read", "deleted"}
    /\ note[i].state = "deleted" =>
         /\ Readers(i)' \subseteq Readers(i)
         /\ \/ note'[i] = note[i]
            \/ note'[i].state = "read" /\ Readers(i)' # Readers(i)

\* Who does not begin to read leaves no more readers than there were.
LEMMA FewerReaders ==
  ASSUME NEW h \in Handlers, Others(h), req'[h].at # "saveNote"
  PROVE  \A i : Readers(i)' \subseteq Readers(i)
BY DEF Readers, Others

LEMMA NotesStepKept ==
  ASSUME Staged, [Next]_vars
  PROVE  NotesSettled
<1>1. CASE UNCHANGED vars
  BY <1>1 DEF vars, NotesSettled, Readers
<1>2. note \in [NoteIds -> NoteRow]
  BY DEF Staged, SocialTypeOK
<1>3. ASSUME NEW h \in Handlers, Others(h), req'[h].at # "saveNote",
             \A i \in NoteIds : /\ note[i].state = "read" => note'[i].state \in {"read", "deleted"}
                                /\ note[i].state = "deleted" => note'[i] = note[i]
      PROVE  NotesSettled
  BY <1>3, FewerReaders DEF NotesSettled
\* Who begins to read found the notification unread.
<1>4. ASSUME NEW h \in Handlers, NEW i \in NoteIds, ReadNote(h, i)
      PROVE  NotesSettled
  <2>1. req'[h].id = i /\ note' = note /\ note[i].state = "unread"
        /\ \A g \in Handlers : g # h => req'[g] = req[g]
    BY <1>4, ReqTyped DEF ReadNote, Begin, Idle
  <2>2. \A j \in NoteIds : note[j].state = "deleted" => Readers(j)' \subseteq Readers(j)
    BY <2>1 DEF Readers
  <2>3. QED
    BY <2>1, <2>2 DEF NotesSettled
<1>5. ASSUME NEW h \in Handlers, Arrive(h), ~\E i \in NoteIds : ReadNote(h, i)
      PROVE  NotesSettled
  <2>1. Others(h)
    BY <1>5, ArriveShape, ReqTyped, FrameReq DEF Begun, Begin
  <2>2. req'[h].at # "saveNote"
    BY <1>5, BegunStage
  <2>3. note' = note \/ \E u \in Users : ReadAll(h, u) \/ \E S : DeleteNotes(h, u, S)
    BY <1>5 DEF Arrive, Send, Accept, FindToRemove, LoadProfile
  <2>4. ASSUME NEW u \in Users, ReadAll(h, u)
        PROVE  \A i \in NoteIds : note[i].state \in {"read", "deleted"} => note'[i] = note[i]
    BY <1>2, <2>4 DEF ReadAll
  <2>5. ASSUME NEW u \in Users, NEW S, DeleteNotes(h, u, S)
        PROVE  \A i \in NoteIds :
                 /\ note[i].state = "read" => note'[i].state \in {"read", "deleted"}
                 /\ note[i].state = "deleted" => note'[i] = note[i]
    BY <1>2, <2>5 DEF DeleteNotes, NoteRow
  <2>6. QED
    BY <1>3, <2>1, <2>2, <2>3, <2>4, <2>5
<1>6. ASSUME NEW h \in Handlers, Continue(h)
      PROVE  NotesSettled
  <2>1. Others(h) /\ req'[h].at # "saveNote"
    BY <1>6, ContinueShape DEF Kept, Moved, Follows
  \* The save of a reader is the one that may bring a deleted row back
  <2>2. CASE SaveNote(h)
    <3>1. req[h].id \in NoteIds /\ req[h].at = "saveNote"
      BY <2>2, ReqTyped DEF SaveNote, ReqStaged
    <3>2. /\ note'[req[h].id].state = "read"
          /\ \A i \in NoteIds : i # req[h].id => note'[i] = note[i]
      BY <1>2, <2>2, <3>1 DEF SaveNote, NoteRow
    <3>3. \A i \in NoteIds : i = req[h].id => h \in Readers(i) /\ h \notin Readers(i)'
      BY <2>1, <3>1 DEF Readers
    <3>4. \A i \in NoteIds : Readers(i)' \subseteq Readers(i)
      BY <2>1, FewerReaders
    <3>5. ASSUME NEW i \in NoteIds
          PROVE  /\ note[i].state = "read" => note'[i].state \in {"read", "deleted"}
                 /\ note[i].state = "deleted" =>
                      \/ note'[i] = note[i]
                      \/ note'[i].state = "read" /\ Readers(i)' # Readers(i)
      <4>1. CASE i = req[h].id
        BY <3>2, <3>3, <4>1
      <4>2. CASE i # req[h].id
        BY <3>2, <4>2
      <4>3. QED
        BY <4>1, <4>2
    <3>6. QED
      BY <3>4, <3>5 DEF NotesSettled
  <2>3. CASE Post(h)
    BY <1>2, <1>3, <2>1, <2>3 DEF Post, FreeNotes
  <2>4. CASE note' = note
    BY <1>3, <2>1, <2>4
  <2>5. QED
    BY <1>6, <2>2, <2>3, <2>4 DEF Continue, Insert, SaveRow, RemoveRow, ReadPreferences,
       MakeProfile, MakeOwn, ApplySettings, SaveProfile
<1>7. QED
  BY <1>1, <1>4, <1>5, <1>6 DEF Next

\* A notification that was read is not unread again, and a deleted one comes
\* back only as read, through a request that had found it unread before it was
\* deleted, once by each: markAsRead saves the row it loaded.
THEOREM NotificationsSettle == Spec => NotesSettle
<1>1. Staged /\ [Next]_vars => [NotesSettled]_vars
  BY NotesStepKept
<1>2. Staged /\ [Next]_vars =>
        [\A i \in NoteIds :
           /\ note[i].state = "read" => note'[i].state \in {"read", "deleted"}
           /\ note[i].state = "deleted" =>
                /\ Readers(i)' \subseteq Readers(i)
                /\ \/ note'[i] = note[i]
                   \/ note'[i].state = "read" /\ Readers(i)' # Readers(i)]_vars
  BY <1>1 DEF NotesSettled
<1>3. QED
  BY <1>2, StagedInit, StagedStep, PTL DEF Spec, NotesSettle

-----------------------------------------------------------------------------
\* Friendship: what the unique index and the first look at the rows keep

\* The rows of one user to another, and the rows between two users
RowsTo(f, q) == {i \in RowIds : f[i].there /\ f[i].from = q[1] /\ f[i].to = q[2]}
RowsOf(f, p) == {i \in RowIds : f[i].there /\ {f[i].from, f[i].to} = p}

\* The unique index: one row at most of one user to another
OneEach == \A i, j \in RowIds :
             friend[i].there /\ friend[j].there /\ friend[i].from = friend[j].from
             /\ friend[i].to = friend[j].to => i = j

\* u asks v, or is going to
Claims(u, v) == Between(u, v) # {} \/ OnItsWay(u, v)

CrossInv == \A u, v \in Users :
              u # v /\ {u, v} \notin crossed => ~(Claims(u, v) /\ Claims(v, u))

FriendsInv == OneEach /\ CrossInv

LEMMA FriendsInit == Init => FriendsInv
<1> SUFFICES ASSUME Init
             PROVE  FriendsInv
  OBVIOUS
<1>1. OneEach
  BY DEF Init, OneEach, NoRow
<1>2. \A u, v : ~Claims(u, v)
  BY IdleStaged DEF Init, Claims, Between, OnItsWay, NoRow
<1>3. QED
  BY <1>1, <1>2 DEF FriendsInv, CrossInv

\* What a step does to the rows: nothing, a first row, an answer or an end.
Written(i, row) ==
  /\ i \in RowIds /\ row \in FriendRow
  /\ friend'[i] = row /\ \A j \in RowIds : j # i => friend'[j] = friend[j]

Asked(h, i) ==
  /\ req[h].at = "insert" /\ ~friend[i].there
  /\ Between(req[h].user, req[h].peer) = {}
  /\ Written(i, [there |-> TRUE, from |-> req[h].user, to |-> req[h].peer,
                 status |-> "pending"])

Agreed(h, i) ==
  /\ req[h].at = "saveRow" /\ i = req[h].id
  /\ friend[i].from = req[h].row.from /\ friend[i].to = req[h].row.to
  /\ friend[i].there \/ Between(req[h].row.from, req[h].row.to) = {}
  /\ Written(i, [there |-> TRUE, from |-> req[h].row.from, to |-> req[h].row.to,
                 status |-> "accepted"])

Ended(h, i) ==
  /\ req[h].at = "removeRow" /\ i = req[h].id
  /\ Written(i, [friend[i] EXCEPT !.there = FALSE])

LEMMA EndedRow ==
  ASSUME NEW row \in FriendRow
  PROVE  LET ended == [row EXCEPT !.there = FALSE]
         IN  /\ ended \in FriendRow /\ ~ended.there
             /\ ended.from = row.from /\ ended.to = row.to
BY DEF FriendRow

LEMMA RowChange ==
  ASSUME Staged, NEW h \in Handlers, Continue(h)
  PROVE  \/ friend' = friend /\ ~RemoveRow(h)
         \/ Insert(h) /\ \E i : Asked(h, i)
         \/ SaveRow(h) /\ Agreed(h, req[h].id)
         \/ RemoveRow(h) /\ Ended(h, req[h].id)
<1>1. friend \in [RowIds -> FriendRow] /\ ReqStaged(req[h]) /\ ReqRow(req[h])
  BY ReqTyped DEF Staged, SocialTypeOK
<1>2. CASE Insert(h) /\ friend' # friend
  <2>1. PICK i \in FreeRows :
          friend' = [friend EXCEPT ![i] = [there |-> TRUE, from |-> req[h].user,
                                           to |-> req[h].peer, status |-> "pending"]]
    BY <1>2 DEF Insert
  <2>2. i \in RowIds /\ friend[i].from = Nobody
    BY DEF FreeRows
  <2>3. ~friend[i].there
    BY <2>2, SocialUsers DEF Staged, RowsSound, NoRow
  <2>4. req[h].user \in Users /\ req[h].peer \in Users
    BY <1>1, <1>2 DEF Insert, ReqStaged
  <2>5. [there |-> TRUE, from |-> req[h].user, to |-> req[h].peer, status |-> "pending"]
          \in FriendRow
    BY <2>4 DEF FriendRow, FriendStatus
  <2>6. QED
    BY <1>1, <1>2, <2>1, <2>2, <2>3, <2>5 DEF Insert, Asked, Written
<1>3. CASE SaveRow(h) /\ friend' # friend
  <2> DEFINE i == req[h].id
  <2>1. /\ req[h].at = "saveRow" /\ i \in RowIds
        /\ req[h].user \in Users /\ req[h].peer \in Users
        /\ req[h].row = [there |-> TRUE, from |-> req[h].peer, to |-> req[h].user,
                         status |-> "accepted"]
        /\ friend[i].from = req[h].peer /\ friend[i].to = req[h].user
    BY <1>1, <1>3 DEF SaveRow, ReqStaged, ReqRow
  <2>2. friend' = [friend EXCEPT ![i] = req[h].row]
        /\ (friend[i].there \/ Between(req[h].row.from, req[h].row.to) = {})
    BY <1>3 DEF SaveRow
  <2>3. req[h].row \in FriendRow
    BY <2>1 DEF FriendRow, FriendStatus
  <2>4. Agreed(h, i)
    BY <1>1, <2>1, <2>2, <2>3 DEF Agreed, Written
  <2>5. QED
    BY <1>3, <2>4
<1>4. CASE RemoveRow(h)
  <2> DEFINE i == req[h].id
             row == [friend[i] EXCEPT !.there = FALSE]
  <2>1. i \in RowIds /\ req[h].at = "removeRow" /\ friend' = [friend EXCEPT ![i].there = FALSE]
    BY <1>1, <1>4 DEF RemoveRow, ReqStaged
  <2>2. friend[i] \in FriendRow
    BY <1>1, <2>1
  <2>3. row \in FriendRow /\ friend' = [friend EXCEPT ![i] = row]
    BY <2>1, <2>2, EndedRow
  <2> HIDE DEF row
  <2>4. Written(i, row)
    BY <1>1, <2>1, <2>3 DEF Written
  <2>5. QED
    BY <1>4, <2>1, <2>4 DEF Ended, row
<1>5. QED
  BY <1>2, <1>3, <1>4 DEF Continue, Insert, SaveRow, ReadPreferences, MakeProfile, Post, SaveNote,
     MakeOwn, ApplySettings, SaveProfile, RemoveRow

\* A row is written where no other row of one user to the other is.
LEMMA OneEachKept ==
  ASSUME Staged, OneEach, NEW h \in Handlers, Continue(h)
  PROVE  OneEach'
<1>1. CASE friend' = friend
  BY <1>1 DEF OneEach
<1>2. ASSUME NEW i, NEW row, Written(i, row),
             row.there => \A j \in RowIds : friend[j].there /\ friend[j].from = row.from
                                            /\ friend[j].to = row.to => j = i
      PROVE  OneEach'
  BY <1>2 DEF OneEach, Written
<1>3. ASSUME NEW i, Asked(h, i)
      PROVE  OneEach'
  <2> DEFINE row == [there |-> TRUE, from |-> req[h].user, to |-> req[h].peer,
                     status |-> "pending"]
  <2>1. Written(i, row) /\ row.from = req[h].user /\ row.to = req[h].peer
    BY <1>3 DEF Asked
  <2>2. \A j \in RowIds : ~(friend[j].there /\ friend[j].from = req[h].user
                            /\ friend[j].to = req[h].peer)
    BY <1>3 DEF Asked, Between
  <2> HIDE DEF row
  <2>3. QED
    BY <1>2, <2>1, <2>2
<1>4. ASSUME Agreed(h, req[h].id)
      PROVE  OneEach'
  <2> DEFINE i == req[h].id
             row == [there |-> TRUE, from |-> req[h].row.from, to |-> req[h].row.to,
                     status |-> "accepted"]
  <2>1. Written(i, row) /\ row.from = req[h].row.from /\ row.to = req[h].row.to /\ i \in RowIds
    BY <1>4 DEF Agreed, Written
  <2>2. \A j \in RowIds : friend[j].there /\ friend[j].from = req[h].row.from
                           /\ friend[j].to = req[h].row.to => j = i
    BY <1>4, <2>1 DEF Agreed, Between, OneEach
  <2> HIDE DEF row, i
  <2>3. QED
    BY <1>2, <2>1, <2>2
<1>5. ASSUME Ended(h, req[h].id)
      PROVE  OneEach'
  <2>1. friend[req[h].id] \in FriendRow
    BY <1>5 DEF Ended, Written, Staged, SocialTypeOK
  <2>2. QED
    BY <1>2, <1>5, <2>1, EndedRow DEF Ended
<1>6. QED
  BY <1>1, <1>3, <1>4, <1>5, RowChange

\* A request that goes on claims nothing it did not claim before.
LEMMA ClaimsShrink ==
  ASSUME Staged, NEW h \in Handlers, Continue(h), NEW u, NEW v, Claims(u, v)'
  PROVE  Claims(u, v)
<1>1. Others(h) /\ req'[h].at \notin {"insert", "saveRow"}
  BY ContinueShape DEF Kept, Moved, Follows
<1>2. OnItsWay(u, v)' => OnItsWay(u, v)
  BY <1>1 DEF OnItsWay, Others
<1>3. CASE friend' = friend
  BY <1>2, <1>3 DEF Claims, Between
<1>4. ASSUME NEW i, NEW row, Written(i, row), Between(u, v)' # {}
      PROVE  Between(u, v) # {} \/ (row.there /\ row.from = u /\ row.to = v)
  BY <1>4 DEF Between, Written
<1>5. ASSUME NEW i, Asked(h, i)
      PROVE  Claims(u, v)
  <2> DEFINE row == [there |-> TRUE, from |-> req[h].user, to |-> req[h].peer,
                     status |-> "pending"]
  <2>1. Written(i, row) /\ row.from = req[h].user /\ row.to = req[h].peer
    BY <1>5 DEF Asked
  <2>2. req[h].at = "insert"
    BY <1>5 DEF Asked
  <2> HIDE DEF row
  <2>3. QED
    BY <1>2, <1>4, <2>1, <2>2 DEF Claims, OnItsWay
<1>6. ASSUME Agreed(h, req[h].id)
      PROVE  Claims(u, v)
  <2> DEFINE row == [there |-> TRUE, from |-> req[h].row.from, to |-> req[h].row.to,
                     status |-> "accepted"]
  <2>1. Written(req[h].id, row) /\ row.from = req[h].row.from /\ row.to = req[h].row.to
    BY <1>6 DEF Agreed
  <2>2. req[h].at = "saveRow"
    BY <1>6 DEF Agreed
  <2> HIDE DEF row
  <2>3. QED
    BY <1>2, <1>4, <2>1, <2>2 DEF Claims, OnItsWay
<1>7. ASSUME Ended(h, req[h].id)
      PROVE  Claims(u, v)
  <2>1. friend[req[h].id] \in FriendRow
    BY <1>7 DEF Ended, Written, Staged, SocialTypeOK
  <2>2. Between(u, v)' # {} => Between(u, v) # {}
    BY <1>4, <1>7, <2>1, EndedRow DEF Ended
  <2>3. QED
    BY <1>2, <2>2 DEF Claims
<1>8. QED
  BY <1>3, <1>5, <1>6, <1>7, RowChange

\* Who begins claims something only by asking somebody, or agreeing to a row.
LEMMA ClaimsBegun ==
  ASSUME Staged, NEW h \in Handlers, Arrive(h), NEW u, NEW v, Claims(u, v)'
  PROVE  \/ Claims(u, v)
         \/ /\ <<u, v>> \in Contacts /\ Send(h, u, v)
            /\ \A x, y : OnItsWay(x, y)' => OnItsWay(x, y) \/ (x = u /\ y = v)
<1>1. PICK r \in Request : Begin(h, r) /\ friend' = friend
  BY ArriveShape DEF Begun
<1>2. Others(h) /\ req'[h] = r
  BY <1>1, ReqTyped, FrameReq DEF Begin
<1>3. \A x, y : OnItsWay(x, y)' =>
        \/ OnItsWay(x, y)
        \/ r.at = "insert" /\ r.user = x /\ r.peer = y
        \/ r.at = "saveRow" /\ r.row.from = x /\ r.row.to = y
  <2> SUFFICES ASSUME NEW x, NEW y, OnItsWay(x, y)'
               PROVE  \/ OnItsWay(x, y)
                      \/ r.at = "insert" /\ r.user = x /\ r.peer = y
                      \/ r.at = "saveRow" /\ r.row.from = x /\ r.row.to = y
    OBVIOUS
  <2>1. PICK g \in Handlers :
             \/ req'[g].at = "insert" /\ req'[g].user = x /\ req'[g].peer = y
             \/ req'[g].at = "saveRow" /\ req'[g].row.from = x /\ req'[g].row.to = y
    BY DEF OnItsWay
  <2>2. CASE g = h
    BY <1>2, <2>1, <2>2
  <2>3. CASE g # h
    BY <1>2, <2>1, <2>3 DEF Others, OnItsWay
  <2>4. QED
    BY <2>2, <2>3
<1>4. Between(u, v)' = Between(u, v)
  BY <1>1 DEF Between
<1>5. CASE r.at = "insert"
  <2>1. PICK c \in Contacts : Send(h, c[1], c[2])
    BY <1>2, <1>5, BegunStage, ContactUsers
  <2>2. r.user = c[1] /\ r.peer = c[2]
    BY <1>2, <2>1, ReqTyped DEF Send, Begin, Idle
  <2>3. c = <<c[1], c[2]>>
    BY SocialUsers
  <2>4. QED
    BY <1>3, <1>4, <1>5, <2>1, <2>2, <2>3 DEF Claims
<1>6. CASE r.at = "saveRow"
  <2>1. PICK x \in Users, y \in Users : Accept(h, x, y)
    BY <1>2, <1>6, BegunStage
  <2>2. PICK i \in Pending(y, x) :
          Begin(h, [Idle EXCEPT !.at = "saveRow", !.kind = "accept", !.user = x, !.peer = y,
                                !.id = i, !.row = [friend[i] EXCEPT !.status = "accepted"]])
    BY <2>1 DEF Accept
  <2>3. i \in RowIds /\ friend[i].from = y /\ friend[i].to = x /\ friend[i] \in FriendRow
        /\ Between(y, x) # {}
    BY DEF Pending, Between, Staged, SocialTypeOK
  <2>4. r.row = [friend[i] EXCEPT !.status = "accepted"]
    BY <1>2, <2>2, ReqTyped DEF Begin, Idle
  <2>5. r.row.from = y /\ r.row.to = x
    BY <2>3, <2>4 DEF FriendRow
  <2>6. QED
    BY <1>3, <1>4, <1>6, <2>3, <2>5 DEF Claims
<1>7. CASE r.at \notin {"insert", "saveRow"}
  BY <1>3, <1>4, <1>7 DEF Claims
<1>8. QED
  BY <1>5, <1>6, <1>7

LEMMA FriendsStep == Staged /\ FriendsInv /\ [Next]_vars => FriendsInv'
<1> SUFFICES ASSUME Staged, FriendsInv, [Next]_vars
             PROVE  FriendsInv'
  OBVIOUS
<1>1. CASE UNCHANGED vars
  BY <1>1 DEF vars, FriendsInv, OneEach, CrossInv, Claims, Between, OnItsWay
<1>2. ASSUME NEW h \in Handlers, Continue(h)
      PROVE  FriendsInv'
  <2>1. crossed' = crossed
    BY <1>2, SameCrossed
  <2>2. \A u, v : Claims(u, v)' => Claims(u, v)
    BY <1>2, ClaimsShrink
  <2>3. CrossInv'
    BY <2>1, <2>2 DEF CrossInv, FriendsInv
  <2>4. QED
    BY <1>2, <2>3, OneEachKept DEF FriendsInv
<1>3. ASSUME NEW h \in Handlers, Arrive(h)
      PROVE  FriendsInv'
  <2>1. friend' = friend
    BY <1>3, ArriveShape DEF Begun
  <2>2. OneEach'
    BY <2>1 DEF OneEach, FriendsInv
  <2>3. SUFFICES ASSUME NEW u \in Users, NEW v \in Users, u # v, {u, v} \notin crossed',
                        Claims(u, v)', Claims(v, u)'
                 PROVE  FALSE
    BY <2>2 DEF FriendsInv, CrossInv
  <2>4. {u, v} \notin crossed
    BY <1>3, <2>3, CrossedTyped DEF Send, NoteCrossed
  <2>5. ASSUME NEW x \in {u, v}, NEW y \in {u, v}, x # y, Claims(x, y)', Send(h, x, y),
               \A a, b : OnItsWay(a, b)' => OnItsWay(a, b) \/ (a = x /\ b = y),
               Claims(y, x)'
        PROVE  FALSE
    <3>1. Between(y, x)' = {}
      BY <2>1, <2>5 DEF Send, findExistingFriendship, Between
    <3>2. OnItsWay(y, x)
      BY <2>5, <3>1 DEF Claims
    <3>3. {x, y} \in crossed'
      BY <2>5, <3>2 DEF Send, NoteCrossed
    <3>4. {x, y} = {u, v}
      BY <2>5
    <3>5. QED
      BY <2>3, <3>3, <3>4
  <2>6. ~Claims(u, v) \/ ~Claims(v, u)
    BY <2>3, <2>4 DEF FriendsInv, CrossInv
  <2>7. QED
    BY <1>3, <2>3, <2>5, <2>6, ClaimsBegun
<1>4. QED
  BY <1>1, <1>2, <1>3 DEF Next

-----------------------------------------------------------------------------
\* The queries about a friendship

\* All queries look at the rows between the two users
LEMMA QueriesRows ==
  ASSUME NEW u, NEW v
  PROVE  /\ findFriendshipBetween(u, v) = RowsOf(friend, {u, v})
         /\ {i \in RowIds : friend[i].there /\ {friend[i].from, friend[i].to} = {u, v}}
              = RowsOf(friend, {u, v})
BY DEF findFriendshipBetween, Between, RowsOf

\* Without a row the two users are nothing to each other.
LEMMA ViewsNone ==
  ASSUME NEW u, NEW v, RowsOf(friend, {u, v}) = {}
  PROVE  /\ FriendshipStatuses(u, v) = {[status |-> "null", isRequester |-> FALSE]}
         /\ SearchStatuses(u, v) = {[status |-> "null", isRequester |-> FALSE]}
         /\ ~areFriends(u, v) /\ TimesListed(u, v) = 0
         /\ v \notin getAcceptedFriendIds(u) /\ u \notin getAcceptedFriendIds(v)
         /\ v \notin PendingSent(u) /\ v \notin PendingReceived(u)
<1>1. \A i \in RowIds : friend[i].there => {friend[i].from, friend[i].to} # {u, v}
  BY DEF RowsOf
<1>2. FriendshipStatuses(u, v) = {[status |-> "null", isRequester |-> FALSE]}
  BY QueriesRows DEF FriendshipStatuses
<1>3. SearchStatuses(u, v) = {[status |-> "null", isRequester |-> FALSE]}
  BY QueriesRows DEF SearchStatuses
<1>4. ~areFriends(u, v)
  BY <1>1 DEF areFriends, Accepted, Between
<1>5. {i \in RowIds : /\ friend[i].there /\ friend[i].status = "accepted"
                      /\ {friend[i].from, friend[i].to} = {u, v}} = {}
  BY <1>1
<1>6. TimesListed(u, v) = 0
  BY <1>5, FS_EmptySet DEF TimesListed
<1>7. v \notin getAcceptedFriendIds(u) /\ u \notin getAcceptedFriendIds(v)
  BY <1>1 DEF getAcceptedFriendIds
<1>8. v \notin PendingSent(u) /\ v \notin PendingReceived(u)
  BY <1>1 DEF PendingSent, PendingReceived
<1>9. QED
  BY <1>2, <1>3, <1>4, <1>6, <1>7, <1>8

\* The one row between two users
OnlyRow(i, u, v) == u # v /\ RowsOf(friend, {u, v}) = {i} /\ friend[i] \in FriendRow

\* With a row they are what the row says.
LEMMA ViewsOne ==
  ASSUME NEW u, NEW v, NEW i, OnlyRow(i, u, v)
  PROVE  /\ FriendshipStatuses(u, v)
              = {[status |-> friend[i].status, isRequester |-> friend[i].from = u]}
         /\ SearchStatuses(u, v)
              = {[status |-> friend[i].status, isRequester |-> friend[i].from = u]}
         /\ friend[i].status = "accepted" =>
              /\ areFriends(u, v) /\ TimesListed(u, v) = 1
              /\ v \in getAcceptedFriendIds(u) /\ u \in getAcceptedFriendIds(v)
         /\ friend[i].status # "accepted" =>
              /\ ~areFriends(u, v) /\ TimesListed(u, v) = 0
              /\ v \notin getAcceptedFriendIds(u) /\ u \notin getAcceptedFriendIds(v)
         /\ v \in PendingSent(u) <=> friend[i].status = "pending" /\ friend[i].from = u
         /\ v \in PendingReceived(u) <=> friend[i].status = "pending" /\ friend[i].from # u
<1>1. /\ i \in RowIds /\ friend[i].there /\ {friend[i].from, friend[i].to} = {u, v}
      /\ \A j \in RowIds : friend[j].there /\ {friend[j].from, friend[j].to} = {u, v} => j = i
      /\ u # v /\ RowsOf(friend, {u, v}) = {i} /\ friend[i] \in FriendRow
  BY DEF RowsOf, OnlyRow
<1>2. \/ friend[i].from = u /\ friend[i].to = v
      \/ friend[i].from = v /\ friend[i].to = u
  BY <1>1
<1>3. \A j \in RowIds : friend[j].there /\ ((friend[j].from = u /\ friend[j].to = v)
                                            \/ (friend[j].from = v /\ friend[j].to = u)) => j = i
  BY <1>1
<1>4. FriendshipStatuses(u, v)
        = {[status |-> friend[i].status, isRequester |-> friend[i].from = u]}
  BY <1>1, QueriesRows DEF FriendshipStatuses
<1>5. SearchStatuses(u, v) = {[status |-> friend[i].status, isRequester |-> friend[i].from = u]}
  <2> DEFINE rows == {j \in RowIds : friend[j].there /\ {friend[j].from, friend[j].to} = {u, v}}
  <2>1. rows = {i}
    BY <1>1
  <2>2. SearchStatuses(u, v) =
          IF rows = {} THEN {[status |-> "null", isRequester |-> FALSE]}
          ELSE {[status |-> friend[j].status, isRequester |-> friend[j].from = u] : j \in rows}
    BY DEF SearchStatuses
  <2> HIDE DEF rows
  <2>3. QED
    BY <2>1, <2>2
<1>6. areFriends(u, v) <=> friend[i].status = "accepted"
  BY <1>1, <1>2, <1>3 DEF areFriends, Accepted, Between
<1>7. TimesListed(u, v) = IF friend[i].status = "accepted" THEN 1 ELSE 0
  <2> DEFINE S == {j \in RowIds : /\ friend[j].there /\ friend[j].status = "accepted"
                                  /\ {friend[j].from, friend[j].to} = {u, v}}
  <2>1. S = IF friend[i].status = "accepted" THEN {i} ELSE {}
    BY <1>1
  <2>2. Cardinality({i}) = 1 /\ Cardinality({}) = 0
    BY FS_Singleton, FS_EmptySet
  <2>3. QED
    BY <2>1, <2>2 DEF TimesListed
<1>8. v \in getAcceptedFriendIds(u) <=> friend[i].status = "accepted"
  BY <1>1, <1>2, <1>3 DEF getAcceptedFriendIds
<1>9. u \in getAcceptedFriendIds(v) <=> friend[i].status = "accepted"
  BY <1>1, <1>2, <1>3 DEF getAcceptedFriendIds
<1>10. v \in PendingSent(u) <=> friend[i].status = "pending" /\ friend[i].from = u
  BY <1>1, <1>2, <1>3 DEF PendingSent
<1>11. v \in PendingReceived(u) <=> friend[i].status = "pending" /\ friend[i].from # u
  BY <1>1, <1>2, <1>3 DEF PendingReceived
<1>12. QED
  BY <1>4, <1>5, <1>6, <1>7, <1>8, <1>9, <1>10, <1>11

\* What all users see alike, however many rows there are.
LEMMA ListsAlike ==
  ASSUME NEW u, NEW v
  PROVE  /\ FriendshipStatuses(u, v) = SearchStatuses(u, v)
         /\ v \in getAcceptedFriendIds(u) <=> areFriends(u, v)
         /\ u \in getAcceptedFriendIds(v) <=> areFriends(u, v)
         /\ v \in PendingSent(u) <=> u \in PendingReceived(v)
<1>1. FriendshipStatuses(u, v) = SearchStatuses(u, v)
  <2> DEFINE rows == {j \in RowIds : friend[j].there /\ {friend[j].from, friend[j].to} = {u, v}}
  <2>1. findFriendshipBetween(u, v) = rows
    BY DEF findFriendshipBetween, Between
  <2>2. /\ SearchStatuses(u, v) =
             IF rows = {} THEN {[status |-> "null", isRequester |-> FALSE]}
             ELSE {[status |-> friend[j].status, isRequester |-> friend[j].from = u] : j \in rows}
        /\ FriendshipStatuses(u, v) =
             IF findFriendshipBetween(u, v) = {} THEN {[status |-> "null", isRequester |-> FALSE]}
             ELSE {[status |-> friend[j].status, isRequester |-> friend[j].from = u] :
                     j \in findFriendshipBetween(u, v)}
    BY DEF SearchStatuses, FriendshipStatuses
  <2> HIDE DEF rows
  <2>3. QED
    BY <2>1, <2>2
<1>2. v \in getAcceptedFriendIds(u) <=> areFriends(u, v)
  BY DEF getAcceptedFriendIds, areFriends, Accepted, Between
<1>3. u \in getAcceptedFriendIds(v) <=> areFriends(u, v)
  BY DEF getAcceptedFriendIds, areFriends, Accepted, Between
<1>4. v \in PendingSent(u) <=> u \in PendingReceived(v)
  BY DEF PendingSent, PendingReceived
<1>5. QED
  BY <1>1, <1>2, <1>3, <1>4

LEMMA FewRows ==
  ASSUME NEW S, \A i, j \in S : i = j
  PROVE  S = {} \/ \E i \in S : S = {i}
OBVIOUS

\* No more than a row each way.
LEMMA ListedTwice ==
  ASSUME Staged, OneEach, NEW u, NEW v
  PROVE  TimesListed(u, v) <= 2
<1> DEFINE S == {i \in RowIds : /\ friend[i].there /\ friend[i].status = "accepted"
                                /\ {friend[i].from, friend[i].to} = {u, v}}
<1>1. \A i, j \in Between(u, v) : i = j
  BY DEF Between, OneEach
<1>2. \A i, j \in Between(v, u) : i = j
  BY DEF Between, OneEach
<1>3. S \subseteq Between(u, v) \cup Between(v, u)
  BY DEF Between
<1>4. \A T : (\A i, j \in T : i = j) => IsFiniteSet(T) /\ Cardinality(T) \in {0, 1}
  <2>1. SUFFICES ASSUME NEW T, \A i, j \in T : i = j
                 PROVE  IsFiniteSet(T) /\ Cardinality(T) \in {0, 1}
    OBVIOUS
  <2>2. T = {} \/ \E i \in T : T = {i}
    BY <2>1, FewRows
  <2>3. QED
    BY <2>2, FS_EmptySet, FS_Singleton
<1>5. /\ IsFiniteSet(Between(u, v)) /\ Cardinality(Between(u, v)) \in {0, 1}
      /\ IsFiniteSet(Between(v, u)) /\ Cardinality(Between(v, u)) \in {0, 1}
  BY <1>1, <1>2, <1>4
<1>6. LET B == Between(u, v) \cup Between(v, u)
      IN  IsFiniteSet(B) /\ Cardinality(B) <= 2
  <2>1. /\ IsFiniteSet(Between(u, v) \cap Between(v, u))
        /\ Cardinality(Between(u, v) \cap Between(v, u)) \in Nat
    BY <1>5, FS_Intersection, FS_CardinalityType
  <2>2. /\ IsFiniteSet(Between(u, v) \cup Between(v, u))
        /\ Cardinality(Between(u, v) \cup Between(v, u))
             = Cardinality(Between(u, v)) + Cardinality(Between(v, u))
               - Cardinality(Between(u, v) \cap Between(v, u))
    BY <1>5, FS_Union
  <2>3. QED
    BY <1>5, <2>1, <2>2
<1>7. Cardinality(S) <= Cardinality(Between(u, v) \cup Between(v, u))
      /\ IsFiniteSet(S)
  BY <1>3, <1>6, FS_Subset
<1>8. Cardinality(S) \in Nat /\ Cardinality(Between(u, v) \cup Between(v, u)) \in Nat
  BY <1>6, <1>7, FS_CardinalityType
<1>9. QED
  BY <1>6, <1>7, <1>8 DEF TimesListed

LEMMA RowsOneOrNone ==
  ASSUME Staged, FriendsInv, NEW u \in Users, NEW v \in Users, {u, v} \notin crossed
  PROVE  \/ RowsOf(friend, {u, v}) = {}
         \/ \E i \in RowIds : OnlyRow(i, u, v)
<1>1. \A i \in RowsOf(friend, {u, v}) : u # v /\ i \in RowIds /\ friend[i] \in FriendRow
  <2>1. SUFFICES ASSUME NEW i \in RowsOf(friend, {u, v})
                 PROVE  u # v /\ i \in RowIds /\ friend[i] \in FriendRow
    OBVIOUS
  <2>2. i \in RowIds /\ friend[i].there /\ {friend[i].from, friend[i].to} = {u, v}
    BY DEF RowsOf
  <2>3. friend[i].from # friend[i].to
    BY <2>2 DEF Staged, RowsSound, NoRow
  <2>4. QED
    <3>1. u # v
      BY <2>2, <2>3
    <3>2. QED
      BY <2>2, <3>1 DEF Staged, SocialTypeOK
<1>2. ASSUME NEW i \in RowsOf(friend, {u, v}), NEW j \in RowsOf(friend, {u, v})
      PROVE  i = j
  <2>1. (i \in Between(u, v) \/ i \in Between(v, u)) /\ (j \in Between(u, v) \/ j \in Between(v, u))
    BY DEF RowsOf, Between
  <2>2. Between(u, v) = {} \/ Between(v, u) = {}
    BY <1>1 DEF FriendsInv, CrossInv, Claims
  <2>3. QED
    BY <2>1, <2>2 DEF FriendsInv, OneEach, Between
<1>3. RowsOf(friend, {u, v}) = {} \/ \E i \in RowsOf(friend, {u, v}) : RowsOf(friend, {u, v}) = {i}
  BY <1>2, FewRows
<1>4. QED
  BY <1>1, <1>3 DEF OnlyRow

LEMMA ViewsOfPair ==
  ASSUME Staged, FriendsInv, NEW u \in Users, NEW v \in Users, {u, v} \notin crossed
  PROVE  /\ Cardinality(FriendshipStatuses(u, v)) = 1
         /\ TimesListed(u, v) = IF areFriends(u, v) THEN 1 ELSE 0
         /\ \A s \in FriendshipStatuses(u, v) :
              /\ areFriends(u, v) <=> s.status = "accepted"
              /\ v \in PendingSent(u) <=> s.status = "pending" /\ s.isRequester
              /\ v \in PendingReceived(u) <=> s.status = "pending" /\ ~s.isRequester
<1>1. CASE RowsOf(friend, {u, v}) = {}
  <2> DEFINE n == [status |-> "null", isRequester |-> FALSE]
  <2>1. Cardinality({n}) = 1
    BY FS_Singleton
  <2>2. n.status = "null"
    OBVIOUS
  <2> HIDE DEF n
  <2>3. /\ FriendshipStatuses(u, v) = {n}
        /\ ~areFriends(u, v) /\ TimesListed(u, v) = 0
        /\ v \notin PendingSent(u) /\ v \notin PendingReceived(u)
    BY <1>1, ViewsNone DEF n
  <2>4. QED
    BY <2>1, <2>2, <2>3
<1>2. ASSUME NEW i \in RowIds, OnlyRow(i, u, v)
      PROVE  /\ Cardinality(FriendshipStatuses(u, v)) = 1
             /\ TimesListed(u, v) = IF areFriends(u, v) THEN 1 ELSE 0
             /\ \A s \in FriendshipStatuses(u, v) :
                  /\ areFriends(u, v) <=> s.status = "accepted"
                  /\ v \in PendingSent(u) <=> s.status = "pending" /\ s.isRequester
                  /\ v \in PendingReceived(u) <=> s.status = "pending" /\ ~s.isRequester
  <2> DEFINE n == [status |-> friend[i].status, isRequester |-> friend[i].from = u]
  <2>1. Cardinality({n}) = 1
    BY FS_Singleton
  <2>2. n.status = friend[i].status /\ (n.isRequester <=> friend[i].from = u)
    OBVIOUS
  <2>3. /\ FriendshipStatuses(u, v) = {n}
        /\ v \in PendingSent(u) <=> friend[i].status = "pending" /\ friend[i].from = u
        /\ v \in PendingReceived(u) <=> friend[i].status = "pending" /\ friend[i].from # u
    BY <1>2, ViewsOne
  <2>4. friend[i].status = "accepted" => areFriends(u, v) /\ TimesListed(u, v) = 1
    BY <1>2, ViewsOne
  <2>5. friend[i].status # "accepted" => ~areFriends(u, v) /\ TimesListed(u, v) = 0
    BY <1>2, ViewsOne
  <2> HIDE DEF n
  <2>6. QED
    BY <2>1, <2>2, <2>3, <2>4, <2>5
<1>3. QED
  BY <1>1, <1>2, RowsOneOrNone

\* Two users see one friendship through every query, and through the lists even
\* when both asked each other at once: the check for a row and its insert are
\* separate steps, and so are the reading of a row and its save or removal.
THEOREM FriendshipSeenAlike == Spec => []ViewsAgree
<1>1. ASSUME Staged, FriendsInv
      PROVE  ViewsAgree
  <2>1. SUFFICES ASSUME NEW c \in Contacts
                 PROVE  LET u == c[1]
                            v == c[2]
                            status == FriendshipStatuses(u, v)
                        IN  /\ status = SearchStatuses(u, v)
                            /\ v \in getAcceptedFriendIds(u) <=> areFriends(u, v)
                            /\ u \in getAcceptedFriendIds(v) <=> areFriends(u, v)
                            /\ v \in PendingSent(u) <=> u \in PendingReceived(v)
                            /\ TimesListed(u, v) <= 2
                            /\ {u, v} \notin crossed =>
                                 /\ Cardinality(status) = 1
                                 /\ TimesListed(u, v) = IF areFriends(u, v) THEN 1 ELSE 0
                                 /\ \A s \in status :
                                      /\ areFriends(u, v) <=> s.status = "accepted"
                                      /\ v \in PendingSent(u)
                                           <=> s.status = "pending" /\ s.isRequester
                                      /\ v \in PendingReceived(u)
                                           <=> s.status = "pending" /\ ~s.isRequester
    BY DEF ViewsAgree
  <2>2. c[1] \in Users /\ c[2] \in Users
    BY ContactUsers
  <2>3. TimesListed(c[1], c[2]) <= 2
    BY <1>1, ListedTwice DEF FriendsInv
  <2>4. QED
    BY <1>1, <2>2, <2>3, ListsAlike, ViewsOfPair
<1>2. QED
  BY <1>1, StagedInit, StagedStep, FriendsInit, FriendsStep, PTL DEF Spec

-----------------------------------------------------------------------------
\* The rows of "friends" implement FriendshipRules

\* Rows are of users of whom one was going to ask the other
ContactsInv ==
  /\ \A i \in RowIds : friend[i].from # Nobody => <<friend[i].from, friend[i].to>> \in BothWays
  /\ \A h \in Handlers : req[h].at = "insert" => <<req[h].user, req[h].peer>> \in BothWays

LEMMA ContactsInit == Init => ContactsInv
BY IdleStaged DEF Init, ContactsInv, NoRow

\* The rows that a step uses for the first time are those of the request.
LEMMA RowsUsed ==
  ASSUME Staged, NEW h \in Handlers, Continue(h), NEW i \in RowIds, friend'[i].from # Nobody
  PROVE  \/ friend[i].from # Nobody
         \/ /\ req[h].at = "insert"
            /\ friend'[i].from = req[h].user /\ friend'[i].to = req[h].peer
<1>1. friend \in [RowIds -> FriendRow]
  BY DEF Staged, SocialTypeOK
<1>2. CASE friend' = friend
  BY <1>2
<1>3. CASE Insert(h) /\ friend' # friend
  <2>1. PICK j \in FreeRows :
          friend' = [friend EXCEPT ![j] = [there |-> TRUE, from |-> req[h].user,
                                           to |-> req[h].peer, status |-> "pending"]]
    BY <1>3 DEF Insert
  <2>2. j \in RowIds
    BY DEF FreeRows
  <2>3. QED
    BY <1>1, <1>3, <2>1, <2>2 DEF Insert
<1>4. CASE SaveRow(h) \/ RemoveRow(h)
  <2>1. req[h].id \in RowIds /\ friend[req[h].id].from # Nobody
    <3>1. /\ req[h].at \in {"saveRow", "removeRow"} /\ ReqStaged(req[h]) /\ ReqRow(req[h])
      BY <1>4, ReqTyped DEF SaveRow, RemoveRow
    <3>2. /\ req[h].id \in RowIds /\ req[h].user \in Users /\ req[h].peer \in Users
          /\ friend[req[h].id].from \in {req[h].user, req[h].peer}
      BY <3>1 DEF ReqStaged, ReqRow
    <3>3. QED
      BY <3>2, SocialUsers
  <2>2. i # req[h].id => friend'[i] = friend[i]
    BY <1>1, <1>4, <2>1 DEF SaveRow, RemoveRow
  <2>3. QED
    BY <2>1, <2>2
<1>5. QED
  BY <1>2, <1>3, <1>4 DEF Continue, ReadPreferences, MakeProfile, Post, SaveNote, MakeOwn,
     ApplySettings, SaveProfile

LEMMA ContactsStep == Staged /\ ContactsInv /\ [Next]_vars => ContactsInv'
<1> SUFFICES ASSUME Staged, ContactsInv, [Next]_vars
             PROVE  ContactsInv'
  OBVIOUS
<1>1. CASE UNCHANGED vars
  BY <1>1 DEF vars, ContactsInv
<1>2. ASSUME NEW h \in Handlers, Arrive(h)
      PROVE  ContactsInv'
  <2>1. PICK r \in Request : Begin(h, r) /\ friend' = friend
    BY <1>2, ArriveShape DEF Begun
  <2>2. Others(h) /\ req'[h] = r
    BY <2>1, ReqTyped, FrameReq DEF Begin
  <2>3. ASSUME r.at = "insert"
        PROVE  <<r.user, r.peer>> \in BothWays
    <3>1. PICK c \in Contacts : Send(h, c[1], c[2])
      BY <1>2, <2>2, <2>3, BegunStage, ContactUsers
    <3>2. req'[h].user = c[1] /\ req'[h].peer = c[2]
      BY <3>1, ReqTyped DEF Send, Begin, Idle
    <3>3. c = <<c[1], c[2]>>
      BY SocialUsers
    <3>4. QED
      BY <2>2, <3>2, <3>3 DEF BothWays
  <2>4. QED
    BY <2>1, <2>2, <2>3 DEF ContactsInv, Others
<1>3. ASSUME NEW h \in Handlers, Continue(h)
      PROVE  ContactsInv'
  <2>1. Kept(h)
    BY <1>3, ContinueShape
  <2>2. req'[h].at # "insert" /\ Others(h) /\ RowsKept
    BY <2>1 DEF Kept, Moved, Follows, RowsStep
  <2>3. ASSUME NEW i \in RowIds, friend'[i].from # Nobody
        PROVE  <<friend'[i].from, friend'[i].to>> \in BothWays
    <3>1. CASE friend[i].from # Nobody
      BY <2>2, <3>1 DEF RowsKept, ContactsInv
    <3>2. CASE friend[i].from = Nobody
      BY <1>3, <2>3, <3>2, RowsUsed DEF ContactsInv
    <3>3. QED
      BY <3>1, <3>2
  <2>4. QED
    BY <2>2, <2>3 DEF ContactsInv, Others
<1>4. QED
  BY <1>1, <1>2, <1>3 DEF Next

\* LinkOf, for any rows
LinkIn(f, q) == IF \E i \in RowsTo(f, q) : f[i].status = "accepted" THEN "friends"
                ELSE IF RowsTo(f, q) # {} THEN "asked" ELSE "none"

LEMMA LinkInOf == \A q : LinkOf(q) = LinkIn(friend, q) /\ LinkOf(q)' = LinkIn(friend', q)
BY DEF LinkOf, LinkIn, RowsTo, Accepted, Between

IsRowOf(i, f, q) == RowsTo(f, q) = {i}

LEMMA LinkOne ==
  ASSUME NEW f, NEW q, NEW i, IsRowOf(i, f, q)
  PROVE  LinkIn(f, q) = IF f[i].status = "accepted" THEN "friends" ELSE "asked"
BY DEF LinkIn, IsRowOf

LEMMA LinkNone ==
  ASSUME NEW f, NEW q
  PROVE  LinkIn(f, q) = "none" <=> RowsTo(f, q) = {}
BY DEF LinkIn

LEMMA LinkSame ==
  ASSUME NEW f, NEW g, NEW q, RowsTo(f, q) = RowsTo(g, q), \A i \in RowsTo(f, q) : f[i] = g[i]
  PROVE  LinkIn(f, q) = LinkIn(g, q)
BY DEF LinkIn

\* The links of other pairs stay when one row is written.
LEMMA LinkOthers ==
  ASSUME Staged, NEW i, NEW row, Written(i, row), NEW q, q # <<row.from, row.to>>,
         q = <<q[1], q[2]>>,
         friend[i].there => friend[i].from = row.from /\ friend[i].to = row.to
  PROVE  LinkIn(friend', q) = LinkIn(friend, q)
<1>1. q[1] # row.from \/ q[2] # row.to
  OBVIOUS
<1>2. RowsTo(friend, q) = RowsTo(friend', q)
  BY <1>1 DEF RowsTo, Written
<1>3. \A j \in RowsTo(friend, q) : friend[j] = friend'[j]
  BY <1>1 DEF RowsTo, Written
<1>4. QED
  BY <1>2, <1>3, LinkSame

LEMMA OneRowOf ==
  ASSUME OneEach, NEW i \in RowIds, friend[i].there
  PROVE  IsRowOf(i, friend, <<friend[i].from, friend[i].to>>)
BY DEF OneEach, IsRowOf, RowsTo

LinkMap  == [q \in BothWays |-> LinkOf(q)]
ClaimMap == [g \in Handlers |-> ClaimOf(req[g])]

\* What the others claim stays: rows keep their users.
LEMMA ClaimsOthers ==
  ASSUME Staged, NEW h \in Handlers, Others(h), RowsKept
  PROVE  ClaimMap' = [ClaimMap EXCEPT ![h] = ClaimOf(req[h])']
<1>1. ASSUME NEW g \in Handlers, g # h
      PROVE  ClaimOf(req[g])' = ClaimOf(req[g])
  <2>1. req'[g] = req[g]
    BY <1>1 DEF Others
  <2>2. CASE req[g].at = "removeRow"
    <3>1. req[g].id \in RowIds /\ req[g].user \in Users /\ req[g].peer \in Users
          /\ {friend[req[g].id].from, friend[req[g].id].to} = {req[g].user, req[g].peer}
      BY <2>2, ReqTyped DEF ReqStaged, ReqRow
    <3>2. friend[req[g].id].from # Nobody
      BY <3>1, SocialUsers
    <3>3. friend'[req[g].id].from = friend[req[g].id].from
          /\ friend'[req[g].id].to = friend[req[g].id].to
      BY <3>1, <3>2 DEF RowsKept
    <3>4. QED
      BY <2>1, <2>2, <3>3 DEF ClaimOf
  <2>3. CASE req[g].at # "removeRow"
    BY <2>1, <2>3 DEF ClaimOf
  <2>4. QED
    BY <2>2, <2>3
<1>2. QED
  BY <1>1 DEF ClaimMap

\* A step of one handler maps to a step of the rules.
LEMMA RulesClaim ==
  ASSUME NEW h \in Handlers, NEW goal \in {"ask", "agree", "end"}, NEW u, NEW q \in BothWays,
         ClaimMap[h] = Rules!Free, LinkMap' = LinkMap,
         ClaimMap' = [ClaimMap EXCEPT ![h] = [to |-> goal, by |-> u, of |-> q]],
         \/ /\ goal = "ask" /\ u = q[1] /\ <<q[2], q[1]>> \in BothWays
            /\ LinkOf(q) = "none" /\ LinkOf(<<q[2], q[1]>>) = "none"
         \/ goal = "agree" /\ u = q[2] /\ LinkOf(q) = "asked"
         \/ goal = "end" /\ u \in {q[1], q[2]} /\ LinkOf(q) # "none"
  PROVE  Rules!Next
<1> DEFINE claim == [to |-> goal, by |-> u, of |-> q]
           link == LinkMap
           claims == ClaimMap
<1>1. LinkMap[q] = LinkOf(q)
      /\ (<<q[2], q[1]>> \in BothWays => LinkMap[<<q[2], q[1]>>] = LinkOf(<<q[2], q[1]>>))
  BY DEF LinkMap
<1>2. ClaimMap'[h] = claim /\ claim # Rules!Free
  <2>1. claim.to # Rules!Free.to
    BY DEF Rules!Free
  <2>2. h \in DOMAIN ClaimMap
    BY DEF ClaimMap
  <2>3. QED
    BY <2>1, <2>2
<1>3. Rules!Find(h, goal, u, q)
  BY Zenon DEF Rules!Find, LinkMap, ClaimMap
<1>4. Rules!Look(h, q) \/ Rules!Hear(h, q) \/ Rules!Regret(h, q)
  <2>1. CASE goal = "ask"
    <3>1. Rules!Find(h, "ask", q[1], q)
      BY <1>3, <2>1
    <3>2. LinkMap[q] = "none" /\ LinkMap[<<q[2], q[1]>>] = "none"
      BY <1>1, <2>1
    <3>3. Rules!Look(h, q)
      BY <3>1, <3>2, Zenon DEF Rules!Look, LinkMap
    <3>4. QED
      BY <3>3
  <2>2. CASE goal = "agree"
    <3>1. Rules!Find(h, "agree", q[2], q)
      BY <1>3, <2>2
    <3>2. LinkMap[q] = "asked"
      BY <1>1, <2>2
    <3>3. Rules!Hear(h, q)
      BY <3>1, <3>2, Zenon DEF Rules!Hear, LinkMap
    <3>4. QED
      BY <3>3
  <2>3. CASE goal = "end"
    <3>1. Rules!Find(h, "end", u, q) /\ u \in {q[1], q[2]}
      BY <1>3, <2>3
    <3>2. LinkMap[q] # "none"
      BY <1>1, <2>3
    <3>3. Rules!Regret(h, q)
      BY <3>1, <3>2, Zenon DEF Rules!Regret, LinkMap
    <3>4. QED
      BY <3>3
  <2>4. QED
    BY <2>1, <2>2, <2>3
<1>5. ClaimMap'[h] # ClaimMap[h]
  BY <1>2
<1>6. QED
  BY <1>4, <1>5, Zenon DEF Rules!Next, ClaimMap

LEMMA RulesAct ==
  ASSUME NEW h \in Handlers, NEW goal \in {"ask", "agree", "end"}, NEW u, NEW q \in BothWays,
         ClaimMap[h] = [to |-> goal, by |-> u, of |-> q],
         ClaimMap' = [ClaimMap EXCEPT ![h] = Rules!Free],
         \/ LinkMap' = LinkMap
         \/ goal = "ask" /\ LinkOf(q) = "none" /\ LinkMap' = [LinkMap EXCEPT ![q] = "asked"]
         \/ goal = "agree" /\ LinkMap' = [LinkMap EXCEPT ![q] = "friends"]
         \/ goal = "end" /\ LinkMap' = [LinkMap EXCEPT ![q] = "none"]
  PROVE  Rules!Next
<1>1. LinkMap[q] = LinkOf(q)
  BY DEF LinkMap
<1>2. ClaimMap[h].to = goal /\ ClaimMap[h].of = q /\ ClaimMap[h] # Rules!Free
  <2>1. ClaimMap[h].to # Rules!Free.to
    BY DEF Rules!Free
  <2>2. QED
    BY <2>1
<1>3. ClaimMap'[h] # ClaimMap[h]
  <2>1. h \in DOMAIN ClaimMap
    BY DEF ClaimMap
  <2>2. QED
    BY <1>2, <2>1
<1>4. CASE LinkMap' = LinkMap
  <2>1. Rules!Drop(h)
    BY <1>2, <1>4, Zenon DEF Rules!Drop, LinkMap, ClaimMap
  <2>2. QED
    BY <1>3, <2>1, Zenon DEF Rules!Next, ClaimMap
<1>5. ASSUME NEW new, LinkMap' = [LinkMap EXCEPT ![q] = new]
      PROVE  Rules!Act(h, goal, q, new)
  BY <1>2, <1>5, Zenon DEF Rules!Act, LinkMap, ClaimMap
<1>6. CASE goal = "ask" /\ LinkOf(q) = "none" /\ LinkMap' = [LinkMap EXCEPT ![q] = "asked"]
  <2>1. Rules!Act(h, "ask", q, "asked") /\ LinkMap[q] = "none"
    BY <1>1, <1>5, <1>6
  <2>2. Rules!Ask(h, q)
    BY <2>1, Zenon DEF Rules!Ask, LinkMap
  <2>3. QED
    BY <1>3, <2>2, Zenon DEF Rules!Next, ClaimMap
<1>7. CASE goal = "agree" /\ LinkMap' = [LinkMap EXCEPT ![q] = "friends"]
  <2>1. Rules!Act(h, "agree", q, "friends")
    BY <1>5, <1>7
  <2>2. Rules!Agree(h, q)
    BY <2>1, Zenon DEF Rules!Agree
  <2>3. QED
    BY <1>3, <2>2, Zenon DEF Rules!Next, ClaimMap
<1>8. CASE goal = "end" /\ LinkMap' = [LinkMap EXCEPT ![q] = "none"]
  <2>1. Rules!Act(h, "end", q, "none")
    BY <1>5, <1>8
  <2>2. Rules!End(h, q)
    BY <2>1, Zenon DEF Rules!End
  <2>3. QED
    BY <1>3, <2>2, Zenon DEF Rules!Next, ClaimMap
<1>9. QED
  BY <1>4, <1>6, <1>7, <1>8

LEMMA ClaimOfAt ==
  \A h \in Handlers :
    /\ req[h].at = "insert" =>
         ClaimOf(req[h]) = [to |-> "ask", by |-> req[h].user, of |-> <<req[h].user, req[h].peer>>]
    /\ req[h].at = "saveRow" =>
         ClaimOf(req[h]) = [to |-> "agree", by |-> req[h].user,
                            of |-> <<req[h].row.from, req[h].row.to>>]
    /\ req[h].at = "removeRow" =>
         ClaimOf(req[h]) = [to |-> "end", by |-> req[h].user,
                            of |-> <<friend[req[h].id].from, friend[req[h].id].to>>]
    /\ req[h].at \notin {"insert", "saveRow", "removeRow"} => ClaimOf(req[h]) = Rules!Free
BY DEF ClaimOf, Rules!Free

LEMMA ClaimOfNext ==
  ASSUME NEW h \in Handlers
  PROVE
    /\ req'[h].at = "insert" =>
         ClaimOf(req[h])' = [to |-> "ask", by |-> req'[h].user,
                             of |-> <<req'[h].user, req'[h].peer>>]
    /\ req'[h].at = "saveRow" =>
         ClaimOf(req[h])' = [to |-> "agree", by |-> req'[h].user,
                             of |-> <<req'[h].row.from, req'[h].row.to>>]
    /\ req'[h].at = "removeRow" =>
         ClaimOf(req[h])' = [to |-> "end", by |-> req'[h].user,
                             of |-> <<friend'[req'[h].id].from, friend'[req'[h].id].to>>]
    /\ req'[h].at \notin {"insert", "saveRow", "removeRow"} => ClaimOf(req[h])' = Rules!Free
BY DEF ClaimOf, Rules!Free

LEMMA SameLinks == friend' = friend => LinkMap' = LinkMap
BY LinkInOf DEF LinkMap

LEMMA BothWaysUsers ==
  \A q \in BothWays : q = <<q[1], q[2]>> /\ q[1] \in Users /\ q[2] \in Users
                      /\ <<q[2], q[1]>> \in BothWays
BY SocialUsers DEF BothWays

\* Who begins finds how things stand.
LEMMA RulesArrive ==
  ASSUME Staged, FriendsInv, ContactsInv, NEW h \in Handlers, Arrive(h)
  PROVE  Rules!Next \/ (LinkMap' = LinkMap /\ ClaimMap' = ClaimMap)
<1>1. PICK r \in Request : ReqStaged(r) /\ Begin(h, r) /\ friend' = friend
  BY ArriveShape DEF Begun
<1>2. Others(h) /\ req'[h] = r /\ req[h].at = "idle" /\ RowsKept
  BY <1>1, ReqTyped, FrameReq DEF Begin, RowsKept
<1>3. /\ ClaimMap[h] = Rules!Free /\ LinkMap' = LinkMap
      /\ ClaimMap' = [ClaimMap EXCEPT ![h] = ClaimOf(req[h])']
  BY <1>1, <1>2, ClaimOfAt, ClaimsOthers, SameLinks DEF ClaimMap
<1>4. CASE r.at = "insert"
  <2>1. PICK c \in Contacts : Send(h, c[1], c[2])
    BY <1>2, <1>4, BegunStage, ContactUsers
  <2>2. r.user = c[1] /\ r.peer = c[2] /\ c = <<c[1], c[2]>>
        /\ c \in BothWays /\ <<c[2], c[1]>> \in BothWays
    <3>1. r.user = c[1] /\ r.peer = c[2]
      BY <1>2, <2>1, ReqTyped DEF Send, Begin, Idle
    <3>2. c \in BothWays
      BY DEF BothWays
    <3>3. QED
      BY <3>1, <3>2, BothWaysUsers
  <2>3. ClaimOf(req[h])' = [to |-> "ask", by |-> c[1], of |-> c]
    BY <1>2, <1>4, <2>2, ClaimOfNext
  <2>4. LinkOf(c) = "none" /\ LinkOf(<<c[2], c[1]>>) = "none"
    BY <2>1 DEF Send, findExistingFriendship, LinkOf, Accepted
  <2>5. QED
    BY <1>3, <2>2, <2>3, <2>4, RulesClaim
<1>5. CASE r.at = "saveRow"
  <2>1. PICK u \in Users, v \in Users : Accept(h, u, v)
    BY <1>2, <1>5, BegunStage
  <2>2. PICK i \in Pending(v, u) :
          Begin(h, [Idle EXCEPT !.at = "saveRow", !.kind = "accept", !.user = u, !.peer = v,
                                !.id = i, !.row = [friend[i] EXCEPT !.status = "accepted"]])
    BY <2>1 DEF Accept
  <2>3. /\ i \in RowIds /\ friend[i].there /\ friend[i].from = v /\ friend[i].to = u
        /\ friend[i].status = "pending" /\ friend[i] \in FriendRow
    BY DEF Pending, Between, Staged, SocialTypeOK
  <2>4. r.user = u /\ r.row = [friend[i] EXCEPT !.status = "accepted"]
    BY <1>2, <2>2, ReqTyped DEF Begin, Idle
  <2>5. r.row.from = v /\ r.row.to = u
    BY <2>3, <2>4 DEF FriendRow
  <2>6. ClaimOf(req[h])' = [to |-> "agree", by |-> u, of |-> <<v, u>>]
    BY <1>2, <1>5, <2>4, <2>5, ClaimOfNext
  <2>7. <<v, u>> \in BothWays
    BY <2>3, SocialUsers DEF ContactsInv
  <2>8. LinkOf(<<v, u>>) = "asked"
    <3>1. IsRowOf(i, friend, <<v, u>>)
      BY <2>3, OneRowOf DEF FriendsInv
    <3>2. QED
      BY <2>3, <3>1, LinkOne, LinkInOf
  <2> DEFINE q == <<v, u>>
  <2>9. q[2] = u
    OBVIOUS
  <2> HIDE DEF q
  <2>10. QED
    BY <1>3, <2>6, <2>7, <2>8, <2>9, RulesClaim DEF q
<1>6. CASE r.at = "removeRow"
  <2> DEFINE i == r.id
             q == <<friend[i].from, friend[i].to>>
  <2>1. PICK u \in Users, v \in Users, kind \in {"decline", "cancel", "unfriend"} :
          FindToRemove(h, kind, u, v)
    BY <1>2, <1>6, BegunStage
  <2>2. PICK j \in Between(u, v) \cup Between(v, u) :
          Begin(h, [Idle EXCEPT !.at = "removeRow", !.kind = kind, !.user = u, !.peer = v, !.id = j])
    BY <2>1 DEF FindToRemove, Pending, Accepted
  <2>3. r.user = u /\ i = j
    BY <1>2, <2>2, ReqTyped DEF Begin, Idle
  <2>4. /\ i \in RowIds /\ friend[i].there /\ u \in {friend[i].from, friend[i].to}
        /\ friend[i].from \in Users
    BY <2>2, <2>3 DEF Between
  <2>5. q \in BothWays /\ q[1] = friend[i].from /\ q[2] = friend[i].to
    BY <2>4, SocialUsers DEF ContactsInv
  <2>6. ClaimOf(req[h])' = [to |-> "end", by |-> u, of |-> q]
    BY <1>1, <1>2, <1>6, <2>3, ClaimOfNext
  <2>7. LinkOf(q) # "none"
    <3>1. IsRowOf(i, friend, q)
      BY <2>4, OneRowOf DEF FriendsInv
    <3>2. QED
      BY <3>1, LinkOne, LinkInOf
  <2> HIDE DEF q
  <2>8. QED
    BY <1>3, <2>4, <2>5, <2>6, <2>7, RulesClaim
<1>7. CASE r.at \notin {"insert", "saveRow", "removeRow"}
  <2>1. ClaimOf(req[h])' = Rules!Free
    BY <1>2, <1>7, ClaimOfNext
  <2>2. ClaimMap' = ClaimMap
    BY <1>3, <2>1 DEF ClaimMap
  <2>3. QED
    BY <1>3, <2>2
<1>8. QED
  BY <1>4, <1>5, <1>6, <1>7

\* The link of a pair whose row is written, and the others.
LEMMA LinkWritten ==
  ASSUME Staged, OneEach', NEW i, NEW row, Written(i, row), NEW q \in BothWays,
         q = <<row.from, row.to>>,
         friend[i].there => friend[i].from = row.from /\ friend[i].to = row.to
  PROVE  /\ \A p \in BothWays : p # q => LinkOf(p)' = LinkOf(p)
         /\ row.there => LinkOf(q)' = IF row.status = "accepted" THEN "friends" ELSE "asked"
<1>1. ASSUME NEW p \in BothWays, p # q
      PROVE  LinkOf(p)' = LinkOf(p)
  <2>1. p = <<p[1], p[2]>> /\ p # <<row.from, row.to>>
    BY <1>1, BothWaysUsers
  <2>2. LinkIn(friend', p) = LinkIn(friend, p)
    BY <2>1, LinkOthers
  <2>3. QED
    BY <2>2, LinkInOf
<1>2. ASSUME row.there
      PROVE  LinkOf(q)' = IF row.status = "accepted" THEN "friends" ELSE "asked"
  <2>1. IsRowOf(i, friend', q)
    <3>1. i \in RowIds /\ friend'[i] = row
      BY DEF Written
    <3>2. RowsTo(friend', q) = {i}
      BY <1>2, <3>1 DEF RowsTo, OneEach
    <3>3. QED
      BY <3>2 DEF IsRowOf
  <2>2. QED
    BY <2>1, LinkOne, LinkInOf DEF Written
<1>3. QED
  BY <1>1, <1>2

LEMMA LinkMapWritten ==
  ASSUME NEW q \in BothWays, NEW new, \A p \in BothWays : p # q => LinkOf(p)' = LinkOf(p),
         LinkOf(q)' = new
  PROVE  LinkMap' = [LinkMap EXCEPT ![q] = new]
BY DEF LinkMap

\* Who goes on acts on what it found, or gives up.
LEMMA RulesContinue ==
  ASSUME Staged, FriendsInv, FriendsInv', ContactsInv, NEW h \in Handlers, Continue(h)
  PROVE  Rules!Next \/ (LinkMap' = LinkMap /\ ClaimMap' = ClaimMap)
<1>1. /\ Others(h) /\ RowsKept /\ req'[h].at \notin {"insert", "saveRow", "removeRow"}
      /\ req[h] \in Request /\ ReqStaged(req[h]) /\ ReqRow(req[h])
  BY ContinueShape, ReqTyped DEF Kept, Moved, Follows, RowsStep
<1>2. ClaimMap' = [ClaimMap EXCEPT ![h] = Rules!Free] /\ ClaimMap[h] = ClaimOf(req[h])
  BY <1>1, ClaimsOthers, ClaimOfNext DEF ClaimMap
<1>3. CASE friend' = friend /\ req[h].at \notin {"insert", "saveRow", "removeRow"}
  <2>1. ClaimMap' = ClaimMap
    BY <1>2, <1>3, ClaimOfAt DEF ClaimMap
  <2>2. QED
    BY <1>3, <2>1, SameLinks
<1>4. CASE req[h].at = "insert"
  <2> DEFINE q == <<req[h].user, req[h].peer>>
             row == [there |-> TRUE, from |-> req[h].user, to |-> req[h].peer,
                     status |-> "pending"]
  <2>1. q \in BothWays /\ ClaimMap[h] = [to |-> "ask", by |-> req[h].user, of |-> q]
    BY <1>2, <1>4, ClaimOfAt DEF ContactsInv
  <2>2. CASE friend' = friend
    BY <1>2, <2>1, <2>2, SameLinks, RulesAct
  <2>3. ASSUME NEW i, Asked(h, i)
        PROVE  Rules!Next
    <3>1. Written(i, row) /\ ~friend[i].there /\ Between(req[h].user, req[h].peer) = {}
          /\ row.there /\ q = <<row.from, row.to>> /\ row.status = "pending"
      BY <2>3 DEF Asked
    <3>2. LinkOf(q) = "none"
      BY <3>1 DEF LinkOf, Accepted
    <3> HIDE DEF q, row
    <3>3. LinkMap' = [LinkMap EXCEPT ![q] = "asked"]
      BY <2>1, <3>1, LinkWritten, LinkMapWritten DEF FriendsInv
    <3>4. QED
      BY <1>2, <2>1, <3>2, <3>3, RulesAct
  <2>4. QED
    BY <1>4, <2>2, <2>3, RowChange DEF SaveRow, RemoveRow
<1>5. CASE req[h].at = "saveRow"
  <2> DEFINE i == req[h].id
             q == <<req[h].row.from, req[h].row.to>>
             row == [there |-> TRUE, from |-> req[h].row.from, to |-> req[h].row.to,
                     status |-> "accepted"]
  <2>1. /\ i \in RowIds /\ friend[i].from = req[h].row.from /\ friend[i].to = req[h].row.to
        /\ friend[i].from \in Users
    BY <1>1, <1>5 DEF ReqStaged, ReqRow
  <2>2. q \in BothWays /\ ClaimMap[h] = [to |-> "agree", by |-> req[h].user, of |-> q]
    BY <1>2, <1>5, <2>1, ClaimOfAt, SocialUsers DEF ContactsInv
  <2>3. CASE friend' = friend
    BY <1>2, <2>2, <2>3, SameLinks, RulesAct
  <2>4. CASE Agreed(h, i)
    <3>1. Written(i, row) /\ row.there /\ q = <<row.from, row.to>> /\ row.status = "accepted"
          /\ (friend[i].there => friend[i].from = row.from /\ friend[i].to = row.to)
      BY <2>1, <2>4 DEF Agreed
    <3> HIDE DEF q, row, i
    <3>2. LinkMap' = [LinkMap EXCEPT ![q] = "friends"]
      BY <2>2, <3>1, LinkWritten, LinkMapWritten DEF FriendsInv
    <3>3. QED
      BY <1>2, <2>2, <3>2, RulesAct
  <2>5. QED
    BY <1>5, <2>3, <2>4, RowChange DEF Insert, RemoveRow
<1>6. CASE req[h].at = "removeRow"
  <2>1. PICK i \in RowIds, q \in BothWays : i = req[h].id /\ q = <<friend[i].from, friend[i].to>>
    <3>1. /\ req[h].id \in RowIds /\ req[h].user \in Users /\ req[h].peer \in Users
          /\ {friend[req[h].id].from, friend[req[h].id].to} = {req[h].user, req[h].peer}
      BY <1>1, <1>6 DEF ReqStaged, ReqRow
    <3>2. friend[req[h].id].from # Nobody
      BY <3>1, SocialUsers
    <3>3. QED
      BY <3>1, <3>2 DEF ContactsInv
  <2>2. ClaimMap[h] = [to |-> "end", by |-> req[h].user, of |-> q] /\ friend[i] \in FriendRow
    BY <1>2, <1>6, <2>1, ClaimOfAt DEF Staged, SocialTypeOK
  <2>3. Ended(h, i)
    BY <1>6, <2>1, RowChange DEF Insert, SaveRow, Continue, RemoveRow, ReadPreferences, MakeProfile, Post,
       SaveNote, MakeOwn, ApplySettings, SaveProfile
  <2>4. PICK row : /\ Written(i, row) /\ ~row.there /\ q = <<row.from, row.to>>
                   /\ row.from = friend[i].from /\ row.to = friend[i].to
    BY <2>1, <2>2, <2>3, EndedRow DEF Ended
  <2>5. \A p \in BothWays : p # q => LinkOf(p)' = LinkOf(p)
    BY <2>4, LinkWritten DEF FriendsInv
  \* Another row of the same pair may have come in its place
  <2>6. CASE friend[i].there
    <3>1. IsRowOf(i, friend, q)
      BY <2>1, <2>6, OneRowOf DEF FriendsInv
    <3>2. RowsTo(friend', q) = {}
      BY <2>4, <3>1 DEF IsRowOf, RowsTo, Written
    <3>3. LinkOf(q)' = "none"
      BY <3>2, LinkNone, LinkInOf
    <3>4. LinkMap' = [LinkMap EXCEPT ![q] = "none"]
      BY <2>2, <2>5, <3>3, LinkMapWritten
    <3>5. QED
      BY <1>2, <2>2, <3>4, RulesAct
  <2>7. CASE ~friend[i].there
    <3>1. RowsTo(friend', q) = RowsTo(friend, q) /\ \A j \in RowsTo(friend, q) : friend[j] = friend'[j]
      BY <2>4, <2>7 DEF RowsTo, Written
    <3>2. LinkOf(q)' = LinkOf(q)
      BY <3>1, LinkSame, LinkInOf
    <3>3. LinkMap' = LinkMap
      BY <2>5, <3>2 DEF LinkMap
    <3>4. QED
      BY <1>2, <2>2, <3>3, RulesAct
  <2>8. QED
    BY <2>6, <2>7
<1>7. QED
  BY <1>3, <1>4, <1>5, <1>6, RowChange DEF Asked, Agreed, Ended, Insert, SaveRow, RemoveRow

LEMMA RulesInit == Init => Rules!Init
<1> SUFFICES ASSUME Init
             PROVE  Rules!Init
  OBVIOUS
<1>1. \A q : RowsTo(friend, q) = {}
  BY DEF Init, RowsTo, NoRow
<1>2. LinkMap = [q \in BothWays |-> "none"]
  BY <1>1, LinkNone, LinkInOf DEF LinkMap
<1>3. ClaimMap = [h \in Handlers |-> Rules!Free]
  BY ClaimOfAt, IdleStaged DEF Init, ClaimMap
<1>4. QED
  BY <1>2, <1>3, Zenon DEF Rules!Init, LinkMap, ClaimMap

\* Requests, answers and ends implement the rules of friendship, whichever of
\* them overlap, though each is a query and a save in separate steps: nobody
\* becomes a friend who was not found asking by the one who agrees, and what was
\* ended comes back only through one request that found it before.
THEOREM FriendshipRefined == Spec => FriendshipSpec
<1>1. ASSUME Staged, FriendsInv, ContactsInv, [Next]_vars
      PROVE  Rules!Next \/ (LinkMap' = LinkMap /\ ClaimMap' = ClaimMap)
  <2>1. CASE UNCHANGED vars
    BY <2>1, SameLinks DEF vars, ClaimMap, ClaimOf
  <2>2. FriendsInv'
    BY <1>1, FriendsStep
  <2>3. QED
    BY <1>1, <2>1, <2>2, RulesArrive, RulesContinue DEF Next
<1>2. Staged /\ FriendsInv /\ ContactsInv /\ [Next]_vars => [Rules!Next]_(Rules!vars)
  <2>1. LinkMap' = LinkMap /\ ClaimMap' = ClaimMap => UNCHANGED Rules!vars
    BY Zenon DEF Rules!vars, LinkMap, ClaimMap
  <2>2. QED
    BY <1>1, <2>1
<1>3. QED
  BY <1>2, StagedInit, StagedStep, FriendsInit, FriendsStep, ContactsInit, ContactsStep, RulesInit,
     PTL DEF Spec, FriendshipSpec, Rules!Spec

-----------------------------------------------------------------------------
\* Privacy

\* A profile is shown to exactly those who may view it: the two places in the
\* code that decide about a profile agree, for every viewer, also the owner.
THEOREM PrivacyDecidedAlike == Spec => []PrivacyRulesAgree
<1>1. PrivacyRulesAgree
  BY DEF PrivacyRulesAgree, PublicProfileShown, canViewProfile, canViewProfileByPrivacy
<1>2. QED
  BY <1>1, PTL

-----------------------------------------------------------------------------
\* The feed

LEMMA Smallest ==
  ASSUME NEW S, S \subseteq Nat, S # {}
  PROVE  \E m \in S : \A k \in S : m <= k
<1> DEFINE R == OpToRel(<, Nat)
<1>1. IsWellFoundedOn(R, Nat)
  BY NatLessThanWellFounded
<1>2. \A k, m \in Nat : <<k, m>> \in R <=> k < m
  BY DEF OpToRel
<1> HIDE DEF R
<1>3. PICK m \in S : \A k \in S : ~(<<k, m>> \in R)
  BY <1>1, WFMin
<1>4. ASSUME NEW k \in S
      PROVE  m <= k
  <2>1. k \in Nat /\ m \in Nat /\ ~(<<k, m>> \in R)
    BY <1>3
  <2>2. ~(k < m)
    BY <1>2, <2>1
  <2>3. QED
    BY <2>1, <2>2
<1>5. QED
  BY <1>4

LEMMA Largest ==
  ASSUME NEW n \in Nat, NEW S, S \subseteq 1..n, S # {}
  PROVE  \E m \in S : \A k \in S : k <= m
<1> DEFINE T == {n - k : k \in S}
<1>1. \A k \in S : k \in Nat /\ n - k \in Nat
  OBVIOUS
<1>2. T \subseteq Nat /\ T # {}
  BY <1>1
<1>3. PICK t \in T : \A k \in T : t <= k
  BY <1>2, Smallest
<1>4. PICK m \in S : t = n - m
  BY <1>3
<1>5. ASSUME NEW k \in S
      PROVE  k <= m
  <2>1. n - m <= n - k
    BY <1>3, <1>4
  <2>2. QED
    BY <1>1, <2>1
<1>6. QED
  BY <1>5

\* LIMIT n returns no more than n rows, and some if there are any.
LEMMA NewestFew ==
  ASSUME NEW len \in Nat, NEW S, S \subseteq 1..len, NEW n \in Nat \ {0}
  PROVE  /\ Newest(n, S) \subseteq S
         /\ Cardinality(Newest(n, S)) <= n
         /\ S # {} => Newest(n, S) # {}
<1> DEFINE N == Newest(n, S)
<1>1. N \subseteq S /\ S \subseteq Nat
  <2>1. \A k \in 1..len : k \in Nat
    OBVIOUS
  <2>2. QED
    BY <2>1 DEF Newest
<1>2. IsFiniteSet(S) /\ IsFiniteSet(N)
  <2>1. IsFiniteSet(1..len)
    BY FS_Interval
  <2>2. QED
    BY <1>1, <2>1, FS_Subset
<1>3. Cardinality(N) <= n
  <2>1. CASE N = {}
    BY <2>1, FS_EmptySet
  <2>2. CASE N # {}
    <3>1. PICK m \in N : \A k \in N : k <= m
      BY <1>1, <2>2, Largest
    <3> DEFINE older == {j \in S : j < m}
    <3>2. Cardinality(older) < n
      BY <3>1 DEF Newest
    <3>3. N \ {m} \subseteq older
      <4>1. ASSUME NEW k \in N, k # m
            PROVE  k \in S /\ k < m
        <5>1. k \in S /\ k \in Nat /\ m \in Nat /\ k <= m
          <6> HIDE DEF N
          <6>1. QED
            BY <1>1, <3>1
        <5>2. QED
          BY <4>1, <5>1
      <4> HIDE DEF N
      <4>2. QED
        BY <4>1
    <3>4. IsFiniteSet(older)
      BY <1>2, FS_Subset
    <3>5. Cardinality(N \ {m}) <= Cardinality(older)
      BY <3>3, <3>4, FS_Subset
    <3>6. Cardinality(N \ {m}) = Cardinality(N) - 1
      BY <1>2, <3>1, FS_RemoveElement
    <3>7. Cardinality(N) \in Nat /\ Cardinality(older) \in Nat
      BY <1>2, <3>4, FS_CardinalityType
    <3> HIDE DEF N, older
    <3>8. QED
      BY <3>2, <3>5, <3>6, <3>7
  <2>3. QED
    BY <2>1, <2>2
<1>4. ASSUME S # {}
      PROVE  N # {}
  <2>1. PICK m \in S : \A k \in S : m <= k
    BY <1>1, <1>4, Smallest
  <2>2. {j \in S : j < m} = {}
    <3>1. ASSUME NEW j \in S
          PROVE  ~(j < m)
      <4>1. j \in Nat /\ m \in Nat /\ m <= j
        BY <1>1, <2>1
      <4>2. QED
        BY <4>1
    <3>2. QED
      BY <3>1
  <2>3. Cardinality({j \in S : j < m}) = 0
    BY <2>2, FS_EmptySet
  <2>4. QED
    BY <2>1, <2>3 DEF Newest
<1>5. QED
  BY <1>1, <1>3, <1>4

\* Who is among the friends is a friend, and another user.
LEMMA FriendsAreFriends ==
  ASSUME Staged, NEW u, NEW v \in getAcceptedFriendIds(u)
  PROVE  u # v /\ areFriends(u, v)
<1>1. PICK i \in RowIds : /\ friend[i].there /\ friend[i].status = "accepted"
                          /\ \/ friend[i].from = u /\ friend[i].to = v
                             \/ friend[i].from = v /\ friend[i].to = u
  BY DEF getAcceptedFriendIds
<1>2. friend[i].from # friend[i].to
  BY <1>1 DEF Staged, RowsSound, NoRow
<1>3. QED
  BY <1>1, <1>2 DEF areFriends, Accepted, Between

\* The newest of a longer list of the newest are the newest.
LEMMA NewestOfNewest ==
  ASSUME NEW len \in Nat, NEW S \in SUBSET (1..len), NEW n \in Nat, NEW m \in Nat, n <= m
  PROVE  Newest(n, Newest(m, S)) = Newest(n, S)
<1> DEFINE N == Newest(m, S)
           older(k) == {j \in S : j < k}
<1>1. S \subseteq Nat /\ N \subseteq S
  BY DEF Newest
<1>2. \A k \in S : IsFiniteSet(older(k)) /\ Cardinality(older(k)) \in Nat
  <2>1. IsFiniteSet(S)
    <3>1. IsFiniteSet(1..len)
      BY FS_Interval
    <3>2. QED
      BY <3>1, FS_Subset
  <2>2. \A k \in S : older(k) \subseteq S
    OBVIOUS
  <2> HIDE DEF older
  <2>3. QED
    BY <2>1, <2>2, FS_Subset, FS_CardinalityType
<1>3. ASSUME NEW k \in S, NEW j \in S, j < k
      PROVE  Cardinality(older(j)) <= Cardinality(older(k))
  <2>1. j \in Nat /\ k \in Nat /\ \A i \in S : i \in Nat
    BY <1>1
  <2>2. older(j) \subseteq older(k)
    <3>1. ASSUME NEW i \in S, i < j
          PROVE  i < k
      <4>1. i \in Nat
        BY <2>1
      <4>2. QED
        BY <1>3, <2>1, <3>1, <4>1
    <3>2. QED
      BY <3>1
  <2> HIDE DEF older
  <2>3. QED
    BY <1>2, <2>2, FS_Subset
<1>4. \A k \in S : k \in N <=> Cardinality(older(k)) < m
  BY DEF Newest
<1>5. ASSUME NEW k \in N
      PROVE  {j \in N : j < k} = older(k)
  <2>1. ASSUME NEW j \in older(k)
        PROVE  j \in N
    <3>1. k \in S /\ j \in S /\ j < k
      BY <1>1
    <3> HIDE DEF older, N
    <3>2. /\ Cardinality(older(j)) <= Cardinality(older(k)) /\ Cardinality(older(k)) < m
          /\ Cardinality(older(j)) \in Nat /\ Cardinality(older(k)) \in Nat
      BY <1>2, <1>3, <1>4, <3>1
    <3>3. QED
      BY <1>4, <3>1, <3>2
  <2>2. QED
    BY <1>1, <2>1
<1>6. ASSUME NEW k \in S, Cardinality(older(k)) < n
      PROVE  k \in N
  <2> HIDE DEF older, N
  <2>1. Cardinality(older(k)) \in Nat
    BY <1>2
  <2>2. QED
    BY <1>4, <1>6, <2>1
<1>7. Newest(n, N) = {k \in N : Cardinality(older(k)) < n}
  <2>1. Newest(n, N) = {k \in N : Cardinality({j \in N : j < k}) < n}
    BY DEF Newest
  <2>2. \A k \in N : Cardinality({j \in N : j < k}) = Cardinality(older(k))
    BY <1>5
  <2> HIDE DEF older, N
  <2>3. QED
    BY <2>1, <2>2
<1>8. Newest(n, S) = {k \in S : Cardinality(older(k)) < n}
  BY DEF Newest
<1> HIDE DEF older, N
<1>9. Newest(n, N) = Newest(n, S)
  BY <1>1, <1>6, <1>7, <1>8
<1>10. QED
  BY <1>9 DEF N

LEMMA FeedRight ==
  ASSUME Staged, NEW u \in Users
  PROVE  LET feed == getFriendsActivity(u, Limit)
         IN  /\ Cardinality(feed) <= Limit
             /\ \A k \in feed :
                  LET v == Activities[k].user
                  IN  areFriends(u, v) /\ Profile(v).activityPrivacy # "private"
             /\ \A v \in Users \ {u} : getAcceptedFriendIds(u) = {v} =>
                  feed = IF canViewActivity(u, v)
                         THEN Newest(Limit, {k \in DOMAIN Activities : Activities[k].user = v})
                         ELSE {}
<1> DEFINE ofFriends == {k \in DOMAIN Activities :
                           Activities[k].user \in getAcceptedFriendIds(u)}
           all == Newest(2 * Limit, ofFriends)
           seen == {k \in all : canViewActivity(u, Activities[k].user)}
           feed == Newest(Limit, seen)
           len == Len(Activities)
<1>1. getFriendsActivity(u, Limit) = feed
  BY DEF getFriendsActivity
<1>2. len \in Nat /\ DOMAIN Activities = 1..len
  BY SocialLog
<1>3. Limit \in Nat \ {0} /\ 2 * Limit \in Nat \ {0} /\ Limit <= 2 * Limit
  BY Numbers
<1>4. ofFriends \subseteq 1..len
  BY <1>2
<1>5. all \subseteq ofFriends
  BY DEF Newest
<1>6. seen \subseteq 1..len
  BY <1>4, <1>5
<1>7. feed \subseteq seen /\ Cardinality(feed) <= Limit
  <2> HIDE DEF seen, len
  <2>1. QED
    BY <1>2, <1>3, <1>6, NewestFew
<1>8. ASSUME NEW k \in feed
      PROVE  LET v == Activities[k].user
             IN  areFriends(u, v) /\ Profile(v).activityPrivacy # "private"
  <2> DEFINE v == Activities[k].user
  <2>1. v \in getAcceptedFriendIds(u) /\ canViewActivity(u, v)
    <3> HIDE DEF feed, all
    <3>1. QED
      BY <1>5, <1>7
  <2>2. u # v /\ areFriends(u, v)
    BY <2>1, FriendsAreFriends
  <2>3. Profile(v).activityPrivacy # "private"
    BY <2>1, <2>2 DEF canViewActivity
  <2>4. QED
    BY <2>2, <2>3
<1>9. ASSUME NEW v \in Users, getAcceptedFriendIds(u) = {v}
      PROVE  feed = IF canViewActivity(u, v)
                    THEN Newest(Limit, {k \in DOMAIN Activities : Activities[k].user = v})
                    ELSE {}
  <2>1. ofFriends = {k \in DOMAIN Activities : Activities[k].user = v}
    BY <1>9
  <2>2. \A k \in all : Activities[k].user = v
    <3> HIDE DEF all
    <3>1. QED
      BY <1>5, <2>1
  <2>3. CASE canViewActivity(u, v)
    <3>1. seen = all
      <4> HIDE DEF all
      <4>1. QED
        BY <2>2, <2>3
    <3>2. Newest(Limit, all) = Newest(Limit, ofFriends)
      <4> HIDE DEF ofFriends, len
      <4>1. QED
        BY <1>2, <1>3, <1>4, NewestOfNewest
    <3> HIDE DEF all, seen, ofFriends
    <3>3. QED
      BY <2>1, <2>3, <3>1, <3>2
  <2>4. CASE ~canViewActivity(u, v)
    <3>1. seen = {}
      <4> HIDE DEF all
      <4>1. QED
        BY <2>2, <2>4
    <3> HIDE DEF seen
    <3>2. feed = {}
      BY <1>7, <3>1
    <3>3. QED
      BY <2>4, <3>2
  <2>5. QED
    BY <2>3, <2>4
<1> HIDE DEF feed
<1>10. QED
  BY <1>1, <1>7, <1>8, <1>9

\* The feed holds what friends let their friends see and nothing else, is never
\* longer than asked for, and is the latest of an only friend exactly if the
\* friend's own page would be shown, although friends, activities and privacy
\* are queried apart and private activities use up places of the longer query.
THEOREM FeedKeepsPrivacy == Spec => []FeedRespectsPrivacy
<1>1. Staged => FeedRespectsPrivacy
  BY FeedRight DEF FeedRespectsPrivacy
<1>2. QED
  BY <1>1, StagedInit, StagedStep, PTL DEF Spec
=============================================================================
