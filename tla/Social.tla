------------------------------- MODULE Social -------------------------------
(***************************************************************************)
(* Friends, profiles and notifications (src/src/friends,                   *)
(* src/src/user-profile, src/src/user-activity, src/src/notifications).    *)
(*                                                                         *)
(* A friendship is a row of "friends" from the user who asked to the one   *)
(* who answers; the unique index is on that ordered pair only.  No handler *)
(* uses a transaction.  save() of a row that is gone inserts it again,     *)
(* remove() of a row that is gone does nothing.  Notifications are sent    *)
(* after the change, and what fails there is swallowed.                    *)
(***************************************************************************)
EXTENDS Integers, FiniteSets, Sequences

CONSTANTS
  Users,        \* user ids
  Authors,      \* the users whose type is author
  Known,        \* the users whose profile is there at the start
  Contacts,     \* <<u, v>>: u is going to send requests to v
  Handlers,     \* request handlers that can run at the same time
  Requests,     \* the kinds of request that are issued, see RequestKinds
  Settings,     \* <<u, s>>: u is going to save settings s
  Activities,   \* the log of activities, newest first: <<[user, type], ...>>
  Limit,        \* the length of the feed that is asked for, at least 1
  MaxRows,      \* bound on the friend requests ever inserted
  MaxNotes      \* bound on the notifications ever inserted

RequestKinds == {"send", "accept", "decline", "cancel", "unfriend", "settings",
                 "read", "readAll", "deleteNote"}
Stages       == {"idle", "insert", "saveRow", "removeRow", "tell", "makeProfile",
                 "post", "load", "makeOwn", "saveProfile", "saveNote"}
FriendStatus == {"pending", "accepted"}
PrivacyLevel == {"public", "friends", "private"}
NoteType     == {"received", "accepted", "declined"}
ActivityType == {"book_applied", "book_published", "review_posted", "book_started"}

RowIds  == 1..MaxRows
NoteIds == 1..MaxNotes
Nobody  == "nobody"

FriendRow == [there : BOOLEAN, from : Users \cup {Nobody}, to : Users \cup {Nobody},
              status : FriendStatus]
NoRow     == [there |-> FALSE, from |-> Nobody, to |-> Nobody, status |-> "pending"]

\* A row of "user_profiles"; it is inserted when it is first asked for.
\* preferences: the types a user wants, all of them if it is empty.
ProfileRow == [there : BOOLEAN, profilePrivacy : PrivacyLevel,
               activityPrivacy : PrivacyLevel, enabled : BOOLEAN,
               preferences : SUBSET NoteType]
NoProfile  == [there |-> FALSE, profilePrivacy |-> "public",
               activityPrivacy |-> "public", enabled |-> TRUE, preferences |-> {}]
NewProfile == [NoProfile EXCEPT !.there = TRUE]

NoteRow == [state : {"none", "unread", "read", "deleted"}, user : Users \cup {Nobody}]
NoNote  == [state |-> "none", user |-> Nobody]

SettingsBody(s) ==
  /\ DOMAIN s \subseteq DOMAIN NoProfile \ {"there"}
  /\ \A c \in DOMAIN s : [NoProfile EXCEPT ![c] = s[c]] \in ProfileRow

ASSUME SocialUsers    == /\ IsFiniteSet(Users) /\ Nobody \notin Users
                         /\ Authors \subseteq Users /\ Known \subseteq Users
                         /\ Contacts \subseteq Users \X Users
ASSUME SocialRequests == /\ Requests \subseteq RequestKinds
                         /\ \A s \in Settings : s[1] \in Users /\ SettingsBody(s[2])
ASSUME SocialLog      == Activities \in Seq([user : Users, type : ActivityType])
ASSUME SocialBounds   == Limit \in Nat \ {0} /\ {MaxRows, MaxNotes} \subseteq Nat

VARIABLES
  friend,   \* the rows of "friends"
  profile,  \* the row of "user_profiles" of each user
  note,     \* the rows of "notifications"
  req,      \* what each handler is doing
  crossed   \* history: two users who asked each other, or asked one whose answer
            \* to an earlier question was still under way

vars == <<friend, profile, note, req, crossed>>

\* todo: the notifications a handler is still going to send, <<user, type>>
Idle    == [at |-> "idle", kind |-> "send", user |-> Nobody, peer |-> Nobody, id |-> 0,
            todo |-> <<>>, row |-> NoRow, ent |-> NoProfile, body |-> [c \in {} |-> 0]]

Begin(h, r) ==
  /\ r.kind \in Requests
  /\ req[h].at = "idle"
  /\ req' = [req EXCEPT ![h] = r]

GoTo(h, stage) == req' = [req EXCEPT ![h].at = stage]
Finish(h)      == req' = [req EXCEPT ![h] = Idle]

\* The rest of the request is to tell somebody
Tell(h, todo) == req' = [req EXCEPT ![h] = [Idle EXCEPT !.at = "tell", !.todo = todo]]

-----------------------------------------------------------------------------
\* FriendsQueryHelper

Between(u, v)  == {i \in RowIds : friend[i].there /\ friend[i].from = u /\ friend[i].to = v}
Pending(u, v)  == {i \in Between(u, v) : friend[i].status = "pending"}
Accepted(u, v) == {i \in Between(u, v) : friend[i].status = "accepted"}

\* Mutant: only requests in the same direction count
findExistingFriendshipOneWay(u, v) == Between(u, v)

findExistingFriendship(u, v) == Between(u, v) \cup Between(v, u)

areFriends(u, v) == Accepted(u, v) \cup Accepted(v, u) # {}

getAcceptedFriendIds(u) ==
  {friend[i].to : i \in {j \in RowIds : /\ friend[j].there /\ friend[j].from = u
                                        /\ friend[j].status = "accepted"}}
  \cup {friend[i].from : i \in {j \in RowIds : /\ friend[j].there /\ friend[j].to = u
                                               /\ friend[j].status = "accepted"}}

findFriendshipBetween(u, v) == Between(u, v) \cup Between(v, u)

\* getFriendshipStatus: whichever row the database finds first
FriendshipStatuses(u, v) ==
  LET rows == findFriendshipBetween(u, v)
  IN  IF rows = {} THEN {[status |-> "null", isRequester |-> FALSE]}
      ELSE {[status |-> friend[i].status, isRequester |-> friend[i].from = u] : i \in rows}

\* searchUsersForFriends: one query for all users found, the last row wins
SearchStatuses(u, v) ==
  LET rows == {i \in RowIds : friend[i].there /\ {friend[i].from, friend[i].to} = {u, v}}
  IN  IF rows = {} THEN {[status |-> "null", isRequester |-> FALSE]}
      ELSE {[status |-> friend[i].status, isRequester |-> friend[i].from = u] : i \in rows}

\* getFriendsList: an item for each row, the other user of the row
TimesListed(u, v) ==
  Cardinality({i \in RowIds : /\ friend[i].there /\ friend[i].status = "accepted"
                              /\ {friend[i].from, friend[i].to} = {u, v}})

\* getPendingFriendRequests
PendingReceived(u) == {friend[i].from : i \in {j \in RowIds : /\ friend[j].there
                         /\ friend[j].to = u /\ friend[j].status = "pending"}}
PendingSent(u)     == {friend[i].to : i \in {j \in RowIds : /\ friend[j].there
                         /\ friend[j].from = u /\ friend[j].status = "pending"}}

-----------------------------------------------------------------------------
\* Asking, answering and ending

FreeRows == {i \in RowIds : friend[i].from = Nobody}

\* A request of v to u that is going to be inserted, for the first time or again
OnItsWay(v, u) ==
  \E g \in Handlers : \/ req[g].at = "insert" /\ req[g].user = v /\ req[g].peer = u
                      \/ req[g].at = "saveRow" /\ req[g].row.from = v /\ req[g].row.to = u

NoteCrossed(u, v) ==
  crossed' = IF OnItsWay(v, u) THEN crossed \cup {{u, v}} ELSE crossed

\* sendFriendRequest: authors do not ask, and there must not be a row yet
Send(h, u, v) ==
  /\ u \notin Authors /\ u # v
  /\ findExistingFriendship(u, v) = {}
  /\ Begin(h, [Idle EXCEPT !.at = "insert", !.kind = "send", !.user = u, !.peer = v])
  /\ NoteCrossed(u, v)
  /\ UNCHANGED <<friend, profile, note>>

Insert(h) ==
  LET u == req[h].user
      v == req[h].peer
  IN  /\ req[h].at = "insert"
      /\ IF Between(u, v) # {}
         THEN Finish(h) /\ UNCHANGED friend
         ELSE /\ \E i \in FreeRows :
                   /\ \A j \in FreeRows : i <= j
                   /\ friend' = [friend EXCEPT ![i] =
                        [there |-> TRUE, from |-> u, to |-> v, status |-> "pending"]]
              /\ Tell(h, <<<<v, "received">>>>)
      /\ UNCHANGED <<profile, note, crossed>>

\* acceptFriendRequest
Accept(h, u, v) ==
  /\ \E i \in Pending(v, u) :
       Begin(h, [Idle EXCEPT !.at = "saveRow", !.kind = "accept", !.user = u, !.peer = v,
                             !.id = i, !.row = [friend[i] EXCEPT !.status = "accepted"]])
  /\ UNCHANGED <<friend, profile, note, crossed>>

\* A row that is gone is inserted again, unless the unique index refuses it
SaveRow(h) ==
  LET row == req[h].row
      i   == req[h].id
  IN  /\ req[h].at = "saveRow"
      /\ IF ~friend[i].there /\ Between(row.from, row.to) # {}
         THEN Finish(h) /\ UNCHANGED friend
         ELSE /\ friend' = [friend EXCEPT ![i] = row]
              /\ Tell(h, <<<<row.from, "accepted">>, <<row.to, "accepted">>>>)
      /\ UNCHANGED <<profile, note, crossed>>

\* declineFriendRequest, cancelFriendRequest, unfriend: the row that was found
\* is removed
FindToRemove(h, kind, u, v) ==
  /\ \E i \in CASE kind = "decline" -> Pending(v, u)
                [] kind = "cancel"  -> Pending(u, v)
                [] OTHER            -> Accepted(u, v) \cup Accepted(v, u) :
       Begin(h, [Idle EXCEPT !.at = "removeRow", !.kind = kind, !.user = u, !.peer = v,
                             !.id = i])
  /\ UNCHANGED <<friend, profile, note, crossed>>

\* Mutant: a status the enumeration does not have, instead of removing the row
RemoveRowDeclined(h) ==
  /\ req[h].at = "removeRow"
  /\ friend' = [friend EXCEPT ![req[h].id].status = "declined"]
  /\ Finish(h)
  /\ UNCHANGED <<profile, note, crossed>>

\* Mutant: ending a friendship leaves the request it began with
RemoveRowPending(h) ==
  /\ req[h].at = "removeRow"
  /\ friend' = [friend EXCEPT ![req[h].id] = [@ EXCEPT !.status = "pending",
                                               !.there = req[h].kind = "unfriend"]]
  /\ Finish(h)
  /\ UNCHANGED <<profile, note, crossed>>

RemoveRow(h) ==
  /\ req[h].at = "removeRow"
  /\ friend' = [friend EXCEPT ![req[h].id].there = FALSE]
  /\ IF req[h].kind = "decline"
     THEN Tell(h, <<<<req[h].peer, "declined">>, <<req[h].user, "declined">>>>)
     ELSE Finish(h)
  /\ UNCHANGED <<profile, note, crossed>>

-----------------------------------------------------------------------------
\* Notifications

\* isNotificationEnabledForUser, once it has the profile
EnabledFor(p, type) == p.enabled /\ (p.preferences = {} \/ type \in p.preferences)

\* The next one, or the request is done
NextTold(h) ==
  IF Len(req[h].todo) > 1
  THEN req' = [req EXCEPT ![h].at = "tell", ![h].todo = Tail(@)]
  ELSE Finish(h)

ReadPreferences(h) ==
  LET to   == req[h].todo[1][1]
      type == req[h].todo[1][2]
  IN  /\ req[h].at = "tell"
      /\ CASE ~profile[to].there               -> GoTo(h, "makeProfile")
           [] EnabledFor(profile[to], type)    -> GoTo(h, "post")
           [] OTHER                            -> NextTold(h)
      /\ UNCHANGED <<friend, profile, note, crossed>>

\* createProfile: if another request was first, the unique index makes this
\* notification fail, and safeNotify goes on
MakeProfile(h) ==
  LET to == req[h].todo[1][1]
  IN  /\ req[h].at = "makeProfile"
      /\ IF profile[to].there
         THEN NextTold(h) /\ UNCHANGED profile
         ELSE profile' = [profile EXCEPT ![to] = NewProfile] /\ GoTo(h, "post")
      /\ UNCHANGED <<friend, note, crossed>>

FreeNotes == {i \in NoteIds : note[i].state = "none"}

\* The row is inserted; the push to the user's devices may fail unseen
Post(h) ==
  /\ req[h].at = "post"
  /\ IF FreeNotes = {} THEN UNCHANGED note
     ELSE \E i \in FreeNotes :
            /\ \A j \in FreeNotes : i <= j
            /\ note' = [note EXCEPT ![i] = [state |-> "unread", user |-> req[h].todo[1][1]]]
  /\ NextTold(h)
  /\ UNCHANGED <<friend, profile, crossed>>

\* markAsRead: only an unread notification is saved
ReadNote(h, i) ==
  /\ note[i].state = "unread"
  /\ Begin(h, [Idle EXCEPT !.at = "saveNote", !.kind = "read", !.user = note[i].user,
                           !.peer = note[i].user, !.id = i])
  /\ UNCHANGED <<friend, profile, note, crossed>>

SaveNote(h) ==
  /\ req[h].at = "saveNote"
  /\ note' = [note EXCEPT ![req[h].id].state = "read"]
  /\ Finish(h)
  /\ UNCHANGED <<friend, profile, crossed>>

\* Mutant: reading is toggled
ReadAllToggled(h, u) ==
  /\ Begin(h, [Idle EXCEPT !.kind = "readAll", !.user = u, !.peer = u])
  /\ note' = [i \in NoteIds |-> IF note[i].user = u /\ note[i].state \in {"read", "unread"}
                                THEN [note[i] EXCEPT !.state = IF @ = "read" THEN "unread"
                                                               ELSE "read"]
                                ELSE note[i]]
  /\ UNCHANGED <<friend, profile, crossed>>

\* markAllAsRead, deleteNotification and deleteAllNotifications: one statement
ReadAll(h, u) ==
  /\ Begin(h, [Idle EXCEPT !.kind = "readAll", !.user = u, !.peer = u])
  /\ note' = [i \in NoteIds |-> IF note[i].user = u /\ note[i].state = "unread"
                                THEN [note[i] EXCEPT !.state = "read"] ELSE note[i]]
  /\ UNCHANGED <<friend, profile, crossed>>

DeleteNotes(h, u, S) ==
  /\ Begin(h, [Idle EXCEPT !.kind = "deleteNote", !.user = u, !.peer = u])
  /\ note' = [i \in NoteIds |-> IF i \in S /\ note[i].user = u /\ note[i].state # "none"
                                THEN [note[i] EXCEPT !.state = "deleted"] ELSE note[i]]
  /\ UNCHANGED <<friend, profile, crossed>>

-----------------------------------------------------------------------------
\* Profiles

\* enforceAuthorPublicProfilePrivacy
Refused(u, s) == /\ u \in Authors /\ "profilePrivacy" \in DOMAIN s
                 /\ s["profilePrivacy"] # "public"

With(p, s) == [c \in DOMAIN p |-> IF c \in DOMAIN s THEN s[c] ELSE p[c]]

\* updateProfile, updatePrivacySettings, updateNotificationSettings: all of
\* them start with getProfile, which creates what is missing.  It would also
\* save an author's profile as public if it were not, and by AuthorsPublic there
\* is no such profile.
LoadProfile(h, u, s) ==
  /\ Begin(h, [Idle EXCEPT !.at = IF ~profile[u].there THEN "makeOwn" ELSE "load",
                           !.kind = "settings", !.user = u, !.peer = u, !.body = s,
                           !.ent = IF profile[u].there THEN profile[u] ELSE NewProfile])
  /\ UNCHANGED <<friend, profile, note, crossed>>

MakeOwn(h) ==
  LET u == req[h].user
  IN  /\ req[h].at = "makeOwn"
      /\ IF profile[u].there THEN Finish(h) /\ UNCHANGED profile
         ELSE profile' = [profile EXCEPT ![u] = NewProfile] /\ GoTo(h, "load")
      /\ UNCHANGED <<friend, note, crossed>>

\* Mutant: whoever it is
ApplySettingsAnybody(h) ==
  LET u == req[h].user
  IN  /\ req[h].at = "load"
      /\ req' = [req EXCEPT ![h].at = "saveProfile", ![h].ent = With(@, req[h].body)]
      /\ UNCHANGED <<friend, profile, note, crossed>>

ApplySettings(h) ==
  LET u == req[h].user
  IN  /\ req[h].at = "load"
      /\ IF Refused(u, req[h].body) THEN Finish(h)
         ELSE req' = [req EXCEPT ![h].at = "saveProfile", ![h].ent = With(@, req[h].body)]
      /\ UNCHANGED <<friend, profile, note, crossed>>

SaveProfile(h) ==
  /\ req[h].at = "saveProfile"
  /\ profile' = [profile EXCEPT ![req[h].user] = req[h].ent]
  /\ Finish(h)
  /\ UNCHANGED <<friend, note, crossed>>

-----------------------------------------------------------------------------
\* Who sees what; a profile that is missing is created with the defaults

Profile(u) == IF profile[u].there THEN profile[u] ELSE NewProfile

\* Mutant: friends are not looked at
canViewProfileByPrivacyStrict(privacy, isOwner, isFriend, isAuthor) ==
  isOwner \/ isAuthor \/ privacy = "public"

canViewProfileByPrivacy(privacy, isOwner, isFriend, isAuthor) ==
  isOwner \/ isAuthor \/ privacy = "public" \/ (privacy = "friends" /\ isFriend)

\* getPublicProfile answers, or says that the profile is private
PublicProfileShown(u, v) ==
  canViewProfileByPrivacy(Profile(v).profilePrivacy, u = v, u # v /\ areFriends(u, v),
                          v \in Authors)

\* canViewProfile, with the order of its returns
canViewProfile(u, v) ==
  \/ u = v
  \/ v \in Authors
  \/ Profile(v).profilePrivacy = "public"
  \/ Profile(v).profilePrivacy = "friends" /\ areFriends(u, v)

canViewActivity(u, v) ==
  \/ u = v
  \/ Profile(v).activityPrivacy = "public"
  \/ Profile(v).activityPrivacy = "friends" /\ areFriends(u, v)

\* Activities are named by their place in the log.
\* ORDER BY "createdAt" DESC LIMIT n
Newest(n, S) == {k \in S : Cardinality({j \in S : j < k}) < n}

\* Mutant: the feed of everybody who was ever asked
getFriendsActivityAll(u, limit) ==
  Newest(limit, {k \in DOMAIN Activities : canViewActivity(u, Activities[k].user)})

\* getFriendsActivity: the friends' latest activities, twice as many as asked
\* for, then those that may be seen
getFriendsActivity(u, limit) ==
  LET all == Newest(2 * limit, {k \in DOMAIN Activities :
                                  Activities[k].user \in getAcceptedFriendIds(u)})
  IN  Newest(limit, {k \in all : canViewActivity(u, Activities[k].user)})

getRecentPublicActivity(v) ==
  {k \in DOMAIN Activities : /\ Activities[k].user = v
                             /\ Activities[k].type \in {"book_published", "review_posted"}}

\* getUserRecentPublicActivity
RecentPublicActivity(u, v) ==
  IF canViewActivity(u, v) THEN getRecentPublicActivity(v) ELSE {}

-----------------------------------------------------------------------------

Init ==
  /\ friend = [i \in RowIds |-> NoRow]
  /\ profile = [u \in Users |-> IF u \in Known THEN NewProfile ELSE NoProfile]
  /\ note = [i \in NoteIds |-> NoNote]
  /\ req = [h \in Handlers |-> Idle]
  /\ crossed = {}

\* A row or two remain for the requests that are under way
RowsLeft == Cardinality(FreeRows) > Cardinality({h \in Handlers : req[h].at = "insert"})

Arrive(h) ==
  \/ \E c \in Contacts :
       \/ RowsLeft /\ Send(h, c[1], c[2])
       \/ Accept(h, c[2], c[1])
       \/ \E kind \in {"decline", "unfriend"} : FindToRemove(h, kind, c[2], c[1])
       \/ \E kind \in {"cancel", "unfriend"} : FindToRemove(h, kind, c[1], c[2])
  \/ \E s \in Settings : LoadProfile(h, s[1], s[2])
  \/ \E i \in NoteIds : ReadNote(h, i)
  \/ \E u \in Users :
       \/ ReadAll(h, u)
       \/ \E S \in {{i} : i \in NoteIds} \cup {NoteIds} : DeleteNotes(h, u, S)

Continue(h) ==
  \/ Insert(h)
  \/ SaveRow(h)
  \/ RemoveRow(h)
  \/ ReadPreferences(h)
  \/ MakeProfile(h)
  \/ Post(h)
  \/ SaveNote(h)
  \/ MakeOwn(h)
  \/ ApplySettings(h)
  \/ SaveProfile(h)

Next == \E h \in Handlers : Arrive(h) \/ Continue(h)

Spec == Init /\ [][Next]_vars

-----------------------------------------------------------------------------
\* Type invariant: rows and stages have their types.
SocialTypeOK ==
  /\ friend \in [RowIds -> FriendRow]
  /\ profile \in [Users -> ProfileRow]
  /\ note \in [NoteIds -> NoteRow]
  /\ \A h \in Handlers : req[h].at \in Stages /\ req[h].kind \in RequestKinds
  /\ crossed \subseteq SUBSET Users

\* Friendship between two users follows FriendshipRules, whatever requests of
\* the two overlap: who asked must be found asking by the one who agrees, one
\* agreement makes one friendship, and what was asked or ended comes back only
\* through a request that had read the row before.
LinkOf(p) == IF Accepted(p[1], p[2]) # {} THEN "friends"
             ELSE IF Between(p[1], p[2]) # {} THEN "asked" ELSE "none"

ClaimOf(r) ==
  CASE r.at = "insert"    -> [to |-> "ask", by |-> r.user, of |-> <<r.user, r.peer>>]
    [] r.at = "saveRow"   -> [to |-> "agree", by |-> r.user, of |-> <<r.row.from, r.row.to>>]
    [] r.at = "removeRow" -> [to |-> "end", by |-> r.user,
                              of |-> <<friend[r.id].from, friend[r.id].to>>]
    [] OTHER              -> [to |-> "nothing"]

BothWays == Contacts \cup {<<c[2], c[1]>> : c \in Contacts}

Rules == INSTANCE FriendshipRules
           WITH Pairs   <- BothWays,
                Clients <- Handlers,
                link    <- [p \in BothWays |-> LinkOf(p)],
                claim   <- [h \in Handlers |-> ClaimOf(req[h])]
FriendshipSpec == Rules!Spec

\* All ways to ask about a friendship give the same answer to both users: the
\* list of friends, the pending requests and the check that privacy relies on
\* always, and the status, the search and the length of the list unless both
\* asked each other at once, which leaves two rows.
ViewsAgree ==
  \A c \in Contacts :
    LET u == c[1]
        v == c[2]
        status == FriendshipStatuses(u, v)
    IN  /\ status = SearchStatuses(u, v)
        /\ v \in getAcceptedFriendIds(u) <=> areFriends(u, v)
        /\ u \in getAcceptedFriendIds(v) <=> areFriends(u, v)
        /\ v \in PendingSent(u) <=> u \in PendingReceived(v)
        /\ TimesListed(u, v) <= 2
        /\ {u, v} \notin crossed =>
             /\ Cardinality(status) = 1
             /\ TimesListed(u, v) = IF areFriends(u, v) THEN 1 ELSE 0
             /\ \A s \in status :
                  /\ areFriends(u, v) <=> s.status = "accepted"
                  /\ v \in PendingSent(u) <=> s.status = "pending" /\ s.isRequester
                  /\ v \in PendingReceived(u) <=> s.status = "pending" /\ ~s.isRequester

\* The rule of getPublicProfile and the rule of canViewProfile, written twice
\* in the code, agree for every viewer.
PrivacyRulesAgree ==
  \A u, v \in Users : PublicProfileShown(u, v) <=> canViewProfile(u, v)

\* The feed shows what friends let their friends see, and no one else's
\* activities; nothing a user keeps private reaches anybody.  Who has one friend
\* only finds in the feed the friend's latest activities exactly if the friend's
\* own page would be shown.
FeedRespectsPrivacy ==
  \A u \in Users :
    LET feed == getFriendsActivity(u, Limit)
    IN  /\ Cardinality(feed) <= Limit
        /\ \A k \in feed :
             LET v == Activities[k].user
             IN  areFriends(u, v) /\ Profile(v).activityPrivacy # "private"
        /\ \A v \in Users \ {u} : getAcceptedFriendIds(u) = {v} =>
             feed = IF canViewActivity(u, v)
                    THEN Newest(Limit, {k \in DOMAIN Activities : Activities[k].user = v})
                    ELSE {}

\* The profile of an author stays public, whatever settings are saved.
AuthorsPublic == \A u \in Authors : profile[u].profilePrivacy = "public"

\* The requests that are going to save a notification as read
Readers(i) == {h \in Handlers : req[h].at = "saveNote" /\ req[h].id = i}

\* A notification that was read is not unread again, whatever is read, deleted
\* and sent at the same time.  One that was deleted comes back only as one that
\* is read, through a request that had loaded it before, once by each.
NotesSettle ==
  [][\A i \in NoteIds :
       /\ note[i].state = "read" => note'[i].state \in {"read", "deleted"}
       /\ note[i].state = "deleted" =>
            /\ Readers(i)' \subseteq Readers(i)
            /\ \/ note'[i] = note[i]
               \/ note'[i].state = "read" /\ Readers(i)' # Readers(i)]_vars
=============================================================================
