---------------------------- MODULE SessionLedger ----------------------------
(***************************************************************************)
(* What sessions promise, without Redis or handlers: the tokens that are   *)
(* open, the claims of clients that presented an open token, the tokens    *)
(* that are owed to clients, and the logins so far.                        *)
(***************************************************************************)
EXTENDS Integers

CONSTANTS
  Users,
  Clients,
  Times    \* the seconds a token may be issued in

VARIABLES open, claims, owed, logins

vars == <<open, claims, owed, logins>>

Token == [user : Users, iat : Times]

Init ==
  /\ open = {} /\ claims = {} /\ owed = {}
  /\ logins = [u \in Users |-> 0]

\* A login, or a registration, earns a token.
Earn(c, u) ==
  /\ logins' = [logins EXCEPT ![u] = @ + 1]
  /\ <<c, u>> \notin owed
  /\ owed' = owed \cup {<<c, u>>}
  /\ UNCHANGED <<open, claims>>

\* A client presents an open token ...
Claim(c, t) ==
  /\ claims' = claims \cup {<<c, t>>}
  /\ UNCHANGED <<open, owed, logins>>

\* ... and is owed another one for it, once.  The token is closed, if it is
\* still open: it may have been presented by two clients.
Exchange(c, t) ==
  /\ claims' = claims \ {<<c, t>>}
  /\ <<c, t.user>> \notin owed
  /\ owed' = owed \cup {<<c, t.user>>}
  /\ open' = open \ {t}
  /\ UNCHANGED logins

\* A claim is refused.
Refuse(c, t) ==
  /\ claims' = claims \ {<<c, t>>}
  /\ UNCHANGED <<open, owed, logins>>

\* What is owed is handed out, perhaps a token that is open already.
HandOut(c, u) ==
  /\ owed' = owed \ {<<c, u>>}
  /\ \E i \in Times : open' = open \cup {[user |-> u, iat |-> i]}
  /\ UNCHANGED <<claims, logins>>

\* Sessions of one account are closed.
Close(u) ==
  /\ open' \subseteq open
  /\ \A t \in open \ open' : t.user = u
  /\ UNCHANGED <<claims, owed, logins>>

Next ==
  \/ \E u \in Users : Close(u) \/ \E c \in Clients : Earn(c, u)
  \/ \E c \in Clients, t \in open : Claim(c, t)
  \/ \E d \in claims : Exchange(d[1], d[2]) \/ Refuse(d[1], d[2])
  \/ \E d \in owed : HandOut(d[1], d[2])

Spec == Init /\ [][Next]_vars
=============================================================================
