--------------------------- MODULE FriendshipRules ---------------------------
(***************************************************************************)
(* What friendship promises, without rows and their ids: a user asks       *)
(* another one, who agrees; each of the two may end it.  A client first    *)
(* finds how things stand and acts on that later, when others have acted.  *)
(* What it found is a claim, good for one act.  So nobody becomes a friend *)
(* who was not found asking by the one who agrees, and a question or a     *)
(* friendship that was ended comes back only through a claim from before.  *)
(***************************************************************************)

CONSTANTS
  Pairs,    \* <<u, v>>: u may ask v; with each pair the reversed one
  Clients

VARIABLES
  link,   \* link[u, v]: what became of the question of u to v
  claim   \* what each client is going to do

vars == <<link, claim>>

Free == [to |-> "nothing"]

Init ==
  /\ link = [p \in Pairs |-> "none"]
  /\ claim = [c \in Clients |-> Free]

Find(c, goal, u, p) ==
  /\ claim[c] = Free
  /\ claim' = [claim EXCEPT ![c] = [to |-> goal, by |-> u, of |-> p]]
  /\ UNCHANGED link

Look(c, p)    == link[p] = "none" /\ link[<<p[2], p[1]>>] = "none" /\ Find(c, "ask", p[1], p)
Hear(c, p)    == link[p] = "asked" /\ Find(c, "agree", p[2], p)
Regret(c, p)  == link[p] # "none" /\ \E u \in {p[1], p[2]} : Find(c, "end", u, p)

Act(c, goal, p, new) ==
  /\ claim[c].to = goal /\ claim[c].of = p
  /\ claim' = [claim EXCEPT ![c] = Free]
  /\ link' = [link EXCEPT ![p] = new]

Ask(c, p)   == link[p] = "none" /\ Act(c, "ask", p, "asked")
Agree(c, p) == Act(c, "agree", p, "friends")
End(c, p)   == Act(c, "end", p, "none")

\* The client gives up
Drop(c) ==
  /\ claim[c] # Free
  /\ claim' = [claim EXCEPT ![c] = Free]
  /\ UNCHANGED link

\* Whatever a client does, its claim is another one then
Next == \E c \in Clients :
          /\ claim'[c] # claim[c]
          /\ \/ Drop(c)
             \/ \E p \in Pairs : \/ Look(c, p) \/ Hear(c, p) \/ Regret(c, p)
                                \/ Ask(c, p) \/ Agree(c, p) \/ End(c, p)

Spec == Init /\ [][Next]_vars
=============================================================================
