------------------------------ MODULE MCSocial ------------------------------
(***************************************************************************)
(* Instances of Social for TLC.                                            *)
(***************************************************************************)
EXTENDS Social, TLC

CONSTANTS u1, u2, a1

EachOther == {<<u1, u2>>, <<u2, u1>>}

Saved == {<<u2, [activityPrivacy |-> "friends", profilePrivacy |-> "private"]>>,
          <<u2, [activityPrivacy |-> "private", profilePrivacy |-> "friends",
                 preferences |-> {"accepted"}]>>,
          <<a1, [profilePrivacy |-> "private"]>>}

Log == <<[user |-> u2, type |-> "review_posted"], [user |-> a1, type |-> "book_published"]>>

Symmetric == Permutations(Handlers)
=============================================================================
