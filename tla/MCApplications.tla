--------------------------- MODULE MCApplications ---------------------------
(***************************************************************************)
(* Instances of Applications for TLC.                                      *)
(***************************************************************************)
EXTENDS Applications, TLC

Book(method, digital, copies, deadline) ==
  [status |-> "active", total |-> copies, avail |-> copies, method |-> method,
   digital |-> digital, appDeadline |-> deadline, reviewDeadline |-> deadline + 1,
   drawn |-> FALSE]

\* One copy and two readers: the last copy is contended.  Two copies: a stale
\* save can hide a reservation.  The single copy is a digital one.
DecidedBooks == {Book(m, c = 1, c, 1) : m \in {"author_selects", "first_come"}, c \in 1..2}
LotteryBooks == {Book("lottery", FALSE, c, 1) : c \in 1..2}
OneCopyBooks == {Book(m, FALSE, 1, 1) : m \in Methods}

\* With a copy left after the first reader got one, the insert of a request
\* that is repeated fails after its reservation.
AnsweredBooks == OneCopyBooks \cup {Book("first_come", FALSE, 2, 1)}

NoEdits  == {}
\* An upload; more time with the copies counted anew; another method.
AnyEdits == {NoEdit,
             [total |-> 1, appDeadline |-> 2, reviewDeadline |-> 3],
             [avail |-> 1, method |-> "lottery"]}

Symmetric == Permutations(Readers) \cup Permutations(Handlers)
=============================================================================
