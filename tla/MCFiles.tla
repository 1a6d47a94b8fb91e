------------------------------- MODULE MCFiles -------------------------------
(***************************************************************************)
(* Instances of Files for TLC.                                             *)
(***************************************************************************)
EXTENDS Files, TLC

CONSTANT u1

OneAuthor == [b \in Books |-> u1]

\* An EPUB sent without its type, itself a downloaded copy of another book; a
\* broken PDF; an image
Sent == {[ext |-> "epub", mime |-> "other", body |-> "epub",
          mark |-> <<"another", CHOOSE r \in Readers : TRUE>>],
         [ext |-> "pdf", mime |-> "pdf", body |-> "other", mark |-> None],
         [ext |-> "png", mime |-> "other", body |-> "other", mark |-> None]}

Bodies == {[series |-> Unasked, genres |-> Unasked],
           [series |-> None, genres |-> {"unknown"}]}
          \cup {[series |-> s, genres |-> GenreIds] : s \in SeriesIds}

Symmetric == Permutations(Handlers)
=============================================================================
