----------------------------- MODULE CopyLedger -----------------------------
(***************************************************************************)
(* What the reservation of review copies promises, without requests, locks *)
(* or rows: a stock of free copies, the readers who were promised one, and *)
(* the readers who are told at the moment that they have one.              *)
(***************************************************************************)
EXTENDS Integers, FiniteSets

CONSTANTS Readers

VARIABLES free, holders, approved

vars == <<free, holders, approved>>

Init == free \in Nat /\ holders = {} /\ approved = {}

\* Copies leave the stock one by one, each for a reader, and only those that
\* are there.
Promise(S) ==
  /\ Cardinality(S) <= free
  /\ free' = free - Cardinality(S)
  /\ holders' = holders \cup S
  /\ approved' = approved \cup S

\* Readers may be told otherwise later, never that they hold a copy that was
\* not promised to them.
Announce ==
  /\ approved' \subseteq holders
  /\ UNCHANGED <<free, holders>>

Next == Announce \/ \E S \in (SUBSET Readers) \ {{}} : Promise(S)

Spec == Init /\ [][Next]_vars
=============================================================================
