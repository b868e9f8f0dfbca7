---------------------------- MODULE CatalogRatchet ----------------------------
(***************************************************************************)
(* What the catalogue of models promises, whatever happens to the process: *)
(* the accepted catalogue only moves forward, and a revision is made the   *)
(* working one only when the accepted catalogue does not revoke it.        *)
(***************************************************************************)
EXTENDS Naturals

CONSTANTS
  Catalogs,    \* signed catalogues
  Rank,        \* their order: the pair (trust_epoch, serial) as one number
  Revisions,   \* revisions of models
  Revokes,     \* Revokes[c]: the revisions catalogue c revokes
  None

VARIABLES
  accepted,    \* the catalogue the program has accepted, None before the first
  working      \* the revision that is the working one, None for none

Init == accepted = None /\ working = None

Forward(c) ==
  /\ accepted = None \/ Rank[c] > Rank[accepted]
  /\ accepted' = c
  /\ UNCHANGED working

Choose(r) ==
  /\ accepted # None /\ r \notin Revokes[accepted]
  /\ working' = r
  /\ UNCHANGED accepted

Next == (\E c \in Catalogs: Forward(c)) \/ (\E r \in Revisions: Choose(r))

Spec == Init /\ [][Next]_<<accepted, working>>
===============================================================================
