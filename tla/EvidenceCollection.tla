------------------------- MODULE EvidenceCollection -------------------------
(***************************************************************************)
(* What collecting the evidence of one bug promises, whatever the model    *)
(* reads or asks: what was learned is kept, every turn that is not the     *)
(* last spends some of a budget fixed at the start, and a collection that  *)
(* ends in a ticket hands over everything that was known when it ended.    *)
(***************************************************************************)
EXTENDS Naturals

CONSTANTS Facts, Budget

VARIABLES
  verdict,   \* "open", or how the collection ended
  known,     \* the facts learned so far
  left,      \* turns it may still take
  ticket     \* the facts of each ticket filed

vars == <<verdict, known, left, ticket>>

Init ==
  /\ verdict = "open"
  /\ known = {}
  /\ left = Budget
  /\ ticket = {}

Collect ==
  /\ verdict = "open" /\ left > 0
  /\ known' \in {k \in SUBSET Facts : known \subseteq k}
  /\ left' = left - 1
  /\ UNCHANGED <<verdict, ticket>>

(* A ticket may be filed again when the first one was not remembered.      *)
File ==
  /\ verdict = "open"
  /\ \E k \in SUBSET Facts : known \subseteq k /\ ticket' = ticket \cup {k}
  /\ UNCHANGED <<verdict, known, left>>

(* It ends filed only with a ticket that names all that is known, and once *)
(* its budget is spent it is not explained away.                           *)
Close ==
  /\ verdict = "open"
  /\ \/ verdict' = "filed" /\ \E k \in ticket : known \subseteq k
     \/ verdict' = "explained" /\ left > 0
     \/ verdict' = "dropped"
  /\ known' = {} /\ left' = 0
  /\ UNCHANGED ticket

Next == Collect \/ File \/ Close

Spec == Init /\ [][Next]_vars
=============================================================================
