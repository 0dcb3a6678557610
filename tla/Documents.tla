----------------------------- MODULE Documents -----------------------------
(***************************************************************************)
(* What the resource services promise to the people who edit a list of      *)
(* documents at once: whoever replaces, removes or creates one replaces     *)
(* exactly what he saw, or is told that he did not.                         *)
(***************************************************************************)
CONSTANTS
  Ids,      \* the names a document can have
  Versions, \* what a document can hold
  Absent    \* the version of a document that does not exist

VARIABLES
  held,     \* held[i] is what document i holds
  asked,    \* asked[n] is edit n, of those asked for so far
  open      \* those that wait for their answer

documentVars == <<held, asked, open>>

Edits == [id: Ids, base: Versions \cup {Absent}, new: Versions \cup {Absent}]

DocumentsInit ==
  /\ held \in [Ids -> Versions \cup {Absent}]
  /\ DOMAIN asked = {}
  /\ open = {}

(* Somebody edits what he saw: base need not be what the document holds now. *)
Ask ==
  \E n \in DOMAIN asked' \ DOMAIN asked, edit \in Edits :
    /\ asked' = [m \in DOMAIN asked \cup {n} |-> IF m = n THEN edit ELSE asked[m]]
    /\ open' = open \cup {n}
    /\ UNCHANGED held

Accept(k) ==
  /\ k \in open
  /\ held[asked[k].id] = asked[k].base
  /\ held' = [held EXCEPT ![asked[k].id] = asked[k].new]
  /\ open' = open \ {k}
  /\ UNCHANGED asked

(* A conflict, a document that is gone, a save that failed or a lost server. *)
Refuse(k) ==
  /\ k \in open
  /\ open' = open \ {k}
  /\ UNCHANGED <<held, asked>>

RefuseAll ==
  /\ open' = {}
  /\ UNCHANGED <<held, asked>>

DocumentsNext ==
  \/ Ask
  \/ \E k \in open : Accept(k) \/ Refuse(k)
  \/ RefuseAll

DocumentsSpec == DocumentsInit /\ [][DocumentsNext]_documentVars
=============================================================================
