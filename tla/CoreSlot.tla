------------------------------ MODULE CoreSlot ------------------------------
(***************************************************************************)
(* What the guard protocol of CoreGuard promises for one data directory: at *)
(* most one backend serves it, a backend begins to serve while no core      *)
(* lives, and a core starts only where none lives.  That a core may outlive *)
(* its backend, or a backend its core, is part of the promise: either may   *)
(* be killed at any moment.                                                 *)
(***************************************************************************)
CONSTANTS Backends, Cores

VARIABLES serving,  \* the backend that serves the directory, as a set
          cores     \* the core that lives, as a set

vars == <<serving, cores>>

Init == serving = {} /\ cores = {}

Open(b) ==
  /\ serving = {} /\ cores = {}
  /\ serving' = {b}
  /\ UNCHANGED cores

Close ==
  /\ serving # {} /\ serving' = {}
  /\ UNCHANGED cores

Start(c) ==
  /\ cores = {} /\ cores' = {c}
  /\ UNCHANGED serving

Exit ==
  /\ cores # {} /\ cores' = {}
  /\ UNCHANGED serving

Next ==
  \/ \E b \in Backends : Open(b)
  \/ Close
  \/ \E c \in Cores : Start(c)
  \/ Exit

Spec == Init /\ [][Next]_vars
=============================================================================
