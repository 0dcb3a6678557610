------------------------------ MODULE CorePage ------------------------------
(***************************************************************************)
(* The state of the core as a page shows it: the store kernelApi of the     *)
(* frontend, fed by the kernelStateChanged events and by the replies of its  *)
(* own calls, which come on another connection.  What the service does is in *)
(* Kernel.tla; here it only changes its state, for this page or for others.  *)
(*                                                                         *)
(* Left out: the flags for an operation of the page itself, the settings of *)
(* the running core, and restarts, whose reply is that of a start.           *)
(***************************************************************************)
EXTENDS Naturals, Sequences

CONSTANTS
  MaxChanges,  \* how often the state changes
  MaxRequests, \* how many calls the page makes
  MaxDrops     \* how often its websocket is lost

ASSUME CorePageAssumption ==
  MaxChanges \in Nat /\ MaxRequests \in Nat /\ MaxDrops \in Nat

VARIABLES
  status,       \* CoreStatus and pid, as the service would report them
  changes,      \* how often they changed
  unpublished,  \* the changes whose event is not published yet
  wire,         \* events on their way to the page
  open,         \* whether the page's websocket is open
  drops,
  requests,     \* the calls of the page
  shown,        \* what the page shows
  past,         \* the newest change whose event has reached the page or was lost
  misled        \* the page last took a reply older than that, or lost an event

pageVars == <<shown, past, misled>>
corePageVars == <<status, changes, unpublished, wire, open, drops, requests, pageVars>>

-----------------------------------------------------------------------------
State(s, pid) == [status |-> s, pid |-> pid]
Resting == {"STOPPED", "CRASHED"}
Unknown == State("UNKNOWN", 0)

(* Mutant: the state may change again before its event is out. *)
ChangesOvertake == Len(unpublished) < 2

(* updateCoreState and its like hold stateEventMu until the event is out, so    *)
(* that events are published in the order of the changes.                      *)
CanChange == Len(unpublished) = 0

Change(new) ==
  /\ CanChange /\ changes < MaxChanges
  /\ status' = new
  /\ changes' = changes + 1
  /\ unpublished' = Append(unpublished, [state |-> new, no |-> changes'])

Stays == UNCHANGED <<status, changes, unpublished>>

(* An update to the state that is there is not published. *)
Becomes(new) == IF status = new THEN Stays ELSE Change(new)

PublishCoreState(n) ==
  /\ n \in DOMAIN unpublished
  /\ unpublished' = [m \in 1 .. Len(unpublished) - 1 |-> unpublished[IF m < n THEN m ELSE m + 1]]
  /\ IF open
     THEN wire' = Append(wire, unpublished[n]) /\ UNCHANGED <<past, misled>>
     ELSE past' = unpublished[n].no /\ misled' = TRUE /\ UNCHANGED wire
  /\ UNCHANGED <<status, changes, open, drops, requests, shown>>

(* What the service does for others: exits, other pages, the restart worker.   *)
Elsewhere ==
  LET ours(phase) == \E k \in DOMAIN requests : requests[k].phase = phase IN
  /\ \/ status.status \in Resting /\ Change(State("STARTING", 0))
     \/ status.status = "STARTING" /\ ~ours("starting") /\ Change(State("RUNNING", changes + 1))
     \/ status.status = "RUNNING" /\ Change(State("STOPPING", 0))
     \/ status.status = "STOPPING" /\ Change(State("STOPPED", 0))
     \/ status.status \in {"STARTING", "RUNNING", "STOPPING"} /\ Change(State("CRASHED", 0))
  /\ UNCHANGED <<wire, open, drops, requests, pageVars>>

-----------------------------------------------------------------------------
(* Requests of the page.  A reply carries a state, and "at" is the change it    *)
(* tells of; an error carries none.                                           *)

Request(k, op, phase) == k \in DOMAIN requests /\ requests[k].op = op /\ requests[k].phase = phase
Proceeds(k, phase) == requests' = [requests EXCEPT ![k].phase = phase]
Replies(k, state, at) ==
  requests' = [requests EXCEPT ![k] = [op |-> @.op, phase |-> "answered", state |-> state, at |-> at]]
Refuses(k) == Replies(k, Unknown, 0)

Ask(op) ==
  /\ Len(requests) < MaxRequests
  /\ op = "start" => shown.status # "RUNNING"
  /\ op = "stop" => shown.status = "RUNNING"
  /\ requests' = Append(requests, [op |-> op, phase |-> "sent", state |-> Unknown, at |-> 0])
  /\ UNCHANGED <<status, changes, unpublished, wire, open, drops, pageVars>>

(* A start that fails, and a stop, set the state whatever it is by then. *)
StartCore(k) ==
  /\ \/ /\ Request(k, "start", "sent") /\ status.status \in Resting
        /\ Change(State("STARTING", 0)) /\ Proceeds(k, "starting")
     \/ /\ Request(k, "start", "sent") /\ status.status \notin Resting
        /\ Refuses(k) /\ Stays
     \/ /\ Request(k, "start", "starting") /\ status.status = "STARTING"
        /\ Change(State("RUNNING", changes + 1)) /\ Replies(k, status', changes')
     \/ /\ Request(k, "start", "starting")
        /\ Becomes(State("STOPPED", 0)) /\ Refuses(k)
     \/ /\ Request(k, "start", "starting") /\ status.status # "STARTING"
        /\ Refuses(k) /\ Stays
  /\ UNCHANGED <<wire, open, drops, pageVars>>

StopCore(k) ==
  /\ \/ /\ Request(k, "stop", "sent") /\ status.status = "RUNNING"
        /\ Change(State("STOPPING", 0)) /\ Proceeds(k, "stopping")
     \/ /\ Request(k, "stop", "sent") /\ status.status = "STOPPED"
        /\ Replies(k, status, changes) /\ Stays
     \/ /\ Request(k, "stop", "sent") /\ status.status \notin {"RUNNING", "STOPPED"}
        /\ Refuses(k) /\ Stays
     \/ /\ Request(k, "stop", "stopping")
        /\ Becomes(State("STOPPED", 0)) /\ Replies(k, status', changes')
     \/ /\ Request(k, "stop", "stopping")
        /\ Becomes(State("CRASHED", 0)) /\ Refuses(k)
  /\ UNCHANGED <<wire, open, drops, pageVars>>

(* It takes only the mutex of the state: it may report what is yet unpublished. *)
GetCoreStatus(k) ==
  /\ Request(k, "status", "sent")
  /\ Replies(k, status, changes)
  /\ Stays /\ UNCHANGED <<wire, open, drops, pageVars>>

-----------------------------------------------------------------------------
(* The page applies states in the order in which they reach it. *)

ApplyCoreState(state, at) ==
  /\ shown' = state
  /\ misled' = (at < past')

OnKernelStateChanged ==
  /\ wire # <<>>
  /\ wire' = Tail(wire)
  /\ past' = Head(wire).no
  /\ ApplyCoreState(Head(wire).state, Head(wire).no)
  /\ UNCHANGED <<status, changes, unpublished, open, drops, requests>>

(* A handler answers once the event of its change is published. *)
ReceiveAnswer(k) ==
  LET reply == requests[k] IN
  /\ k \in DOMAIN requests /\ reply.phase = "answered"
  /\ \A n \in DOMAIN unpublished : unpublished[n].no # reply.at \/ reply.op = "status"
  /\ UNCHANGED past
  /\ IF reply.state = Unknown
     THEN \* reconcileCoreStateAfterFailure
          /\ requests' = [requests EXCEPT ![k].op = "status", ![k].phase = "sent"]
          /\ UNCHANGED <<shown, misled>>
     ELSE /\ ApplyCoreState(reply.state, reply.at)
          /\ requests' = [requests EXCEPT ![k] = [op |-> "status", phase |-> "over", state |-> Unknown, at |-> 0]]
  /\ UNCHANGED <<status, changes, unpublished, wire, open, drops>>

(* Events that were on their way are lost.  The page opens the websocket again, *)
(* but does not ask for the core's state then.                                *)
LoseWebSocket ==
  /\ open /\ drops < MaxDrops
  /\ open' = FALSE /\ drops' = drops + 1
  /\ wire' = <<>>
  /\ IF wire = <<>> THEN UNCHANGED <<past, misled>>
     ELSE past' = wire[Len(wire)].no /\ misled' = TRUE
  /\ UNCHANGED <<status, changes, unpublished, requests, shown>>

OpenWebSocket ==
  /\ ~open /\ open' = TRUE
  /\ UNCHANGED <<status, changes, unpublished, wire, drops, requests, pageVars>>

-----------------------------------------------------------------------------
CorePageInit ==
  /\ status = State("STOPPED", 0)
  /\ changes = 0 /\ unpublished = <<>>
  /\ wire = <<>> /\ open = TRUE /\ drops = 0
  /\ requests = <<>>
  /\ shown = status /\ past = 0 /\ misled = FALSE

CorePageNext ==
  \/ \E n \in DOMAIN unpublished : PublishCoreState(n)
  \/ Elsewhere
  \/ \E op \in {"start", "stop", "status"} : Ask(op)
  \/ \E k \in DOMAIN requests : StartCore(k) \/ StopCore(k) \/ GetCoreStatus(k) \/ ReceiveAnswer(k)
  \/ OnKernelStateChanged
  \/ LoseWebSocket \/ OpenWebSocket

CorePageSpec == CorePageInit /\ [][CorePageNext]_corePageVars

-----------------------------------------------------------------------------
(* Properties *)

States == [status: {"STOPPED", "STARTING", "RUNNING", "STOPPING", "CRASHED"}, pid: 0 .. MaxChanges]
Announced == [state: States, no: 1 .. MaxChanges]

(* The values every variable keeps to.                                        *)
CorePageTypeOK ==
  /\ status \in States /\ shown \in States
  /\ changes \in 0 .. MaxChanges /\ past \in 0 .. MaxChanges
  /\ unpublished \in Seq(Announced) /\ wire \in Seq(Announced)
  /\ open \in BOOLEAN /\ drops \in 0 .. MaxDrops /\ misled \in BOOLEAN
  /\ requests \in Seq([op: {"start", "stop", "status"}, state: States \cup {Unknown}, at: 0 .. MaxChanges,
                       phase: {"sent", "starting", "stopping", "answered", "over"}])

(* A page that no event is on its way to shows the core as it is, whatever it    *)
(* has asked for, unless it took a reply that events had overtaken, or lost      *)
(* events with its websocket, and nothing newer since.                         *)
ShownIsTrue == unpublished = <<>> /\ wire = <<>> /\ ~misled => shown = status
=============================================================================
