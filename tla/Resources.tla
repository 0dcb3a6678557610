----------------------------- MODULE Resources -----------------------------
(***************************************************************************)
(* One list of resources (the profiles), the server that keeps it in a file *)
(* under revisions, and the browsers that show it, edit it and are told of   *)
(* changes: bridge/profile, bridge/syncstate and the frontend's stores.     *)
(*                                                                         *)
(* Every handler holds the service's mutex from reading the file to          *)
(* advancing the revisions, so that is one step; publishing the change and   *)
(* answering come after the unlock, as steps of their own.  A document's     *)
(* content is abstracted to the number of the call that wrote it.            *)
(***************************************************************************)
EXTENDS Naturals, Sequences, FiniteSets

CONSTANTS
  Ids,           \* the ids a resource can have
  FirstIds,      \* those in the file at the start
  Browsers,      \* the open pages
  Followed,      \* those whose synchronization is followed step by step
  MaxCalls,      \* how many calls the users make, and how often the server dies, in all
  QueueSize,     \* clientSendQueueSize
  Nothing        \* no event, no draft, no reply

Events == [instance: Nat, state: Nat]
Syncs == [again: BOOLEAN, waiting: SUBSET Events]

(* opened: the page has seen it open; registered: the hub sends to it; untold:  *)
(* what was published while it was open and not yet registered.                *)
Sockets == [opened: BOOLEAN, registered: BOOLEAN, untold: SUBSET Events]
NoSocket == [opened |-> FALSE, registered |-> FALSE, untold |-> {}]
LiveSocket == [opened |-> TRUE, registered |-> TRUE, untold |-> {}]

ASSUME ResourcesAssumption ==
  /\ IsFiniteSet(Ids) /\ FirstIds \subseteq Ids /\ Followed \subseteq Browsers
  /\ MaxCalls \in Nat /\ QueueSize \in Nat \ {0}
  /\ Nothing \notin Nat \cup Events \cup Syncs

VARIABLES
  server,     \* the file and its revisions, as a list reply shows them
  up,         \* whether the server runs
  calls,      \* the users' calls, in the order they were made
  lists,      \* lists[b]: the list calls of b that have no reply yet, oldest first
  socket,     \* socket[b]: the websocket of b, see Sockets
  queue,      \* queue[b]: events on their way to b
  view,       \* view[b]: the store of b
  draft,      \* draft[b]: the form that is open in b
  pending,    \* pending[b]: the event whose refresh timer runs
  sync,       \* sync[b]: the synchronization that runs
  passedOver  \* b's revision was moved past a change b was not shown

serverVars == <<server, up>>
browserVars == <<view, draft, pending, sync, passedOver>>
resourcesVars == <<server, up, calls, lists, socket, queue, browserVars>>

-----------------------------------------------------------------------------
(* Values *)

Absent == MaxCalls + 1
FirstVersion == 0
Versions == 0 .. MaxCalls
Present(s) == {i \in Ids : s.content[i] # Absent}

Orders == UNION {{o \in [1 .. n -> Ids] : Cardinality({o[k] : k \in 1 .. n}) = n} :
                   n \in 0 .. Cardinality(Ids)}

(* Mutant: a new coordinator takes the name of the one before. *)
SameInstance(s, instance) ==
  [s EXCEPT !.state = 1, !.orderRev = 1,
            !.items = [i \in Ids |-> IF i \in Present(s) THEN 1 ELSE 0]]

(* A coordinator starts every revision of a domain at one. *)
FreshRevisions(s, instance) ==
  [s EXCEPT !.instance = instance, !.state = 1, !.orderRev = 1,
            !.items = [i \in Ids |-> IF i \in Present(s) THEN 1 ELSE 0]]

(* Mutant: a new order gets no revision of its own. *)
AdvanceItemsOnly(s, changed, removed, reordered) ==
  [s EXCEPT !.state = @ + 1,
            !.items = [i \in Ids |-> IF i \in removed THEN 0
                                     ELSE IF i \in changed THEN s.state + 1 ELSE @[i]]]

Advance(s, changed, removed, reordered) ==
  LET next == s.state + 1 IN
  [s EXCEPT !.state = next,
            !.items = [i \in Ids |-> IF i \in removed THEN 0
                                     ELSE IF i \in changed THEN next ELSE @[i]],
            !.orderRev = IF reordered THEN next ELSE @]

(* Calls and crashes share one budget. *)
MayAct == Len(calls) + server.instance <= MaxCalls

Event(s) == [instance |-> s.instance, state |-> s.state]

(* Mutant: only the instance is compared. *)
MatchesInstance(expected, current) == expected.instance = server.instance

(* checkRevision *)
Matches(expected, current) ==
  /\ expected.instance = server.instance
  /\ expected.revision = current

(* What is at the index of the id is cut out, if there is one. *)
Without(order, id) ==
  IF \A n \in DOMAIN order : order[n] # id THEN order
  ELSE LET at == CHOOSE n \in DOMAIN order : order[n] = id IN
       SubSeq(order, 1, at - 1) \o SubSeq(order, at + 1, Len(order))

-----------------------------------------------------------------------------
(* The server.  A call goes from "sent" over "unlocked" (served, the change   *)
(* not yet published) to "answered" and, once its browser has read the reply, *)
(* "done".                                                                    *)

Handling(k, op) == up /\ k \in DOMAIN calls /\ calls[k].phase = "sent" /\ calls[k].op = op

Answer(k, outcome) ==
  /\ calls' = [calls EXCEPT ![k].phase = "answered", ![k].outcome = outcome]
  /\ UNCHANGED <<serverVars, lists, socket, queue, browserVars>>

(* A reply carries the revisions after the call; only a change is published.  *)
Commit(k, next) ==
  LET changed == next # server IN
  /\ server' = next
  /\ calls' = [calls EXCEPT ![k].phase = IF changed THEN "unlocked" ELSE "answered",
                            ![k].outcome = IF changed THEN "changed" ELSE "unchanged",
                            ![k].reply = next]
  /\ UNCHANGED <<up, lists, socket, queue, browserVars>>

(* The file cannot be read or written.  AtomicWriteFile replaces it whole or    *)
(* leaves it; the services keep nothing in memory between calls but the        *)
(* revisions, which have not moved.                                           *)
SaveFails(k) == Answer(k, "failed")

CreateProfile(k) ==
  LET id == calls[k].id IN
  /\ Handling(k, "create")
  /\ \/ id \in Present(server) /\ Answer(k, "failed")
     \/ id \notin Present(server) /\ SaveFails(k)
     \/ /\ id \notin Present(server)
        /\ Commit(k, Advance([server EXCEPT !.content[id] = calls[k].new,
                                            !.order = Append(@, id)], {id}, {}, TRUE))

UpdateProfile(k) ==
  LET id == calls[k].id
      current == Matches(calls[k].expected, server.items[id]) IN
  /\ Handling(k, "update")
  /\ \/ id \notin Present(server) /\ Answer(k, "refused")
     \/ id \in Present(server) /\ ~current /\ Answer(k, "refused")
     \/ id \in Present(server) /\ current /\ SaveFails(k)
     \/ /\ id \in Present(server) /\ current
        /\ IF server.content[id] = calls[k].new
           THEN Commit(k, server)
           ELSE Commit(k, Advance([server EXCEPT !.content[id] = calls[k].new],
                                  {id}, {}, FALSE))

DeleteProfile(k) ==
  LET id == calls[k].id
      current == Matches(calls[k].expected, server.items[id]) IN
  /\ Handling(k, "delete")
  /\ \/ id \notin Present(server) /\ Answer(k, "refused")
     \/ id \in Present(server) /\ ~current /\ Answer(k, "refused")
     \/ id \in Present(server) /\ current /\ SaveFails(k)
     \/ /\ id \in Present(server) /\ current
        /\ Commit(k, Advance([server EXCEPT !.content[id] = Absent,
                                            !.order = Without(@, id)], {}, {id}, TRUE))

(* validateOrderIDs wants every id of the file once. *)
ReorderProfiles(k) ==
  LET current == Matches(calls[k].expected, server.orderRev)
      valid == /\ Len(calls[k].order) = Len(server.order)
               /\ {calls[k].order[n] : n \in DOMAIN calls[k].order} = Present(server) IN
  /\ Handling(k, "reorder")
  /\ \/ ~current /\ Answer(k, "refused")
     \/ current /\ ~valid /\ Answer(k, "failed")
     \/ current /\ valid /\ SaveFails(k)
     \/ /\ current /\ valid
        /\ IF server.order = calls[k].order
           THEN Commit(k, server)
           ELSE Commit(k, Advance([server EXCEPT !.order = calls[k].order], {}, {}, TRUE))

(* Mutant: the queue is not looked at. *)
PublishUnbounded(k) ==
  /\ k \in DOMAIN calls /\ calls[k].phase = "unlocked"
  /\ calls' = [calls EXCEPT ![k].phase = "answered"]
  /\ queue' = [b \in Browsers |->
                 IF socket[b].registered THEN Append(queue[b], Event(calls[k].reply)) ELSE <<>>]
  /\ UNCHANGED <<serverVars, lists, socket, browserVars>>

(* Mutant: a full queue loses the message and keeps its client. *)
PublishOrDrop(k) ==
  /\ k \in DOMAIN calls /\ calls[k].phase = "unlocked"
  /\ calls' = [calls EXCEPT ![k].phase = "answered"]
  /\ queue' = [b \in Browsers |->
                 IF socket[b].registered /\ Len(queue[b]) < QueueSize
                 THEN Append(queue[b], Event(calls[k].reply)) ELSE queue[b]]
  /\ UNCHANGED <<serverVars, lists, socket, browserVars>>

(* publishResourceChanged after the unlock, through the hub: a client whose    *)
(* queue is full is removed and its socket closed.  A page whose socket is open  *)
(* but not registered is not told.                                            *)
PublishChange(k) ==
  LET event == Event(calls[k].reply)
      full == {b \in Browsers : socket[b].registered /\ Len(queue[b]) = QueueSize}
      early == {b \in Browsers : socket[b].opened /\ ~socket[b].registered} IN
  /\ k \in DOMAIN calls /\ calls[k].phase = "unlocked"
  /\ calls' = [calls EXCEPT ![k].phase = "answered"]
  /\ socket' = [b \in Browsers |->
                  IF b \in full THEN NoSocket
                  ELSE IF b \in early THEN [socket[b] EXCEPT !.untold = @ \cup {event}]
                  ELSE socket[b]]
  /\ queue' = [b \in Browsers |->
                 IF b \in full \/ ~socket[b].registered THEN <<>> ELSE Append(queue[b], event)]
  /\ UNCHANGED <<serverVars, lists, browserVars>>

(* ListProfiles: the file and the revisions under one lock. *)
ListProfiles(b, n) ==
  /\ up /\ n \in DOMAIN lists[b] /\ lists[b][n].reply = Nothing /\ ~lists[b][n].lost
  /\ lists' = [lists EXCEPT ![b][n].reply = server]
  /\ UNCHANGED <<serverVars, calls, socket, queue, browserVars>>

(* The server dies: what it was handling is lost, replies already sent are    *)
(* not, and every websocket closes.                                           *)
Crash ==
  /\ up /\ MayAct
  /\ up' = FALSE
  /\ calls' = [k \in DOMAIN calls |->
                 IF calls[k].phase \in {"sent", "unlocked"}
                 THEN [calls[k] EXCEPT !.phase = "answered", !.outcome = "failed",
                                       !.reply = Nothing]
                 ELSE calls[k]]
  /\ lists' = [b \in Browsers |-> [n \in DOMAIN lists[b] |->
                 [lists[b][n] EXCEPT !.lost = lists[b][n].reply = Nothing]]]
  /\ socket' = [b \in Browsers |-> NoSocket]
  /\ queue' = [b \in Browsers |-> <<>>]
  /\ UNCHANGED <<server, browserVars>>

(* A new process starts a new coordinator.  It takes longer to come up than a  *)
(* page takes to fire a 50 ms timer and to see its synchronization answered    *)
(* or failed; replies to other calls may be later still.                      *)
Boot ==
  /\ ~up
  /\ \A b \in Browsers : pending[b] = Nothing /\ sync[b] = Nothing
  /\ up' = TRUE
  /\ server' = FreshRevisions(server, server.instance + 1)
  /\ UNCHANGED <<calls, lists, socket, queue, browserVars>>

-----------------------------------------------------------------------------
(* The users.  A form keeps the revision of the item it was opened on, a drag *)
(* the revision of the order it started from; base is what the user saw.      *)

NewCall(b, op) ==
  [by |-> b, op |-> op, id |-> Nothing, expected |-> Nothing, base |-> Absent,
   new |-> Absent, from |-> <<>>, order |-> <<>>, blind |-> passedOver[b],
   phase |-> "sent", outcome |-> "none", reply |-> Nothing]

Make(call) ==
  /\ up /\ MayAct
  /\ calls' = Append(calls, call)
  /\ UNCHANGED <<serverVars, lists, socket, queue, view, pending, sync, passedOver>>

ExpectedItem(b, id) == [instance |-> view[b].instance, revision |-> view[b].items[id]]

Form(b, id) == [id |-> id, expected |-> ExpectedItem(b, id), base |-> view[b].content[id]]

OpenForm(b, id) ==
  /\ b \in Followed /\ draft[b] = Nothing /\ id \in Present(view[b]) /\ MayAct
  /\ draft' = [draft EXCEPT ![b] = Form(b, id)]
  /\ UNCHANGED <<serverVars, calls, lists, socket, queue, view, pending, sync, passedOver>>

(* The form is saved, with a change or without one.  A page that is not        *)
(* followed is itself as old as a form would be.                              *)
EditProfile(b) ==
  \E form \in IF b \in Followed THEN {draft[b]} \ {Nothing} ELSE {Form(b, id) : id \in Present(view[b])} :
    /\ \E new \in {form.base, Len(calls) + 1} :
         Make([NewCall(b, "update") EXCEPT !.id = form.id, !.expected = form.expected,
                                           !.base = form.base, !.new = new])
    /\ draft' = [draft EXCEPT ![b] = Nothing]

RemoveProfile(b, id) ==
  /\ id \in Present(view[b])
  /\ Make([NewCall(b, "delete") EXCEPT !.id = id, !.expected = ExpectedItem(b, id),
                                       !.base = view[b].content[id], !.new = Absent])
  /\ UNCHANGED draft

AddProfile(b, id) ==
  /\ id \notin Present(view[b])
  /\ Make([NewCall(b, "create") EXCEPT !.id = id, !.base = Absent, !.new = Len(calls) + 1])
  /\ UNCHANGED draft

SaveProfilesOrder(b) ==
  /\ \E order \in Orders :
       /\ order # view[b].order
       /\ Len(order) = Len(view[b].order)
       /\ \A id \in Present(view[b]) : \E n \in DOMAIN order : order[n] = id
       /\ Make([NewCall(b, "reorder") EXCEPT
                  !.expected = [instance |-> view[b].instance, revision |-> view[b].orderRev],
                  !.from = view[b].order, !.order = order])
  /\ UNCHANGED draft

-----------------------------------------------------------------------------
(* The browser's store and its synchronization. *)

(* A list call that finds no server fails. *)
ListCall(by) == [by |-> by, reply |-> Nothing, lost |-> ~up, overtaken |-> FALSE]
SendList(b, by) == lists' = [lists EXCEPT ![b] = Append(@, ListCall(by))]

(* Mutant: a list as old as the event does not count. *)
AppliedLater(v, e) == v.instance = e.instance /\ v.state > e.state

(* eventRevisionApplied *)
Applied(v, e) == v.instance = e.instance /\ v.state >= e.state

(* scheduleResourceRefresh for each of the events: the timer keeps the newest.  *)
(* Events of two instances do not meet here, by the guard of Boot.             *)
Scheduled(b, v, events) ==
  LET unseen == {e \in events : ~Applied(v, e)}
      rivals == unseen \cup ({pending[b]} \ {Nothing}) IN
  IF unseen = {} THEN {pending[b]}
  ELSE {e \in rivals : \A f \in rivals : f.instance = e.instance => f.state <= e.state}

(* syncConfigStores: joins the synchronization that runs, or starts one. *)
Synchronize(b, events) ==
  IF sync[b] # Nothing
  THEN /\ sync' = [sync EXCEPT ![b].again = TRUE, ![b].waiting = @ \cup events]
       /\ UNCHANGED lists
  ELSE /\ sync' = [sync EXCEPT ![b] = [again |-> FALSE, waiting |-> events]]
       /\ SendList(b, "sync")

(* A page that has lost its socket opens another.  Once the upgrade is through,  *)
(* the page sees it open, and refreshes everything; and the hub registers it,   *)
(* in any order.                                                              *)
Open(b) ==
  /\ up /\ b \in Followed /\ ~socket[b].opened
  /\ socket' = [socket EXCEPT ![b].opened = TRUE]
  /\ Synchronize(b, {})
  /\ UNCHANGED <<serverVars, calls, queue, view, draft, pending, passedOver>>

AddClient(b) ==
  /\ up /\ b \in Followed /\ ~socket[b].registered
  /\ socket' = [socket EXCEPT ![b].registered = TRUE]
  /\ UNCHANGED <<serverVars, calls, lists, queue, browserVars>>

OnResourceChanged(b) ==
  /\ socket[b].opened /\ queue[b] # <<>>
  /\ queue' = [queue EXCEPT ![b] = Tail(@)]
  /\ \E e \in Scheduled(b, view[b], {Head(queue[b])}) : pending' = [pending EXCEPT ![b] = e]
  /\ UNCHANGED <<serverVars, calls, lists, socket, view, draft, sync, passedOver>>

RefreshTimer(b) ==
  /\ pending[b] # Nothing
  /\ pending' = [pending EXCEPT ![b] = Nothing]
  /\ IF Applied(view[b], pending[b]) THEN UNCHANGED <<lists, sync>>
     ELSE Synchronize(b, {pending[b]})
  /\ UNCHANGED <<serverVars, calls, socket, queue, view, draft, passedOver>>

(* applyResourceSnapshot, after setupProfiles has dropped the reply of another *)
(* instance that a later request has overtaken.                               *)
TakesSnapshot(b, call) ==
  /\ call.reply # Nothing
  /\ IF call.reply.instance = view[b].instance THEN call.reply.state >= view[b].state
     ELSE ~call.overtaken

(* What is left of b's list calls when number n has got its reply. *)
LeftAfter(b, n) ==
  LET taken == TakesSnapshot(b, lists[b][n]) IN
  [m \in 1 .. Len(lists[b]) - 1 |->
     IF m < n THEN [lists[b][m] EXCEPT !.overtaken = @ \/ taken] ELSE lists[b][m + 1]]

(* The end of a round of drainConfigSync: another one if domains were added,   *)
(* else the events that were waited for are looked at again, unless it failed. *)
Drain(b, n, shown) ==
  LET s == sync[b] IN
  IF s.again
  THEN /\ sync' = [sync EXCEPT ![b].again = FALSE]
       /\ lists' = [lists EXCEPT ![b] = Append(LeftAfter(b, n), ListCall("sync"))]
       /\ UNCHANGED pending
  ELSE /\ sync' = [sync EXCEPT ![b] = Nothing]
       /\ lists' = [lists EXCEPT ![b] = LeftAfter(b, n)]
       /\ \E e \in Scheduled(b, shown, IF lists[b][n].lost THEN {} ELSE s.waiting) :
            pending' = [pending EXCEPT ![b] = e]

ReceiveList(b, n) ==
  LET call == lists[b][n]
      shown == IF TakesSnapshot(b, call) THEN call.reply ELSE view[b] IN
  /\ n \in DOMAIN lists[b] /\ (call.lost \/ call.reply # Nothing)
  /\ view' = [view EXCEPT ![b] = shown]
  /\ passedOver' = [passedOver EXCEPT ![b] = @ /\ ~TakesSnapshot(b, call)]
  /\ IF call.by = "sync" THEN Drain(b, n, shown)
     ELSE lists' = [lists EXCEPT ![b] = LeftAfter(b, n)] /\ UNCHANGED <<sync, pending>>
  /\ UNCHANGED <<serverVars, calls, socket, queue, draft>>

(* applyMutationState and the update of the one item, or of the order. *)
WithItem(v, call) ==
  LET id == call.id IN
  [v EXCEPT !.items[id] = call.reply.items[id],
            !.content[id] = call.new,
            !.order = IF call.op = "delete" THEN Without(@, id)
                      ELSE IF id \in Present(v) THEN @ ELSE Append(@, id)]

(* Of a new order, the ids that the page has, each at the place that those     *)
(* before it leave it.                                                        *)
Ordered(v, order) ==
  LET kept == {n \in DOMAIN order : order[n] \in Present(v)}
      place == [n \in kept |-> Cardinality({m \in kept : m <= n})] IN
  [p \in 1 .. Cardinality(kept) |-> order[CHOOSE n \in kept : place[n] = p]]
OrdersAll(v, order) == Len(Ordered(v, order)) = Len(v.order)

Shown(v, call) ==
  LET moved == [v EXCEPT !.state = call.reply.state, !.orderRev = call.reply.orderRev] IN
  IF call.op # "reorder" THEN WithItem(moved, call)
  ELSE IF OrdersAll(v, call.order) THEN [moved EXCEPT !.order = Ordered(v, call.order)]
  ELSE moved

(* Of a call that is done, the edit it asked for is kept. *)
Finish(k) ==
  calls' = [calls EXCEPT ![k] = [@ EXCEPT
              !.phase = "done", !.outcome = "none", !.reply = Nothing, !.blind = FALSE,
              !.expected = Nothing, !.from = <<>>, !.order = <<>>]]

(* A page that is not followed is reloaded by its user now and then, before a   *)
(* call that may yet be made, and takes no notice of replies.                 *)
Reload(b) ==
  /\ up /\ b \in Browsers \ Followed /\ view[b] # server /\ MayAct
  /\ view' = [view EXCEPT ![b] = server]
  /\ UNCHANGED <<serverVars, calls, lists, socket, queue, draft, pending, sync, passedOver>>

Ignore(k) ==
  /\ k \in DOMAIN calls /\ calls[k].phase = "answered" /\ calls[k].by \notin Followed
  /\ Finish(k)
  /\ UNCHANGED <<serverVars, lists, socket, queue, browserVars>>

(* The reply of a call that succeeded is taken. *)
ReceiveReply(k) ==
  LET call == calls[k]
      b == call.by
      own == IF call.outcome = "changed" THEN 1 ELSE 0 IN
  /\ k \in DOMAIN calls /\ b \in Followed /\ call.phase = "answered" /\ call.outcome \in {"changed", "unchanged"}
  /\ call.reply.instance = view[b].instance /\ call.reply.state >= view[b].state
  /\ view' = [view EXCEPT ![b] = Shown(@, call)]
  /\ passedOver' = [passedOver EXCEPT ![b] = @ \/ call.reply.state > view[b].state + own]
  /\ IF call.op = "reorder" /\ ~OrdersAll(view[b], call.order)
     THEN SendList(b, "form") ELSE UNCHANGED lists
  /\ Finish(k)
  /\ UNCHANGED <<serverVars, socket, queue, draft, pending, sync>>

(* It is older than what is shown, or from another instance: the list is then  *)
(* fetched.                                                                   *)
DropReply(k) ==
  LET call == calls[k]
      b == call.by IN
  /\ k \in DOMAIN calls /\ b \in Followed /\ call.phase = "answered" /\ call.outcome \in {"changed", "unchanged"}
  /\ \/ call.reply.instance # view[b].instance /\ SendList(b, "form")
     \/ /\ call.reply.instance = view[b].instance /\ call.reply.state < view[b].state
        /\ UNCHANGED lists
  /\ Finish(k)
  /\ UNCHANGED <<serverVars, socket, queue, browserVars>>

(* After a conflict the list is fetched; after any error of a reorder, too. *)
ReceiveError(k) ==
  LET call == calls[k] IN
  /\ k \in DOMAIN calls /\ call.by \in Followed /\ call.phase = "answered" /\ call.outcome \in {"refused", "failed"}
  /\ IF call.outcome = "refused" \/ call.op = "reorder"
     THEN SendList(call.by, "form") ELSE UNCHANGED lists
  /\ Finish(k)
  /\ UNCHANGED <<serverVars, socket, queue, browserVars>>

-----------------------------------------------------------------------------
FirstOrder == CHOOSE order \in Orders : {order[n] : n \in DOMAIN order} = FirstIds

ResourcesInit ==
  /\ server = FreshRevisions([instance |-> 0, state |-> 0, orderRev |-> 0,
                 items |-> [i \in Ids |-> 0], order |-> FirstOrder,
                 content |-> [i \in Ids |-> IF i \in FirstIds THEN FirstVersion ELSE Absent]], 1)
  /\ up = TRUE
  /\ calls = <<>>
  /\ lists = [b \in Browsers |-> <<>>]
  /\ socket = [b \in Browsers |-> IF b \in Followed THEN LiveSocket ELSE NoSocket]
  /\ queue = [b \in Browsers |-> <<>>]
  /\ view = [b \in Browsers |-> server]
  /\ draft = [b \in Browsers |-> Nothing]
  /\ pending = [b \in Browsers |-> Nothing]
  /\ sync = [b \in Browsers |-> Nothing]
  /\ passedOver = [b \in Browsers |-> FALSE]

Serve(k) ==
  \/ CreateProfile(k) \/ UpdateProfile(k) \/ DeleteProfile(k) \/ ReorderProfiles(k)
  \/ PublishChange(k)

Receive(k) == ReceiveReply(k) \/ DropReply(k) \/ ReceiveError(k) \/ Ignore(k)

Use(b) ==
  \/ \E id \in Ids : OpenForm(b, id) \/ RemoveProfile(b, id) \/ AddProfile(b, id)
  \/ EditProfile(b)
  \/ SaveProfilesOrder(b)

Refresh(b) ==
  \/ Reload(b) \/ Open(b) \/ AddClient(b) \/ OnResourceChanged(b) \/ RefreshTimer(b)
  \/ \E n \in DOMAIN lists[b] : ListProfiles(b, n) \/ ReceiveList(b, n)

ResourcesNext ==
  \/ \E k \in DOMAIN calls : Serve(k) \/ Receive(k)
  \/ \E b \in Browsers : Use(b) \/ Refresh(b)
  \/ Crash
  \/ Boot

ResourcesSpec == ResourcesInit /\ [][ResourcesNext]_resourcesVars

-----------------------------------------------------------------------------
(* Properties *)

Revisions == [instance: Nat, revision: Nat]

Lists ==
  [instance: Nat, state: Nat, orderRev: Nat, items: [Ids -> Nat],
   order: Orders, content: [Ids -> Versions \cup {Absent}]]

Calls ==
  [by: Browsers, op: {"create", "update", "delete", "reorder"}, id: Ids \cup {Nothing},
   expected: Revisions \cup {Nothing}, base: Versions \cup {Absent},
   new: Versions \cup {Absent}, from: Orders, order: Orders, blind: BOOLEAN,
   phase: {"sent", "unlocked", "answered", "done"},
   outcome: {"none", "changed", "unchanged", "refused", "failed"}, reply: Lists \cup {Nothing}]

(* The values every variable keeps to; a queue never outgrows the hub's. *)
ResourcesTypeOK ==
  /\ server \in Lists
  /\ up \in BOOLEAN
  /\ calls \in Seq(Calls)
  /\ \A b \in Browsers : lists[b] \in Seq([by: {"sync", "form"}, reply: Lists \cup {Nothing},
                                           lost: BOOLEAN, overtaken: BOOLEAN])
  /\ socket \in [Browsers -> Sockets]
  /\ \A b \in Browsers : queue[b] \in Seq(Events) /\ Len(queue[b]) <= QueueSize
  /\ view \in [Browsers -> Lists]
  /\ draft \in [Browsers -> [id: Ids, expected: Revisions, base: Versions] \cup {Nothing}]
  /\ pending \in [Browsers -> Events \cup {Nothing}]
  /\ sync \in [Browsers -> Syncs \cup {Nothing}]
  /\ passedOver \in [Browsers -> BOOLEAN]

(* Whoever holds the current revision of an item holds its current content:    *)
(* the pages, the open forms and the calls on their way, whatever replies and  *)
(* lists overtook one another.  CheckItem rests on nothing else.               *)
RevisionNamesContent ==
  LET honest(expected, id, base) ==
        Matches(expected, server.items[id]) => base = server.content[id] IN
  /\ \A b \in Browsers : \A id \in Present(view[b]) :
       honest(ExpectedItem(b, id), id, view[b].content[id])
  /\ \A b \in Browsers : draft[b] # Nothing =>
       honest(draft[b].expected, draft[b].id, draft[b].base)
  /\ \A k \in DOMAIN calls : calls[k].phase = "sent" /\ calls[k].op \in {"update", "delete"} =>
       honest(calls[k].expected, calls[k].id, calls[k].base)

(* Nobody overwrites, removes or doubles what he has not seen: the service      *)
(* implements the documents of Documents.tla, whatever crashes in between.      *)
Editing == {"create", "update", "delete"}
DocumentCalls == {k \in DOMAIN calls : calls[k].op \in Editing}
Asked == [k \in DocumentCalls |->
            [id |-> calls[k].id, base |-> calls[k].base, new |-> calls[k].new]]
Unanswered == {k \in DocumentCalls : calls[k].phase = "sent"}
Docs == INSTANCE Documents WITH held <- server.content, asked <- Asked, open <- Unanswered
ImplementsDocuments == Docs!DocumentsSpec

(* A reorder that is accepted, be it without effect, replaces the order that    *)
(* its user saw, unless his page had been moved past a change it was not shown. *)
ReordersAreInformed ==
  [][\A k \in DOMAIN calls :
       /\ calls[k].op = "reorder" /\ calls[k].phase = "sent" /\ ~calls[k].blind
       /\ calls'[k].outcome \in {"changed", "unchanged"}
       => calls[k].from = server.order]_resourcesVars

(* Nothing is on its way to browser b. *)
Quiet(b) ==
  /\ socket[b].opened /\ socket[b].registered /\ up
  /\ queue[b] = <<>> /\ pending[b] = Nothing /\ sync[b] = Nothing /\ lists[b] = <<>>
  /\ \A k \in DOMAIN calls : calls[k].by = b => calls[k].phase = "done"
  /\ \A k \in DOMAIN calls : calls[k].phase # "unlocked"

(* A page at which nothing arrives any more shows the list as it is, and with  *)
(* the revisions its next calls need: whatever was lost with a full queue or a *)
(* dead server has been fetched again.  Except for a page whose own reply moved *)
(* it past another's change, and one that is behind a change of which the hub   *)
(* did not tell it, because it had not registered its open socket: they stay    *)
(* behind until the next change.                                              *)
QuietIsCurrent ==
  \A b \in Followed :
    /\ Quiet(b) /\ ~passedOver[b]
    /\ \A e \in socket[b].untold : Applied(view[b], e)
    => view[b] = server

(* The refreshing comes to an end: events, timers and synchronizations do not   *)
(* keep one another going.                                                     *)
Settles == \A b \in Followed : []<>Quiet(b)
=============================================================================
