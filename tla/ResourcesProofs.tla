-------------------------- MODULE ResourcesProofs --------------------------
(***************************************************************************)
(* Proofs about Resources, for any items, browsers and number of calls: a     *)
(* revision names one content, the services and their pages implement         *)
(* Documents, a reorder replaces the order that its user saw, and a page that *)
(* nothing is on its way to shows the list as it is.  And the types.         *)
(*                                                                         *)
(* ItemInv is about items: whatever a call, a draft, a reply or a list on its *)
(* way tells of the revision of an item is true of one content (KnownAs).     *)
(* ServeDoes says once what the server does with a call.  OrderInv is about the  *)
(* order, whose revision comes apart from the revisions of the items: all     *)
(* that is told of it (Told) is of the same history (Agree), and each change  *)
(* leads from one thing told to the next (Leads).  QuietInv is about what is   *)
(* on its way to a page that is followed: until the last change is shown, an   *)
(* event or a list of it is somewhere (Coming), and nothing of a server that   *)
(* died can hide it (OnItsWay, InOrder, OneSync).                            *)
(* What all that is told keeps to, OrderInv has said; TypesInv is the rest of  *)
(* the types, with IdleInv for the pages that are not followed.             *)
(***************************************************************************)
EXTENDS Resources, SequenceTheorems, FiniteSetTheorems, TLAPS

-----------------------------------------------------------------------------
(* What is known of items. *)

Contents == Versions \cup {Absent}

(* s is a list of resources, whatever its order is. *)
ListLike(s) ==
  s \in [instance: Nat, state: Nat, orderRev: {s.orderRev}, items: [Ids -> Nat],
         order: {s.order}, content: [Ids -> Contents]]

(* Each item of the file has a revision, none newer than the state's. *)
Sound(s) ==
  /\ ListLike(s) /\ s.instance >= 1
  /\ \A id \in Present(s) : s.items[id] \in 1 .. s.state

(* Revision r of item id, given by instance i, was given to content c: with s at
   the server, it is current for no other content. *)
KnownAs(s, i, r, id, c) ==
  /\ i \in Nat /\ r \in Nat
  /\ i <= s.instance /\ 1 <= r
  /\ i = s.instance => r <= s.state /\ (r = s.items[id] => c = s.content[id])

(* What a list that was read some time ago says of its items. *)
Copy(s, list) ==
  /\ ListLike(list)
  /\ \A id \in Present(list) : KnownAs(s, list.instance, list.items[id], id, list.content[id])

Succeeded == {"changed", "unchanged"}

CallLike(c) ==
  c \in [by: {c.by}, op: {"create", "update", "delete", "reorder"}, id: {c.id},
         expected: {c.expected}, base: Contents, new: Contents, from: {c.from},
         order: {c.order}, blind: {c.blind},
         phase: {"sent", "unlocked", "answered", "done"},
         outcome: {"none", "changed", "unchanged", "refused", "failed"}, reply: {c.reply}]

(* A call that waits knows what its revision names; a reply shows the content that
   was asked for. *)
CallKnows(s, c) ==
  /\ CallLike(c)
  /\ c.op \in Editing => c.id \in Ids
  /\ c.op = "create" => c.base = Absent /\ c.new # Absent
  /\ c.op = "update" => c.new # Absent
  /\ c.op = "delete" => c.new = Absent
  /\ c.phase = "sent" /\ c.op \in {"update", "delete"} =>
       KnownAs(s, c.expected.instance, c.expected.revision, c.id, c.base)
  /\ c.outcome \in Succeeded =>
       /\ Copy(s, c.reply)
       /\ c.op \in Editing => c.reply.content[c.id] = c.new
  /\ c.phase = "sent" => c.outcome = "none"

DraftKnows(s, d) ==
  /\ d.id \in Ids /\ d.base \in Contents /\ d.base # Absent
  /\ KnownAs(s, d.expected.instance, d.expected.revision, d.id, d.base)

ListKnows(s, c) ==
  /\ c = [by |-> c.by, reply |-> c.reply, lost |-> c.lost, overtaken |-> c.overtaken]
  /\ c.reply # Nothing => Copy(s, c.reply)

IsSeq(s) == s \in Seq({s[n] : n \in DOMAIN s})
PerBrowser(f) == f = [b \in Browsers |-> f[b]]
TypedSockets(f) == f \in [Browsers -> Sockets]

CallsKnow(s, cs) == IsSeq(cs) /\ \A k \in DOMAIN cs : CallKnows(s, cs[k])
ListsKnow(s, l) == IsSeq(l) /\ \A n \in DOMAIN l : ListKnows(s, l[n])

ItemInv ==
  /\ Sound(server)
  /\ PerBrowser(view) /\ \A b \in Browsers : Copy(server, view[b])
  /\ PerBrowser(draft) /\ \A b \in Browsers : draft[b] = Nothing \/ DraftKnows(server, draft[b])
  /\ PerBrowser(lists) /\ \A b \in Browsers : ListsKnow(server, lists[b])
  /\ CallsKnow(server, calls)

-----------------------------------------------------------------------------
(* Sequences. *)

LEMMA IsASequence ==
  ASSUME NEW S, NEW n \in Nat, NEW s \in [1 .. n -> S]
  PROVE  IsSeq(s) /\ Len(s) = n /\ DOMAIN s = 1 .. n
  BY DEF IsSeq

LEMMA SequenceFacts ==
  ASSUME NEW s, IsSeq(s)
  PROVE  /\ Len(s) \in Nat /\ DOMAIN s = 1 .. Len(s)
         /\ s = [n \in 1 .. Len(s) |-> s[n]]
  BY DEF IsSeq

LEMMA Appended ==
  ASSUME NEW s, IsSeq(s), NEW e
  PROVE  /\ IsSeq(Append(s, e))
         /\ Len(Append(s, e)) = Len(s) + 1
         /\ DOMAIN Append(s, e) = 1 .. Len(s) + 1
         /\ \A n \in 1 .. Len(s) : Append(s, e)[n] = s[n]
         /\ Append(s, e)[Len(s) + 1] = e
<1> DEFINE S == {s[n] : n \in DOMAIN s} \cup {e}
<1>1. s \in Seq(S) /\ e \in S
  BY DEF IsSeq
<1>2. Append(s, e) \in Seq(S) /\ Len(Append(s, e)) = Len(s) + 1
  BY <1>1
<1>3. Append(s, e) \in [1 .. Len(s) + 1 -> S] /\ Len(s) + 1 \in Nat
  <2>1. \A q \in Seq(S) : q \in [1 .. Len(q) -> S] /\ Len(q) \in Nat
    OBVIOUS
  <2> QED BY <1>1, <1>2, <2>1
<1>4. IsSeq(Append(s, e)) /\ DOMAIN Append(s, e) = 1 .. Len(s) + 1
  BY <1>3, IsASequence
<1> QED BY <1>1, <1>2, <1>4

LEMMA Replaced ==
  ASSUME NEW s, IsSeq(s), NEW k \in DOMAIN s, NEW e
  PROVE  LET t == [s EXCEPT ![k] = e] IN
         /\ IsSeq(t) /\ DOMAIN t = DOMAIN s /\ t[k] = e
         /\ \A n \in DOMAIN s : n # k => t[n] = s[n]
<1> DEFINE S == {s[n] : n \in DOMAIN s} \cup {e}
           t == [s EXCEPT ![k] = e]
<1>1. Len(s) \in Nat /\ DOMAIN s = 1 .. Len(s)
  BY SequenceFacts
<1>2. t \in [1 .. Len(s) -> S]
  BY <1>1
<1> QED BY <1>1, <1>2, IsASequence

-----------------------------------------------------------------------------
(* How the server's list changes. *)

(* A change gives the items that it touches the next revision or none. *)
Advances(s, t) ==
  /\ t.instance = s.instance /\ t.state = s.state + 1
  /\ \A id \in Ids : \/ t.items[id] = s.items[id] /\ t.content[id] = s.content[id]
                     \/ t.items[id] = s.state + 1 \/ t.items[id] = 0
Follows(s, t) ==
  /\ Sound(t)
  /\ \/ t = s
     \/ Advances(s, t)
     \/ t.instance = s.instance + 1

LEMMA KnownStays ==
  ASSUME NEW s, NEW t, Sound(s), Follows(s, t),
         NEW i, NEW r, NEW id \in Ids, NEW c, KnownAs(s, i, r, id, c)
  PROVE  KnownAs(t, i, r, id, c)
  BY DEF Sound, ListLike, Follows, Advances, KnownAs

LEMMA CopyStays ==
  ASSUME NEW s, NEW t, Sound(s), Follows(s, t), NEW list, Copy(s, list)
  PROVE  Copy(t, list)
  BY KnownStays DEF Copy, Present

LEMMA DraftStays ==
  ASSUME NEW s, NEW t, Sound(s), Follows(s, t), NEW d, DraftKnows(s, d)
  PROVE  DraftKnows(t, d)
  BY KnownStays DEF DraftKnows

LEMMA CallStays ==
  ASSUME NEW s, NEW t, Sound(s), Follows(s, t), NEW c, CallKnows(s, c)
  PROVE  CallKnows(t, c)
<1>1. c.outcome \in Succeeded => Copy(t, c.reply)
  BY CopyStays DEF CallKnows
<1>2. c.phase = "sent" /\ c.op \in {"update", "delete"} =>
        KnownAs(t, c.expected.instance, c.expected.revision, c.id, c.base)
  BY KnownStays DEF CallKnows, Editing
<1> QED BY <1>1, <1>2 DEF CallKnows

LEMMA ListStays ==
  ASSUME NEW s, NEW t, Sound(s), Follows(s, t), NEW c, ListKnows(s, c)
  PROVE  ListKnows(t, c)
  BY CopyStays DEF ListKnows

LEMMA CopyOfItself ==
  ASSUME NEW s, Sound(s)
  PROVE  Copy(s, s)
  BY DEF Sound, Copy, KnownAs, ListLike, Present

LEMMA VersionsAre ==
  /\ Absent \in Nat /\ Contents = 0 .. MaxCalls + 1 /\ Versions = Contents \ {Absent}
  /\ FirstVersion \in Versions /\ Absent \in Contents
  BY ResourcesAssumption DEF Absent, Contents, Versions, FirstVersion

LEMMA NewRevisions ==
  ASSUME NEW e, ListLike(e), NEW i \in Nat, NEW n \in Nat, NEW items \in [Ids -> Nat],
         NEW o
  PROVE  /\ ListLike([e EXCEPT !.state = n, !.items = items, !.orderRev = o])
         /\ ListLike([e EXCEPT !.instance = i, !.state = n, !.orderRev = o, !.items = items])
  BY DEF ListLike

(* t is e with its next revisions. *)
NextOf(e, t, changed, removed) ==
  /\ t.instance = e.instance /\ t.state = e.state + 1
  /\ t.content = e.content /\ t.order = e.order
  /\ t.items = [i \in Ids |-> IF i \in removed THEN 0
                             ELSE IF i \in changed THEN e.state + 1 ELSE e.items[i]]
  /\ ListLike(t)

LEMMA AdvanceShows ==
  ASSUME NEW e, ListLike(e), NEW changed, NEW removed, NEW reordered
  PROVE  NextOf(e, Advance(e, changed, removed, reordered), changed, removed)
<1> DEFINE t == Advance(e, changed, removed, reordered)
           items == [i \in Ids |-> IF i \in removed THEN 0
                                  ELSE IF i \in changed THEN e.state + 1 ELSE e.items[i]]
<1>1. t.items = items
  BY DEF ListLike, Advance
<1>2. items \in [Ids -> Nat] /\ e.state + 1 \in Nat
  BY DEF ListLike
<1>3. ListLike(t)
  BY <1>2, NewRevisions, 0 \in Nat DEF Advance
<1>4. /\ t.instance = e.instance /\ t.state = e.state + 1
      /\ t.content = e.content /\ t.order = e.order
  BY DEF ListLike, Advance
<1> QED BY <1>1, <1>3, <1>4 DEF NextOf

LEMMA AdvanceOrderRev ==
  ASSUME NEW e, ListLike(e), NEW changed, NEW removed
  PROVE  /\ Advance(e, changed, removed, TRUE).orderRev = e.state + 1
         /\ Advance(e, changed, removed, FALSE).orderRev = e.orderRev
  BY DEF ListLike, Advance

(* The list after a change of one item, and perhaps of the order. *)
LEMMA Edited ==
  ASSUME NEW s, Sound(s), NEW id \in Ids, NEW c \in Contents, NEW e,
         e.content = [s.content EXCEPT ![id] = c],
         e.instance = s.instance, e.state = s.state, e.items = s.items,
         NEW t, NEW changed, NEW removed, NextOf(e, t, changed, removed),
         \/ c = Absent /\ changed = {} /\ removed = {id}
         \/ c # Absent /\ changed = {id} /\ removed = {}
  PROVE  Follows(s, t) /\ t.content = [s.content EXCEPT ![id] = c]
<1>1. /\ t.instance = s.instance /\ t.state = s.state + 1 /\ t.content = e.content
      /\ t.items = [i \in Ids |-> IF i \in removed THEN 0
                                 ELSE IF i \in changed THEN s.state + 1 ELSE s.items[i]]
      /\ ListLike(t)
  BY DEF NextOf
<1>2. Sound(t)
  BY <1>1 DEF Sound, ListLike, Present
<1>3. Advances(s, t)
  BY <1>1 DEF Advances, Sound, ListLike
<1> QED BY <1>1, <1>2, <1>3 DEF Follows

LEMMA Reordered ==
  ASSUME NEW s, Sound(s), NEW e,
         e.content = s.content, e.instance = s.instance, e.state = s.state,
         e.items = s.items, NEW t, NextOf(e, t, {}, {})
  PROVE  Follows(s, t) /\ t.content = s.content
<1>1. /\ t.instance = s.instance /\ t.state = s.state + 1 /\ t.content = s.content
      /\ t.items = [i \in Ids |-> s.items[i]]
      /\ ListLike(t)
  BY DEF NextOf
<1>2. Sound(t)
  BY <1>1 DEF Sound, ListLike, Present
<1>3. Advances(s, t)
  BY <1>1 DEF Advances, Sound, ListLike
<1> QED BY <1>1, <1>2, <1>3 DEF Follows

LEMMA Fresh ==
  ASSUME NEW s, ListLike(s), NEW i \in Nat, i >= 1
  PROVE  LET t == FreshRevisions(s, i) IN
         /\ Sound(t) /\ t.instance = i /\ t.content = s.content
<1> DEFINE t == FreshRevisions(s, i)
           items == [j \in Ids |-> IF j \in Present(s) THEN 1 ELSE 0]
<1>1. ListLike(t)
  <2>1. items \in [Ids -> Nat]
    OBVIOUS
  <2> QED BY <2>1, NewRevisions DEF FreshRevisions
<1>2. /\ t.instance = i /\ t.content = s.content /\ t.items = items /\ t.state = 1
  BY DEF FreshRevisions, ListLike
<1> QED BY <1>1, <1>2 DEF Sound, ListLike, Present

-----------------------------------------------------------------------------
(* Calls. *)

LEMMA CallsStay ==
  ASSUME NEW s, NEW t, Sound(s), Follows(s, t), NEW cs, CallsKnow(s, cs)
  PROVE  CallsKnow(t, cs)
  BY CallStays DEF CallsKnow

LEMMA ListsStay ==
  ASSUME NEW s, NEW t, Sound(s), Follows(s, t), NEW l, ListsKnow(s, l)
  PROVE  ListsKnow(t, l)
  BY ListStays DEF ListsKnow

LEMMA CallsReplaced ==
  ASSUME NEW s, NEW cs, CallsKnow(s, cs), NEW k \in DOMAIN cs, NEW c, CallKnows(s, c)
  PROVE  CallsKnow(s, [cs EXCEPT ![k] = c])
  BY Replaced DEF CallsKnow

LEMMA CallsAppended ==
  ASSUME NEW s, NEW cs, CallsKnow(s, cs), NEW c, CallKnows(s, c)
  PROVE  CallsKnow(s, Append(cs, c))
<1>1. DOMAIN cs = 1 .. Len(cs) /\ Len(cs) \in Nat /\ IsSeq(cs)
  BY SequenceFacts DEF CallsKnow
<1> QED BY <1>1, Appended DEF CallsKnow

LEMMA ListsAppended ==
  ASSUME NEW s, NEW l, ListsKnow(s, l), NEW c, ListKnows(s, c)
  PROVE  ListsKnow(s, Append(l, c))
<1>1. DOMAIN l = 1 .. Len(l) /\ Len(l) \in Nat /\ IsSeq(l)
  BY SequenceFacts DEF ListsKnow
<1> QED BY <1>1, Appended DEF ListsKnow

(* A call that is answered, or whose change is committed. *)
LEMMA CallAnswered ==
  ASSUME NEW s, NEW cs, CallsKnow(s, cs), NEW k \in DOMAIN cs,
         NEW outcome \in {"refused", "failed"}
  PROVE  CallsKnow(s, [cs EXCEPT ![k].phase = "answered", ![k].outcome = outcome])
<1> DEFINE c == [cs[k] EXCEPT !.phase = "answered", !.outcome = outcome]
<1>1. CallKnows(s, cs[k])
  BY DEF CallsKnow
<1>2. CallKnows(s, c)
  BY <1>1 DEF CallKnows, CallLike, Succeeded
<1>3. [cs EXCEPT ![k].phase = "answered", ![k].outcome = outcome] = [cs EXCEPT ![k] = c]
  OBVIOUS
<1> QED BY <1>2, <1>3, CallsReplaced

LEMMA CallCommitted ==
  ASSUME NEW s, NEW cs, CallsKnow(s, cs), Sound(s), NEW k \in DOMAIN cs,
         cs[k].op \in Editing => s.content[cs[k].id] = cs[k].new,
         NEW phase \in {"unlocked", "answered"}, NEW outcome \in Succeeded
  PROVE  CallsKnow(s, [cs EXCEPT ![k].phase = phase, ![k].outcome = outcome, ![k].reply = s])
<1> DEFINE c == [cs[k] EXCEPT !.phase = phase, !.outcome = outcome, !.reply = s]
<1>1. CallKnows(s, cs[k])
  BY DEF CallsKnow
<1>2. Copy(s, s)
  BY CopyOfItself
<1>3. CallKnows(s, c)
  BY <1>1, <1>2 DEF CallKnows, CallLike, Succeeded
<1>4. [cs EXCEPT ![k].phase = phase, ![k].outcome = outcome, ![k].reply = s]
        = [cs EXCEPT ![k] = c]
  OBVIOUS
<1> QED BY <1>3, <1>4, CallsReplaced

LEMMA CallPublished ==
  ASSUME NEW s, NEW cs, CallsKnow(s, cs), NEW k \in DOMAIN cs
  PROVE  CallsKnow(s, [cs EXCEPT ![k].phase = "answered"])
<1> DEFINE c == [cs[k] EXCEPT !.phase = "answered"]
<1>1. CallKnows(s, cs[k])
  BY DEF CallsKnow
<1>2. CallKnows(s, c)
  BY <1>1 DEF CallKnows, CallLike
<1>3. [cs EXCEPT ![k].phase = "answered"] = [cs EXCEPT ![k] = c]
  OBVIOUS
<1> QED BY <1>2, <1>3, CallsReplaced

LEMMA CallFinished ==
  ASSUME NEW s, CallsKnow(s, calls), NEW k \in DOMAIN calls, Finish(k)
  PROVE  CallsKnow(s, calls')
<1> DEFINE c == [calls[k] EXCEPT
              !.phase = "done", !.outcome = "none", !.reply = Nothing, !.blind = FALSE,
              !.expected = Nothing, !.from = <<>>, !.order = <<>>]
<1>1. CallKnows(s, calls[k])
  BY DEF CallsKnow
<1>2. CallKnows(s, c)
  BY <1>1 DEF CallKnows, CallLike, Succeeded
<1>3. calls' = [calls EXCEPT ![k] = c]
  BY DEF Finish
<1> QED BY <1>2, <1>3, CallsReplaced

LEMMA Lost ==
  ASSUME NEW s, CallsKnow(s, calls), Crash
  PROVE  CallsKnow(s, calls')
<1> DEFINE lost(k) == IF calls[k].phase \in {"sent", "unlocked"}
                      THEN [calls[k] EXCEPT !.phase = "answered", !.outcome = "failed",
                                            !.reply = Nothing]
                      ELSE calls[k]
<1>1. Len(calls) \in Nat /\ DOMAIN calls = 1 .. Len(calls)
  BY SequenceFacts DEF CallsKnow
<1>2. ASSUME NEW k \in DOMAIN calls PROVE CallKnows(s, lost(k))
  <2>1. CallKnows(s, calls[k])
    BY DEF CallsKnow
  <2> DEFINE c == [calls[k] EXCEPT !.phase = "answered", !.outcome = "failed",
                                   !.reply = Nothing]
  <2>2. CallKnows(s, c)
    BY <2>1 DEF CallKnows, CallLike, Succeeded
  <2> QED BY <2>1, <2>2
<1>3. calls' = [k \in DOMAIN calls |-> lost(k)]
  BY DEF Crash
<1> DEFINE S == {lost(k) : k \in DOMAIN calls}
<1>4. calls' \in [1 .. Len(calls) -> S]
  BY <1>1, <1>3
<1> HIDE DEF lost
<1> QED BY <1>1, <1>2, <1>3, <1>4, IsASequence DEF CallsKnow

-----------------------------------------------------------------------------
(* The invariant, step by step. *)

LEMMA ItemInvInit == ResourcesInit => ItemInv
<1> SUFFICES ASSUME ResourcesInit PROVE ItemInv
  OBVIOUS
<1> DEFINE s == [instance |-> 0, state |-> 0, orderRev |-> 0,
                 items |-> [i \in Ids |-> 0], order |-> FirstOrder,
                 content |-> [i \in Ids |-> IF i \in FirstIds THEN FirstVersion ELSE Absent]]
<1>1. ListLike(s)
  <2>1. s.items \in [Ids -> Nat] /\ s.content \in [Ids -> Contents]
    BY VersionsAre
  <2> QED BY <2>1 DEF ListLike
<1>2. server = FreshRevisions(s, 1)
  BY DEF ResourcesInit
<1>3. Sound(server)
  BY <1>1, <1>2, Fresh
<1>4. Copy(server, server)
  BY <1>3, CopyOfItself
<1>5. IsSeq(<<>>) /\ DOMAIN <<>> = {}
  BY DEF IsSeq
<1>6. /\ view = [b \in Browsers |-> server] /\ draft = [b \in Browsers |-> Nothing]
      /\ lists = [b \in Browsers |-> <<>>] /\ calls = <<>>
  BY DEF ResourcesInit
<1> QED BY <1>3, <1>4, <1>5, <1>6 DEF ItemInv, PerBrowser, CallsKnow, ListsKnow

(* What a step of the server does to what others know. *)
LEMMA ServerMoves ==
  ASSUME ItemInv, Follows(server, server'), CallsKnow(server', calls'),
         UNCHANGED <<lists, view, draft>>
  PROVE  ItemInv'
<1>1. Sound(server) /\ Sound(server')
  BY DEF ItemInv, Follows
<1>2. \A b \in Browsers : Copy(server', view[b])
  BY <1>1, CopyStays DEF ItemInv
<1>3. \A b \in Browsers : draft[b] = Nothing \/ DraftKnows(server', draft[b])
  BY <1>1, DraftStays DEF ItemInv
<1>4. \A b \in Browsers : ListsKnow(server', lists[b])
  BY <1>1, ListsStay DEF ItemInv
<1> QED BY <1>1, <1>2, <1>3, <1>4 DEF ItemInv, PerBrowser

(* A step of a page. *)
LEMMA PageMoves ==
  ASSUME ItemInv, server' = server, NEW b \in Browsers,
         CallsKnow(server, calls'),
         \/ view' = view
         \/ \E v : view' = [view EXCEPT ![b] = v] /\ Copy(server, v),
         \/ draft' = draft
         \/ \E d : draft' = [draft EXCEPT ![b] = d] /\ (d = Nothing \/ DraftKnows(server, d)),
         \/ lists' = lists
         \/ \E l : lists' = [lists EXCEPT ![b] = l] /\ ListsKnow(server, l)
  PROVE  ItemInv'
<1>1. PerBrowser(view)' /\ \A a \in Browsers : Copy(server, view'[a])
  BY DEF ItemInv, PerBrowser
<1>2. PerBrowser(draft)' /\ \A a \in Browsers : draft'[a] = Nothing \/ DraftKnows(server, draft'[a])
  BY DEF ItemInv, PerBrowser
<1>3. PerBrowser(lists)' /\ \A a \in Browsers : ListsKnow(server, lists'[a])
  BY DEF ItemInv, PerBrowser
<1> QED BY <1>1, <1>2, <1>3 DEF ItemInv

LEMMA Committed ==
  ASSUME ItemInv, NEW k \in DOMAIN calls, NEW next, Follows(server, next),
         calls[k].op \in Editing => next.content[calls[k].id] = calls[k].new,
         Commit(k, next)
  PROVE  ItemInv'
<1>1. Sound(next) /\ CallsKnow(next, calls)
  BY CallsStay DEF ItemInv, Follows
<1> DEFINE phase == IF next # server THEN "unlocked" ELSE "answered"
           outcome == IF next # server THEN "changed" ELSE "unchanged"
<1>2. phase \in {"unlocked", "answered"} /\ outcome \in Succeeded
  BY DEF Succeeded
<1>3. calls' = [calls EXCEPT ![k].phase = phase, ![k].outcome = outcome, ![k].reply = next]
  BY DEF Commit
<1>4. server' = next /\ UNCHANGED <<lists, view, draft>>
  BY DEF Commit, browserVars
<1> HIDE DEF phase, outcome
<1>5. CallsKnow(next, calls')
  BY <1>1, <1>2, <1>3, CallCommitted
<1> QED BY <1>4, <1>5, ServerMoves

LEMMA Answered ==
  ASSUME ItemInv, NEW k \in DOMAIN calls, NEW outcome \in {"refused", "failed"},
         Answer(k, outcome)
  PROVE  ItemInv'
<1>1. Follows(server, server) /\ server' = server /\ UNCHANGED <<lists, view, draft>>
  BY DEF Answer, ItemInv, Follows, serverVars, browserVars
<1>2. CallsKnow(server, calls')
  BY CallAnswered DEF Answer, ItemInv
<1> QED BY <1>1, <1>2, ServerMoves

-----------------------------------------------------------------------------
(* What the server does with a call. *)

(* What a call that changes something does to the order, and to other items. *)
ChangesOrder(c, s, next) ==
  /\ next.instance = s.instance /\ next.state = s.state + 1
  /\ \A j \in Ids : c.op = "reorder" \/ j # c.id => next.items[j] = s.items[j]
  /\ c.op = "create" => /\ c.id \notin Present(s)
                        /\ next.order = Append(s.order, c.id)
                        /\ next.orderRev = s.state + 1
  /\ c.op = "update" => /\ c.id \in Present(s)
                        /\ next.order = s.order /\ next.orderRev = s.orderRev
  /\ c.op = "delete" => next.order = Without(s.order, c.id) /\ next.orderRev = s.state + 1
  /\ c.op = "reorder" => /\ next.order = c.order /\ next.orderRev = s.state + 1
                         /\ Len(c.order) = Len(s.order)
                         /\ {c.order[n] : n \in DOMAIN c.order} = Present(s)

(* The commit of a call: an edit finds what its user saw and leaves what he wrote. *)
Commits(k) ==
  \E next :
    /\ Commit(k, next) /\ Follows(server, next)
    /\ IF calls[k].op \in Editing
       THEN /\ server.content[calls[k].id] = calls[k].base
            /\ next.content = [server.content EXCEPT ![calls[k].id] = calls[k].new]
       ELSE next.content = server.content
    /\ \/ next = server /\ (calls[k].op = "reorder" => server.order = calls[k].order)
       \/ ChangesOrder(calls[k], server, next)

Answers(k) == \E outcome \in {"refused", "failed"} : Answer(k, outcome)

LEMMA Creates ==
  ASSUME ItemInv, NEW k \in DOMAIN calls, CreateProfile(k)
  PROVE  calls[k].phase = "sent" /\ (Commits(k) \/ Answers(k))
<1> DEFINE id == calls[k].id
           new == calls[k].new
           e == [server EXCEPT !.content[id] = new, !.order = Append(@, id)]
           next == Advance(e, {id}, {}, TRUE)
<1>1. CallKnows(server, calls[k]) /\ Sound(server)
  BY DEF ItemInv, CallsKnow
<1>2. calls[k].phase = "sent" /\ calls[k].op = "create" /\ calls[k].op \in Editing
  BY DEF CreateProfile, Handling, Editing
<1>3. id \in Ids /\ new \in Contents /\ new # Absent /\ calls[k].base = Absent
  BY <1>1, <1>2 DEF CallKnows, CallLike
<1>4. \/ Answers(k)
      \/ id \notin Present(server) /\ Commit(k, next)
  BY DEF CreateProfile, SaveFails, Answers
<1>5. ASSUME id \notin Present(server), Commit(k, next) PROVE Commits(k)
  <2>1. server.content[id] = Absent
    BY <1>3, <1>5 DEF Present
  <2>2. /\ ListLike(e) /\ e.content = [server.content EXCEPT ![id] = new]
        /\ e.instance = server.instance /\ e.state = server.state
        /\ e.items = server.items
    BY <1>1, <1>3 DEF Sound, ListLike
  <2>5. e.order = Append(server.order, id)
    BY <1>1, <1>3 DEF Sound, ListLike
  <2>6. next.orderRev = e.state + 1
    BY ONLY <2>2, AdvanceOrderRev, Zenon
  <2> HIDE DEF e, id, new
  <2>3. NextOf(e, next, {id}, {})
    BY ONLY <2>2, AdvanceShows, Zenon
  <2> HIDE DEF next
  <2>4. Follows(server, next) /\ next.content = [server.content EXCEPT ![id] = new]
    BY <1>1, <1>3, <2>2, <2>3, Edited DEF id, new
  <2>7. ChangesOrder(calls[k], server, next)
    BY <1>2, <1>5, <2>2, <2>3, <2>5, <2>6 DEF ChangesOrder, NextOf, id
  <2> QED BY <1>2, <1>3, <1>5, <2>1, <2>4, <2>7 DEF Commits, id, new
<1> QED BY <1>2, <1>4, <1>5

(* A call whose revision is current saw what the item holds. *)
LEMMA CurrentIsSeen ==
  ASSUME ItemInv, NEW k \in DOMAIN calls, calls[k].phase = "sent",
         calls[k].op \in {"update", "delete"},
         Matches(calls[k].expected, server.items[calls[k].id])
  PROVE  server.content[calls[k].id] = calls[k].base
  BY DEF ItemInv, CallsKnow, CallKnows, KnownAs, Matches

LEMMA Updates ==
  ASSUME ItemInv, NEW k \in DOMAIN calls, UpdateProfile(k)
  PROVE  calls[k].phase = "sent" /\ (Commits(k) \/ Answers(k))
<1> DEFINE id == calls[k].id
           new == calls[k].new
           e == [server EXCEPT !.content[id] = new]
           next == Advance(e, {id}, {}, FALSE)
<1>1. CallKnows(server, calls[k]) /\ Sound(server)
  BY DEF ItemInv, CallsKnow
<1>2. calls[k].phase = "sent" /\ calls[k].op = "update" /\ calls[k].op \in Editing
  BY DEF UpdateProfile, Handling, Editing
<1>3. id \in Ids /\ new \in Contents /\ new # Absent
  BY <1>1, <1>2 DEF CallKnows, CallLike
<1>4. \/ Answers(k)
      \/ /\ id \in Present(server) /\ Matches(calls[k].expected, server.items[id])
         /\ \/ server.content[id] = new /\ Commit(k, server)
            \/ Commit(k, next)
  BY DEF UpdateProfile, SaveFails, Answers
<1>5. ASSUME server.content[id] = new, Commit(k, server),
             Matches(calls[k].expected, server.items[id])
      PROVE  Commits(k)
  <2>1. server.content = [server.content EXCEPT ![id] = new]
    BY <1>1, <1>3, <1>5 DEF Sound, ListLike
  <2>2. Follows(server, server)
    BY <1>1 DEF Follows
  <2>3. server.content[id] = calls[k].base
    BY <1>2, <1>5, CurrentIsSeen
  <2> QED BY <1>2, <1>5, <2>1, <2>2, <2>3 DEF Commits
<1>6. ASSUME Commit(k, next), id \in Present(server),
             Matches(calls[k].expected, server.items[id])
      PROVE  Commits(k)
  <2>1. server.content[id] = calls[k].base
    BY <1>2, <1>6, CurrentIsSeen
  <2>2. /\ ListLike(e) /\ e.content = [server.content EXCEPT ![id] = new]
        /\ e.instance = server.instance /\ e.state = server.state
        /\ e.items = server.items
    BY <1>1, <1>3 DEF Sound, ListLike
  <2>5. e.order = server.order /\ e.orderRev = server.orderRev
    BY <1>1, <1>3 DEF Sound, ListLike
  <2>6. next.orderRev = e.orderRev
    BY ONLY <2>2, AdvanceOrderRev, Zenon
  <2> HIDE DEF e, id, new
  <2>3. NextOf(e, next, {id}, {})
    BY ONLY <2>2, AdvanceShows, Zenon
  <2> HIDE DEF next
  <2>4. Follows(server, next) /\ next.content = [server.content EXCEPT ![id] = new]
    BY <1>1, <1>3, <2>2, <2>3, Edited DEF id, new
  <2>7. ChangesOrder(calls[k], server, next)
    BY <1>2, <1>6, <2>2, <2>3, <2>5, <2>6 DEF ChangesOrder, NextOf, id
  <2> QED BY <1>2, <1>3, <1>6, <2>1, <2>4, <2>7 DEF Commits, id, new
<1> QED BY <1>2, <1>4, <1>5, <1>6

LEMMA Deletes ==
  ASSUME ItemInv, NEW k \in DOMAIN calls, DeleteProfile(k)
  PROVE  calls[k].phase = "sent" /\ (Commits(k) \/ Answers(k))
<1> DEFINE id == calls[k].id
           e == [server EXCEPT !.content[id] = Absent, !.order = Without(@, id)]
           next == Advance(e, {}, {id}, TRUE)
<1>1. CallKnows(server, calls[k]) /\ Sound(server)
  BY DEF ItemInv, CallsKnow
<1>2. calls[k].phase = "sent" /\ calls[k].op = "delete" /\ calls[k].op \in Editing
  BY DEF DeleteProfile, Handling, Editing
<1>3. id \in Ids /\ calls[k].new = Absent /\ Absent \in Contents
  BY <1>1, <1>2 DEF CallKnows, CallLike
<1>4. \/ Answers(k)
      \/ Matches(calls[k].expected, server.items[id]) /\ Commit(k, next)
  BY DEF DeleteProfile, SaveFails, Answers
<1>5. ASSUME Commit(k, next), Matches(calls[k].expected, server.items[id])
      PROVE  Commits(k)
  <2>1. server.content[id] = calls[k].base
    BY <1>2, <1>5, CurrentIsSeen
  <2>2. /\ ListLike(e) /\ e.content = [server.content EXCEPT ![id] = Absent]
        /\ e.instance = server.instance /\ e.state = server.state
        /\ e.items = server.items
    BY <1>1, <1>3 DEF Sound, ListLike
  <2>5. e.order = Without(server.order, id)
    BY <1>1, <1>3 DEF Sound, ListLike
  <2>6. next.orderRev = e.state + 1
    BY ONLY <2>2, AdvanceOrderRev, Zenon
  <2> HIDE DEF e, id
  <2>3. NextOf(e, next, {}, {id})
    BY ONLY <2>2, AdvanceShows, Zenon
  <2> HIDE DEF next
  <2>4. Follows(server, next) /\ next.content = [server.content EXCEPT ![id] = Absent]
    BY <1>1, <1>3, <2>2, <2>3, Edited DEF id
  <2>7. ChangesOrder(calls[k], server, next)
    BY <1>2, <2>2, <2>3, <2>5, <2>6 DEF ChangesOrder, NextOf, id
  <2> QED BY <1>2, <1>3, <1>5, <2>1, <2>4, <2>7 DEF Commits, id
<1> QED BY <1>2, <1>4, <1>5

LEMMA Reorders ==
  ASSUME ItemInv, NEW k \in DOMAIN calls, ReorderProfiles(k)
  PROVE  calls[k].phase = "sent" /\ (Commits(k) \/ Answers(k))
<1> DEFINE e == [server EXCEPT !.order = calls[k].order]
           next == Advance(e, {}, {}, TRUE)
<1>1. Sound(server)
  BY DEF ItemInv
<1>2. calls[k].phase = "sent" /\ calls[k].op \notin Editing
  BY DEF ReorderProfiles, Handling, Editing
<1>3. \/ Answers(k)
      \/ Commit(k, server) /\ server.order = calls[k].order
      \/ /\ Commit(k, next) /\ Len(calls[k].order) = Len(server.order)
         /\ {calls[k].order[n] : n \in DOMAIN calls[k].order} = Present(server)
  BY DEF ReorderProfiles, SaveFails, Answers
<1>4. Follows(server, server)
  BY <1>1 DEF Follows
<1>5. /\ ListLike(e) /\ e.content = server.content
      /\ e.instance = server.instance /\ e.state = server.state /\ e.items = server.items
  BY <1>1 DEF Sound, ListLike
<1>8. e.order = calls[k].order
  BY <1>1 DEF Sound, ListLike
<1>9. next.orderRev = e.state + 1
  BY ONLY <1>5, AdvanceOrderRev, Zenon
<1> HIDE DEF e
<1>6. NextOf(e, next, {}, {})
  BY ONLY <1>5, AdvanceShows, Zenon
<1> HIDE DEF next
<1>7. Follows(server, next) /\ next.content = server.content
  BY <1>1, <1>5, <1>6, Reordered
<1>10. ASSUME Len(calls[k].order) = Len(server.order),
              {calls[k].order[n] : n \in DOMAIN calls[k].order} = Present(server)
       PROVE  ChangesOrder(calls[k], server, next)
  BY <1>2, <1>5, <1>6, <1>8, <1>9, <1>10 DEF ChangesOrder, NextOf, Editing
<1> QED BY <1>2, <1>3, <1>4, <1>7, <1>10 DEF Commits

-----------------------------------------------------------------------------
(* What the pages do. *)

LEMMA Budget ==
  ASSUME ItemInv, MayAct
  PROVE  /\ Len(calls) \in Nat /\ Len(calls) + 1 \in Versions
         /\ DOMAIN calls = 1 .. Len(calls)
<1>1. Len(calls) \in Nat /\ DOMAIN calls = 1 .. Len(calls)
  BY SequenceFacts DEF ItemInv, CallsKnow
<1>2. server.instance \in Nat /\ server.instance >= 1
  BY DEF ItemInv, Sound, ListLike
<1> QED BY <1>1, <1>2, ResourcesAssumption DEF MayAct, Versions

LEMMA FormKnows ==
  ASSUME ItemInv, NEW b \in Browsers, NEW id \in Present(view[b])
  PROVE  DraftKnows(server, Form(b, id))
<1>1. Copy(server, view[b])
  BY DEF ItemInv
<1>2. /\ id \in Ids
      /\ KnownAs(server, view[b].instance, view[b].items[id], id, view[b].content[id])
  BY <1>1 DEF Copy, Present
<1>3. view[b].content[id] \in Contents /\ view[b].content[id] # Absent
  BY <1>1, <1>2 DEF Copy, ListLike, Present
<1> QED BY <1>2, <1>3 DEF Form, ExpectedItem, DraftKnows

LEMMA NewCallShows ==
  ASSUME NEW b \in Browsers, NEW op \in {"create", "update", "delete", "reorder"}
  PROVE  LET c == NewCall(b, op) IN
         CallLike(c) /\ c.op = op /\ c.phase = "sent" /\ c.outcome = "none" /\ c.base = Absent
  BY VersionsAre DEF NewCall, CallLike

EditCall(b, op, id, expected, base, new) ==
  [NewCall(b, op) EXCEPT !.id = id, !.expected = expected, !.base = base, !.new = new]
ReorderCall(b, expected, from, order) ==
  [NewCall(b, "reorder") EXCEPT !.expected = expected, !.from = from, !.order = order]

(* What a page knows when it makes a call. *)
LEMMA CallMade ==
  ASSUME NEW b \in Browsers, NEW op \in Editing, NEW id \in Ids, NEW expected,
         NEW base \in Contents, NEW new \in Contents,
         op = "create" => base = Absent /\ new # Absent,
         op = "update" => new # Absent,
         op = "delete" => new = Absent,
         op # "create" => KnownAs(server, expected.instance, expected.revision, id, base)
  PROVE  LET c == EditCall(b, op, id, expected, base, new)
         IN  CallKnows(server, c) /\ c.op = op /\ c.phase = "sent"
<1> DEFINE r == NewCall(b, op)
           c == [r EXCEPT !.id = id, !.expected = expected, !.base = base, !.new = new]
<1>1. CallLike(r) /\ r.op = op /\ r.phase = "sent" /\ r.outcome = "none"
  BY NewCallShows DEF Editing
<1> HIDE DEF r
<1>2. /\ CallLike(c) /\ c.op = op /\ c.phase = "sent" /\ c.outcome = "none"
      /\ c.id = id /\ c.expected = expected /\ c.base = base /\ c.new = new
  BY <1>1 DEF CallLike
<1> HIDE DEF c
<1>3. CallKnows(server, c) /\ c.op = op /\ c.phase = "sent"
  BY <1>2 DEF CallKnows, Editing, Succeeded
<1> QED BY <1>3 DEF c, r, EditCall

LEMMA CreateMade ==
  ASSUME NEW b \in Browsers, NEW id \in Ids, NEW new \in Contents, new # Absent
  PROVE  LET c == [NewCall(b, "create") EXCEPT !.id = id, !.base = Absent, !.new = new]
         IN  CallKnows(server, c) /\ c.op = "create" /\ c.phase = "sent"
<1> DEFINE r == NewCall(b, "create")
           c == [r EXCEPT !.id = id, !.base = Absent, !.new = new]
<1>1. CallLike(r) /\ r.op = "create" /\ r.phase = "sent" /\ r.outcome = "none"
  BY NewCallShows
<1> HIDE DEF r
<1>2. /\ CallLike(c) /\ c.op = "create" /\ c.phase = "sent" /\ c.outcome = "none"
      /\ c.id = id /\ c.base = Absent /\ c.new = new
  BY <1>1, VersionsAre DEF CallLike
<1> HIDE DEF c
<1>3. CallKnows(server, c) /\ c.op = "create" /\ c.phase = "sent"
  BY <1>2 DEF CallKnows, Editing, Succeeded
<1> QED BY <1>3 DEF c, r

LEMMA ReorderMade ==
  ASSUME NEW b \in Browsers, NEW expected, NEW from, NEW order
  PROVE  LET c == ReorderCall(b, expected, from, order)
         IN  CallKnows(server, c) /\ c.op = "reorder" /\ c.phase = "sent"
<1> DEFINE r == NewCall(b, "reorder")
           c == [r EXCEPT !.expected = expected, !.from = from, !.order = order]
<1>1. CallLike(r) /\ r.op = "reorder" /\ r.phase = "sent" /\ r.outcome = "none"
  BY NewCallShows
<1> HIDE DEF r
<1>2. CallLike(c) /\ c.op = "reorder" /\ c.phase = "sent" /\ c.outcome = "none"
  BY <1>1 DEF CallLike
<1> HIDE DEF c
<1>3. CallKnows(server, c) /\ c.op = "reorder" /\ c.phase = "sent"
  BY <1>2 DEF CallKnows, Editing, Succeeded
<1> QED BY <1>3 DEF c, r, ReorderCall

(* The users' calls. *)
Makes(b, op) ==
  \E c : /\ up /\ MayAct /\ calls' = Append(calls, c) /\ c.op = op /\ c.phase = "sent"
         /\ CallKnows(server, c)
         /\ UNCHANGED <<server, view, lists>>

LEMMA Edits ==
  ASSUME ItemInv, NEW b \in Browsers, EditProfile(b)
  PROVE  Makes(b, "update") /\ draft' = [draft EXCEPT ![b] = Nothing]
<1>1. PICK form \in IF b \in Followed THEN {draft[b]} \ {Nothing}
                    ELSE {Form(b, id) : id \in Present(view[b])} :
        /\ \E new \in {form.base, Len(calls) + 1} :
             Make([NewCall(b, "update") EXCEPT !.id = form.id, !.expected = form.expected,
                                               !.base = form.base, !.new = new])
        /\ draft' = [draft EXCEPT ![b] = Nothing]
  BY DEF EditProfile
<1>2. DraftKnows(server, form)
  BY <1>1, FormKnows DEF ItemInv
<1>3. PICK new \in {form.base, Len(calls) + 1} :
        Make([NewCall(b, "update") EXCEPT !.id = form.id, !.expected = form.expected,
                                          !.base = form.base, !.new = new])
  BY <1>1
<1> DEFINE c == EditCall(b, "update", form.id, form.expected, form.base, new)
<1>4. up /\ MayAct /\ calls' = Append(calls, c) /\ UNCHANGED <<server, view, lists>>
  BY <1>3 DEF Make, serverVars, EditCall
<1>5. new \in Contents /\ new # Absent
  BY <1>2, <1>4, Budget, VersionsAre DEF DraftKnows
<1>6. CallKnows(server, c) /\ c.op = "update" /\ c.phase = "sent"
  BY <1>2, <1>5, CallMade DEF DraftKnows, Editing
<1> QED BY <1>1, <1>4, <1>6 DEF Makes

LEMMA Removes ==
  ASSUME ItemInv, NEW b \in Browsers, NEW id \in Ids, RemoveProfile(b, id)
  PROVE  Makes(b, "delete") /\ draft' = draft
<1> DEFINE c == EditCall(b, "delete", id, ExpectedItem(b, id), view[b].content[id], Absent)
<1>1. Make(c) /\ id \in Present(view[b]) /\ draft' = draft
  BY DEF RemoveProfile, EditCall
<1>2. DraftKnows(server, Form(b, id))
  BY <1>1, FormKnows
<1>3. /\ KnownAs(server, ExpectedItem(b, id).instance, ExpectedItem(b, id).revision, id,
               view[b].content[id])
      /\ view[b].content[id] \in Contents /\ Absent \in Contents
  BY <1>2, VersionsAre DEF DraftKnows, Form
<1>4. CallKnows(server, c) /\ c.op = "delete" /\ c.phase = "sent"
  BY <1>3, CallMade DEF Editing
<1>5. up /\ MayAct /\ calls' = Append(calls, c) /\ UNCHANGED <<server, view, lists>>
  BY <1>1 DEF Make, serverVars
<1> QED BY <1>1, <1>4, <1>5 DEF Makes

LEMMA Adds ==
  ASSUME ItemInv, NEW b \in Browsers, NEW id \in Ids, AddProfile(b, id)
  PROVE  Makes(b, "create") /\ draft' = draft
<1> DEFINE c == [NewCall(b, "create") EXCEPT !.id = id, !.base = Absent,
                                             !.new = Len(calls) + 1]
<1>1. Make(c) /\ draft' = draft
  BY DEF AddProfile
<1>2. up /\ MayAct /\ calls' = Append(calls, c) /\ UNCHANGED <<server, view, lists>>
  BY <1>1 DEF Make, serverVars
<1>3. Len(calls) + 1 \in Contents /\ Len(calls) + 1 # Absent
  BY <1>2, Budget, VersionsAre
<1>4. CallKnows(server, c) /\ c.op = "create" /\ c.phase = "sent"
  BY <1>3, CreateMade
<1> QED BY <1>1, <1>2, <1>4 DEF Makes

LEMMA Drags ==
  ASSUME ItemInv, NEW b \in Browsers, SaveProfilesOrder(b)
  PROVE  Makes(b, "reorder") /\ draft' = draft
<1> DEFINE expected == [instance |-> view[b].instance, revision |-> view[b].orderRev]
           c(order) == ReorderCall(b, expected, view[b].order, order)
<1>1. PICK order \in Orders : Make(c(order))
  BY DEF SaveProfilesOrder, ReorderCall
<1>2. CallKnows(server, c(order)) /\ c(order).op = "reorder" /\ c(order).phase = "sent"
  BY ReorderMade
<1>3. /\ up /\ MayAct /\ calls' = Append(calls, c(order))
      /\ UNCHANGED <<server, view, lists>>
  BY <1>1 DEF Make, serverVars
<1>4. draft' = draft
  BY DEF SaveProfilesOrder
<1> QED BY <1>2, <1>3, <1>4 DEF Makes

LEMMA UseKeepsItems ==
  ASSUME ItemInv, NEW b \in Browsers, Use(b)
  PROVE  ItemInv'
<1>1. \/ \E op \in {"create", "update", "delete", "reorder"} :
           Makes(b, op) /\ (draft' = draft \/ draft' = [draft EXCEPT ![b] = Nothing])
      \/ \E id \in Ids : OpenForm(b, id)
  BY Edits, Removes, Adds, Drags DEF Use
<1>2. ASSUME NEW op \in {"create", "update", "delete", "reorder"}, Makes(b, op),
             draft' = draft \/ draft' = [draft EXCEPT ![b] = Nothing]
      PROVE  ItemInv'
  <2>1. CallsKnow(server, calls') /\ UNCHANGED <<server, view, lists>>
    BY <1>2, CallsAppended DEF Makes, ItemInv
  <2> QED BY <1>2, <2>1, PageMoves
<1>3. ASSUME NEW id \in Ids, OpenForm(b, id) PROVE ItemInv'
  <2>1. /\ draft' = [draft EXCEPT ![b] = Form(b, id)] /\ id \in Present(view[b])
        /\ UNCHANGED <<server, calls, view, lists>>
    BY <1>3 DEF OpenForm, serverVars
  <2>2. DraftKnows(server, Form(b, id)) /\ CallsKnow(server, calls)
    BY <2>1, FormKnows DEF ItemInv
  <2> QED BY <2>1, <2>2, PageMoves
<1> QED BY <1>1, <1>2, <1>3

LEMMA ListCallKnows ==
  ASSUME NEW by PROVE ListKnows(server, ListCall(by))
  BY DEF ListCall, ListKnows

LEMMA SendsList ==
  ASSUME ItemInv, NEW b \in Browsers, NEW by, SendList(b, by)
  PROVE  \E l : lists' = [lists EXCEPT ![b] = l] /\ ListsKnow(server, l)
<1>1. lists' = [lists EXCEPT ![b] = Append(lists[b], ListCall(by))]
  BY DEF SendList, ItemInv, PerBrowser
<1>2. ListsKnow(server, Append(lists[b], ListCall(by)))
  BY ListCallKnows, ListsAppended DEF ItemInv
<1> QED BY <1>1, <1>2

LEMMA ListsReplaced ==
  ASSUME NEW s, NEW l, ListsKnow(s, l), NEW n \in DOMAIN l, NEW c, ListKnows(s, c)
  PROVE  ListsKnow(s, [l EXCEPT ![n] = c])
  BY Replaced DEF ListsKnow

LEMMA ListServed ==
  ASSUME ItemInv, NEW b \in Browsers, NEW n \in DOMAIN lists[b], ListProfiles(b, n)
  PROVE  ItemInv'
<1> DEFINE c == [lists[b][n] EXCEPT !.reply = server]
<1>1. /\ UNCHANGED <<server, calls, view, draft>>
      /\ lists' = [lists EXCEPT ![b] = [lists[b] EXCEPT ![n] = c]]
  BY DEF ListProfiles, serverVars, browserVars, ItemInv, PerBrowser
<1>2. Copy(server, server) /\ ListKnows(server, lists[b][n])
  BY CopyOfItself DEF ItemInv, ListsKnow
<1>3. ListKnows(server, c)
  BY <1>2 DEF ListKnows
<1>4. ListsKnow(server, [lists[b] EXCEPT ![n] = c]) /\ CallsKnow(server, calls)
  BY <1>3, ListsReplaced DEF ItemInv
<1> QED BY <1>1, <1>4, PageMoves

LEMMA LeftKnow ==
  ASSUME ItemInv, NEW b \in Browsers, NEW n \in DOMAIN lists[b]
  PROVE  ListsKnow(server, LeftAfter(b, n))
<1> DEFINE l == lists[b]
           left == LeftAfter(b, n)
           N == Len(l) - 1
           S == {left[m] : m \in 1 .. N}
<1>1. Len(l) \in Nat /\ DOMAIN l = 1 .. Len(l) /\ \A m \in DOMAIN l : ListKnows(server, l[m])
  BY SequenceFacts DEF ItemInv, ListsKnow
<1>2. N \in Nat
  BY <1>1
<1>3. left = [m \in 1 .. N |-> left[m]]
  BY DEF LeftAfter
<1>4. ASSUME NEW m \in 1 .. N PROVE ListKnows(server, left[m])
  <2>1. m \in DOMAIN l /\ m + 1 \in DOMAIN l
    BY <1>1, <1>2
  <2>2. CASE m < n
    <3> DEFINE taken == TakesSnapshot(b, l[n])
    <3>1. left[m] = [l[m] EXCEPT !.overtaken = @ \/ taken]
      BY <2>2 DEF LeftAfter
    <3>2. ListKnows(server, l[m])
      BY <1>1, <2>1
    <3>3. l[m] = [by |-> l[m].by, reply |-> l[m].reply, lost |-> l[m].lost,
                  overtaken |-> l[m].overtaken]
      BY <3>2 DEF ListKnows
    <3> DEFINE r == [l[m] EXCEPT !.overtaken = @ \/ taken]
    <3>4. /\ r = [by |-> r.by, reply |-> r.reply, lost |-> r.lost,
                  overtaken |-> r.overtaken]
          /\ r.reply = l[m].reply
      BY <3>3
    <3> QED BY <3>1, <3>2, <3>4 DEF ListKnows
  <2>3. CASE ~(m < n)
    BY <1>1, <2>1, <2>3 DEF LeftAfter
  <2> QED BY <2>2, <2>3
<1> HIDE DEF left
<1>5. left \in [1 .. N -> S]
  BY <1>3
<1>6. ListsKnow(server, left)
  BY <1>2, <1>4, <1>5, IsASequence DEF ListsKnow
<1> QED BY <1>6 DEF left

LEMMA ListReceived ==
  ASSUME ItemInv, NEW b \in Browsers, NEW n \in DOMAIN lists[b], ReceiveList(b, n)
  PROVE  ItemInv'
<1> DEFINE call == lists[b][n]
           shown == IF TakesSnapshot(b, call) THEN call.reply ELSE view[b]
<1>1. /\ UNCHANGED <<server, calls, draft>>
      /\ view' = [view EXCEPT ![b] = shown]
      /\ \/ Drain(b, n, shown)
         \/ lists' = [lists EXCEPT ![b] = LeftAfter(b, n)]
  BY DEF ReceiveList, serverVars
<1>2. Copy(server, shown)
  <2>1. ListKnows(server, call) /\ Copy(server, view[b])
    BY DEF ItemInv, ListsKnow
  <2> QED BY <2>1 DEF ListKnows, TakesSnapshot
<1> HIDE DEF shown
<1>3. \E l : lists' = [lists EXCEPT ![b] = l] /\ ListsKnow(server, l)
  <2>1. \/ lists' = [lists EXCEPT ![b] = LeftAfter(b, n)]
        \/ lists' = [lists EXCEPT ![b] = Append(LeftAfter(b, n), ListCall("sync"))]
    BY <1>1 DEF Drain
  <2>2. ListsKnow(server, LeftAfter(b, n))
    BY LeftKnow
  <2>3. ListsKnow(server, Append(LeftAfter(b, n), ListCall("sync")))
    BY <2>2, ListCallKnows, ListsAppended
  <2> QED BY <2>1, <2>2, <2>3
<1>4. CallsKnow(server, calls')
  BY <1>1 DEF ItemInv
<1> QED BY <1>1, <1>2, <1>3, <1>4, PageMoves

(* What is shown of a reply. *)
LEMMA ShownKnows ==
  ASSUME NEW s, Sound(s), NEW v, Copy(s, v), NEW c, CallKnows(s, c),
         c.outcome \in Succeeded,
         c.reply.instance = v.instance
  PROVE  Copy(s, Shown(v, c))
<1> DEFINE moved == [v EXCEPT !.state = c.reply.state, !.orderRev = c.reply.orderRev]
<1>1. Copy(s, c.reply) /\ ListLike(v) /\ ListLike(c.reply)
  BY DEF CallKnows, Copy
<1>2. /\ ListLike(moved) /\ moved.instance = v.instance
      /\ moved.items = v.items /\ moved.content = v.content
  BY <1>1 DEF ListLike
<1>3. Copy(s, moved)
  BY <1>2 DEF Copy, Present
<1> HIDE DEF moved
<1>4. CASE c.op = "reorder"
  <2>1. \/ Shown(v, c) = moved
        \/ Shown(v, c) = [moved EXCEPT !.order = Ordered(v, c.order)]
    BY <1>4 DEF Shown, moved
  <2> DEFINE t == [moved EXCEPT !.order = Ordered(v, c.order)]
  <2>2. /\ ListLike(t) /\ t.instance = moved.instance
        /\ t.items = moved.items /\ t.content = moved.content
    BY <1>2 DEF ListLike
  <2> HIDE DEF t
  <2>3. Copy(s, t)
    BY <1>3, <2>2 DEF Copy, Present
  <2> QED BY <1>3, <2>1, <2>3 DEF t
<1>5. CASE c.op # "reorder"
  <2> DEFINE id == c.id
             order == IF c.op = "delete" THEN Without(moved.order, id)
                      ELSE IF id \in Present(moved) THEN moved.order
                      ELSE Append(moved.order, id)
             t == [moved EXCEPT !.items[id] = c.reply.items[id], !.content[id] = c.new,
                                !.order = order]
  <2>1. id \in Ids /\ c.reply.content[id] = c.new /\ c.new \in Contents
    BY <1>5 DEF CallKnows, CallLike, Editing
  <2>2. Shown(v, c) = t
    BY <1>2, <1>5 DEF Shown, WithItem, moved, ListLike
  <2> HIDE DEF order
  <2>3. c.reply.items[id] \in Nat
    BY <1>1, <2>1 DEF ListLike
  <2>4. /\ ListLike(t) /\ t.instance = v.instance
        /\ t.items = [moved.items EXCEPT ![id] = c.reply.items[id]]
        /\ t.content = [moved.content EXCEPT ![id] = c.new]
    BY <1>2, <2>1, <2>3 DEF ListLike
  <2> HIDE DEF t
  <2>5. ASSUME NEW j \in Present(t) PROVE KnownAs(s, t.instance, t.items[j], j, t.content[j])
    <3>1. j \in Ids
      BY DEF Present
    <3>2. CASE j = id
      <4>1. t.items[j] = c.reply.items[j] /\ t.content[j] = c.reply.content[j]
        BY <1>2, <2>1, <2>4, <3>2 DEF ListLike
      <4> QED BY <1>1, <2>4, <3>1, <4>1 DEF Copy, Present
    <3>3. CASE j # id
      <4>1. t.items[j] = moved.items[j] /\ t.content[j] = moved.content[j]
        BY <1>2, <2>1, <2>4, <3>1, <3>3 DEF ListLike
      <4> QED BY <1>2, <1>3, <2>4, <3>1, <4>1 DEF Copy, Present
    <3> QED BY <3>2, <3>3
  <2> QED BY <2>2, <2>4, <2>5 DEF Copy
<1> QED BY <1>4, <1>5

LEMMA ReplyReceived ==
  ASSUME ItemInv, NEW k \in DOMAIN calls, Receive(k)
  PROVE  ItemInv'
<1> DEFINE call == calls[k]
           b == call.by
<1>1. CallKnows(server, call) /\ Sound(server)
  BY DEF ItemInv, CallsKnow
<1>2. Finish(k) /\ UNCHANGED <<server, draft>>
  BY DEF Receive, ReceiveReply, DropReply, ReceiveError, Ignore, serverVars, browserVars
<1>3. CallsKnow(server, calls')
  BY <1>2, CallFinished DEF ItemInv
<1>4. CASE ReceiveReply(k)
  <2>1. /\ b \in Browsers /\ call.outcome \in Succeeded
        /\ call.reply.instance = view[b].instance
        /\ view' = [view EXCEPT ![b] = Shown(view[b], call)]
        /\ SendList(b, "form") \/ UNCHANGED lists
    BY <1>4, ResourcesAssumption DEF ReceiveReply, Succeeded, ItemInv, PerBrowser
  <2>2. Copy(server, Shown(view[b], call))
    BY <1>1, <2>1, ShownKnows DEF ItemInv
  <2>3. UNCHANGED lists \/ \E l : lists' = [lists EXCEPT ![b] = l] /\ ListsKnow(server, l)
    BY <2>1, SendsList
  <2> QED BY <1>2, <1>3, <2>1, <2>2, <2>3, PageMoves
<1>5. CASE DropReply(k) \/ ReceiveError(k)
  <2>1. /\ b \in Browsers /\ view' = view
        /\ SendList(b, "form") \/ UNCHANGED lists
    BY <1>5, ResourcesAssumption DEF DropReply, ReceiveError, browserVars
  <2>2. UNCHANGED lists \/ \E l : lists' = [lists EXCEPT ![b] = l] /\ ListsKnow(server, l)
    BY <2>1, SendsList
  <2> QED BY <1>2, <1>3, <2>1, <2>2, PageMoves
<1>6. CASE Ignore(k)
  <2>1. Follows(server, server) /\ UNCHANGED <<lists, view>>
    BY <1>1, <1>6 DEF Follows, Ignore, browserVars
  <2> QED BY <1>2, <1>3, <2>1, ServerMoves
<1> QED BY <1>4, <1>5, <1>6 DEF Receive

LEMMA Refreshes ==
  ASSUME ItemInv, NEW b \in Browsers, Refresh(b)
  PROVE  ItemInv'
<1>1. CallsKnow(server, calls) /\ Sound(server) /\ Follows(server, server)
  BY DEF ItemInv, Follows
<1>2. CASE Reload(b)
  <2>1. Copy(server, server)
    BY <1>1, CopyOfItself
  <2>2. view' = [view EXCEPT ![b] = server] /\ UNCHANGED <<server, calls, draft, lists>>
    BY <1>2 DEF Reload, serverVars
  <2> QED BY <1>1, <2>1, <2>2, PageMoves
<1>3. CASE Open(b) \/ AddClient(b) \/ RefreshTimer(b)
  <2>1. UNCHANGED <<server, calls, view, draft>> /\ (SendList(b, "sync") \/ UNCHANGED lists)
    BY <1>3 DEF Open, AddClient, RefreshTimer, Synchronize, serverVars, browserVars
  <2>2. UNCHANGED lists \/ \E l : lists' = [lists EXCEPT ![b] = l] /\ ListsKnow(server, l)
    BY <2>1, SendsList
  <2> QED BY <1>1, <2>1, <2>2, PageMoves
<1>4. CASE OnResourceChanged(b)
  <2>1. UNCHANGED <<server, calls, view, draft, lists>>
    BY <1>4 DEF OnResourceChanged, serverVars
  <2> QED BY <1>1, <2>1, ServerMoves
<1> QED BY <1>2, <1>3, <1>4, ListServed, ListReceived DEF Refresh

LEMMA ServeDoes ==
  ASSUME ItemInv, NEW k \in DOMAIN calls, Serve(k)
  PROVE  \/ calls[k].phase = "sent" /\ (Commits(k) \/ Answers(k))
         \/ PublishChange(k)
  BY Creates, Updates, Deletes, Reorders DEF Serve

LEMMA Served ==
  ASSUME ItemInv, NEW k \in DOMAIN calls, Serve(k)
  PROVE  ItemInv'
<1>1. CASE Commits(k)
  <2>1. PICK next :
          /\ Commit(k, next) /\ Follows(server, next)
          /\ calls[k].op \in Editing =>
               next.content = [server.content EXCEPT ![calls[k].id] = calls[k].new]
    BY <1>1 DEF Commits
  <2>2. calls[k].op \in Editing => next.content[calls[k].id] = calls[k].new
    <3>1. CallKnows(server, calls[k]) /\ ListLike(server)
      BY DEF ItemInv, CallsKnow, Sound
    <3> QED BY <2>1, <3>1 DEF CallKnows, ListLike
  <2> QED BY <2>1, <2>2, Committed
<1>2. CASE Answers(k)
  BY <1>2, Answered DEF Answers
<1>3. CASE PublishChange(k)
  <2>1. UNCHANGED <<server, lists, view, draft>> /\ Follows(server, server)
    BY <1>3 DEF PublishChange, serverVars, browserVars, ItemInv, Follows
  <2>2. CallsKnow(server, calls')
    BY <1>3, CallPublished DEF PublishChange, ItemInv
  <2> QED BY <2>1, <2>2, ServerMoves
<1> QED BY <1>1, <1>2, <1>3, ServeDoes

LEMMA Crashes ==
  ASSUME ItemInv, Crash
  PROVE  ItemInv'
<1>1. CallsKnow(server, calls')
  BY Lost DEF ItemInv
<1>2. UNCHANGED <<server, view, draft>>
  BY DEF Crash, browserVars
<1>3. ASSUME NEW b \in Browsers PROVE ListsKnow(server, lists'[b])
  <2> DEFINE l == lists[b]
             c(n) == [l[n] EXCEPT !.lost = l[n].reply = Nothing]
             S == {c(n) : n \in DOMAIN l}
  <2>1. /\ Len(l) \in Nat /\ DOMAIN l = 1 .. Len(l)
        /\ \A n \in DOMAIN l : ListKnows(server, l[n])
    BY SequenceFacts DEF ItemInv, ListsKnow
  <2>2. lists'[b] = [n \in DOMAIN l |-> c(n)]
    BY DEF Crash
  <2>3. ASSUME NEW n \in DOMAIN l PROVE ListKnows(server, c(n))
    <3>1. ListKnows(server, l[n])
      BY <2>1
    <3>2. l[n] = [by |-> l[n].by, reply |-> l[n].reply, lost |-> l[n].lost,
                  overtaken |-> l[n].overtaken]
      BY <3>1 DEF ListKnows
    <3> DEFINE r == c(n)
    <3>3. /\ r = [by |-> r.by, reply |-> r.reply, lost |-> r.lost,
                  overtaken |-> r.overtaken]
          /\ r.reply = l[n].reply
      BY <3>2
    <3> QED BY <3>1, <3>3 DEF ListKnows
  <2>4. lists'[b] \in [1 .. Len(l) -> S]
    BY <2>1, <2>2
  <2> HIDE DEF c
  <2> QED BY <2>1, <2>2, <2>3, <2>4, IsASequence DEF ListsKnow
<1>4. PerBrowser(lists)'
  BY DEF Crash, PerBrowser
<1> QED BY <1>1, <1>2, <1>3, <1>4 DEF ItemInv

LEMMA Boots ==
  ASSUME ItemInv, Boot
  PROVE  ItemInv' /\ server'.content = server.content
<1>1. Sound(server) /\ ListLike(server) /\ CallsKnow(server, calls)
  BY DEF ItemInv, Sound
<1>2. server.instance + 1 \in Nat /\ server.instance + 1 >= 1
  BY <1>1 DEF Sound, ListLike
<1>3. /\ server' = FreshRevisions(server, server.instance + 1)
      /\ UNCHANGED <<calls, lists, view, draft>>
  BY DEF Boot, browserVars
<1>4. /\ Sound(server') /\ server'.instance = server.instance + 1
      /\ server'.content = server.content
  BY <1>1, <1>2, <1>3, Fresh
<1>5. Follows(server, server') /\ CallsKnow(server', calls')
  BY <1>1, <1>3, <1>4, CallsStay DEF Follows
<1> QED BY <1>3, <1>4, <1>5, ServerMoves

LEMMA ItemInvStep == ItemInv /\ [ResourcesNext]_resourcesVars => ItemInv'
<1>1. ASSUME ItemInv, UNCHANGED resourcesVars PROVE ItemInv'
  <2>1. UNCHANGED <<server, calls, lists, view, draft>> /\ Follows(server, server)
    BY <1>1 DEF resourcesVars, serverVars, browserVars, Follows, ItemInv
  <2>2. CallsKnow(server', calls')
    BY <1>1, <2>1 DEF ItemInv
  <2> QED BY <1>1, <2>1, <2>2, ServerMoves
<1> QED BY <1>1, Served, ReplyReceived, UseKeepsItems, Refreshes, Crashes,
           Boots DEF ResourcesNext

-----------------------------------------------------------------------------
(* Whoever holds the current revision of an item holds its current content. *)
THEOREM RevisionsNameContents == ResourcesSpec => []RevisionNamesContent
<1>1. ItemInv => RevisionNamesContent
  <2> SUFFICES ASSUME ItemInv PROVE RevisionNamesContent
    OBVIOUS
  <2>1. ASSUME NEW b \in Browsers, NEW id \in Present(view[b]),
               Matches(ExpectedItem(b, id), server.items[id])
        PROVE  view[b].content[id] = server.content[id]
    BY <2>1 DEF ItemInv, Copy, KnownAs, Matches, ExpectedItem
  <2>2. ASSUME NEW b \in Browsers, draft[b] # Nothing,
               Matches(draft[b].expected, server.items[draft[b].id])
        PROVE  draft[b].base = server.content[draft[b].id]
    BY <2>2 DEF ItemInv, DraftKnows, KnownAs, Matches
  <2>3. ASSUME NEW k \in DOMAIN calls, calls[k].phase = "sent",
               calls[k].op \in {"update", "delete"},
               Matches(calls[k].expected, server.items[calls[k].id])
        PROVE  calls[k].base = server.content[calls[k].id]
    BY <2>3, CurrentIsSeen
  <2> QED BY <2>1, <2>2, <2>3 DEF RevisionNamesContent
<1> QED BY <1>1, ItemInvInit, ItemInvStep, PTL DEF ResourcesSpec

-----------------------------------------------------------------------------
(* The service implements the documents, step by step. *)

(* Calls that are asked for already keep what they ask for. *)
Keep(cs, ds) ==
  /\ DOMAIN ds = DOMAIN cs
  /\ \A k \in DOMAIN cs : /\ ds[k].op = cs[k].op /\ ds[k].id = cs[k].id
                          /\ ds[k].base = cs[k].base /\ ds[k].new = cs[k].new

LEMMA KeptIsAsked ==
  ASSUME Keep(calls, calls')
  PROVE  DocumentCalls' = DocumentCalls /\ Asked' = Asked
<1>1. DocumentCalls' = DocumentCalls
  BY DEF Keep, DocumentCalls
<1> QED BY <1>1 DEF Keep, DocumentCalls, Asked

LEMMA DocumentsStart == ResourcesInit => Docs!DocumentsInit
<1> SUFFICES ASSUME ResourcesInit PROVE Docs!DocumentsInit
  OBVIOUS
<1>1. ItemInv /\ calls = <<>>
  BY ItemInvInit DEF ResourcesInit
<1>2. server.content \in [Ids -> Contents]
  BY <1>1 DEF ItemInv, Sound, ListLike
<1>3. DocumentCalls = {}
  BY <1>1 DEF DocumentCalls
<1>4. DOMAIN Asked = {} /\ Unanswered = {}
  BY <1>3 DEF Asked, Unanswered
<1> QED BY <1>2, <1>4 DEF Docs!DocumentsInit, Contents

(* A step that leaves the contents, what is asked for and who waits. *)
LEMMA Stutters ==
  ASSUME server'.content = server.content, Keep(calls, calls'),
         \A k \in DOMAIN calls : calls[k].op \in Editing =>
           (calls'[k].phase = "sent" <=> calls[k].phase = "sent")
  PROVE  UNCHANGED Docs!documentVars
<1>1. DocumentCalls' = DocumentCalls /\ Asked' = Asked
  BY KeptIsAsked
<1>2. Unanswered' = Unanswered
  BY <1>1 DEF Unanswered, DocumentCalls
<1> QED BY <1>1, <1>2 DEF Docs!documentVars

LEMMA CommitAccepts ==
  ASSUME ItemInv, NEW k \in DOMAIN calls, calls[k].phase = "sent", Commits(k)
  PROVE  [Docs!DocumentsNext]_(Docs!documentVars)
<1>1. PICK next :
        /\ Commit(k, next)
        /\ IF calls[k].op \in Editing
           THEN /\ server.content[calls[k].id] = calls[k].base
                /\ next.content = [server.content EXCEPT ![calls[k].id] = calls[k].new]
           ELSE next.content = server.content
  BY DEF Commits
<1> DEFINE phase == IF next # server THEN "unlocked" ELSE "answered"
           outcome == IF next # server THEN "changed" ELSE "unchanged"
<1>2. /\ server' = next
      /\ calls' = [calls EXCEPT ![k].phase = phase, ![k].outcome = outcome, ![k].reply = next]
  BY <1>1 DEF Commit
<1>3. phase # "sent"
  OBVIOUS
<1> HIDE DEF phase, outcome
<1>4. CallLike(calls[k])
  BY DEF ItemInv, CallsKnow, CallKnows
<1>5. /\ Keep(calls, calls') /\ calls'[k].phase = phase
      /\ \A j \in DOMAIN calls : j # k => calls'[j] = calls[j]
  BY <1>2, <1>4 DEF Keep, CallLike
<1>6. DocumentCalls' = DocumentCalls /\ Asked' = Asked
  BY <1>5, KeptIsAsked
<1>7. CASE calls[k].op \in Editing
  <2>1. k \in DocumentCalls /\ k \in Unanswered
    BY <1>7 DEF DocumentCalls, Unanswered
  <2>2. Unanswered' = Unanswered \ {k}
    BY <1>3, <1>5, <1>6 DEF Unanswered, DocumentCalls
  <2>3. /\ Asked[k].id = calls[k].id /\ Asked[k].base = calls[k].base
        /\ Asked[k].new = calls[k].new
    BY <2>1 DEF Asked
  <2>4. Docs!Accept(k)
    BY <1>1, <1>2, <1>6, <1>7, <2>1, <2>2, <2>3 DEF Docs!Accept
  <2> QED BY <2>1, <2>4 DEF Docs!DocumentsNext
<1>8. CASE calls[k].op \notin Editing
  BY <1>1, <1>2, <1>5, <1>8, Stutters
<1> QED BY <1>7, <1>8

LEMMA AnswerRefuses ==
  ASSUME ItemInv, NEW k \in DOMAIN calls, calls[k].phase = "sent", Answers(k)
  PROVE  [Docs!DocumentsNext]_(Docs!documentVars)
<1>1. PICK outcome : Answer(k, outcome)
  BY DEF Answers
<1>2. /\ server' = server
      /\ calls' = [calls EXCEPT ![k].phase = "answered", ![k].outcome = outcome]
  BY <1>1 DEF Answer, serverVars
<1>3. CallLike(calls[k])
  BY DEF ItemInv, CallsKnow, CallKnows
<1>4. /\ Keep(calls, calls') /\ calls'[k].phase = "answered"
      /\ \A j \in DOMAIN calls : j # k => calls'[j] = calls[j]
  BY <1>2, <1>3 DEF Keep, CallLike
<1>5. DocumentCalls' = DocumentCalls /\ Asked' = Asked
  BY <1>4, KeptIsAsked
<1>6. CASE calls[k].op \in Editing
  <2>1. k \in Unanswered /\ Unanswered' = Unanswered \ {k}
    BY <1>4, <1>5, <1>6 DEF Unanswered, DocumentCalls
  <2>2. Docs!Refuse(k)
    BY <1>2, <1>5, <2>1 DEF Docs!Refuse
  <2> QED BY <2>1, <2>2 DEF Docs!DocumentsNext
<1>7. CASE calls[k].op \notin Editing
  BY <1>2, <1>4, <1>7, Stutters
<1> QED BY <1>6, <1>7

LEMMA CrashRefusesAll ==
  ASSUME ItemInv, Crash
  PROVE  [Docs!DocumentsNext]_(Docs!documentVars)
<1>1. server' = server
  BY DEF Crash
<1>2. \A k \in DOMAIN calls : CallLike(calls[k])
  BY DEF ItemInv, CallsKnow, CallKnows
<1>3. /\ DOMAIN calls' = DOMAIN calls
      /\ \A k \in DOMAIN calls :
           calls'[k] = IF calls[k].phase \in {"sent", "unlocked"}
                       THEN [calls[k] EXCEPT !.phase = "answered", !.outcome = "failed",
                                             !.reply = Nothing]
                       ELSE calls[k]
  BY DEF Crash
<1>4. Keep(calls, calls') /\ \A k \in DOMAIN calls : calls'[k].phase # "sent"
  <2>1. ASSUME NEW k \in DOMAIN calls
        PROVE  /\ calls'[k].op = calls[k].op /\ calls'[k].id = calls[k].id
               /\ calls'[k].base = calls[k].base /\ calls'[k].new = calls[k].new
               /\ calls'[k].phase # "sent"
    <3> DEFINE c == calls[k]
    <3>1. CallLike(c) /\ calls'[k] = IF c.phase \in {"sent", "unlocked"}
                                    THEN [c EXCEPT !.phase = "answered", !.outcome = "failed",
                                                   !.reply = Nothing]
                                    ELSE c
      BY <1>2, <1>3, <2>1
    <3> HIDE DEF c
    <3>2. /\ calls'[k].op = c.op /\ calls'[k].id = c.id /\ calls'[k].base = c.base
          /\ calls'[k].new = c.new /\ calls'[k].phase # "sent"
      BY <3>1 DEF CallLike
    <3> QED BY <3>2 DEF c
  <2> QED BY <1>3, <2>1 DEF Keep
<1>5. DocumentCalls' = DocumentCalls /\ Asked' = Asked
  BY <1>4, KeptIsAsked
<1>6. Unanswered' = {}
  BY <1>4, <1>5 DEF Unanswered, DocumentCalls
<1> QED BY <1>1, <1>5, <1>6 DEF Docs!DocumentsNext, Docs!RefuseAll

LEMMA CallAsks ==
  ASSUME ItemInv, NEW b, NEW op \in {"create", "update", "delete", "reorder"},
         Makes(b, op)
  PROVE  [Docs!DocumentsNext]_(Docs!documentVars)
<1>1. PICK c : /\ calls' = Append(calls, c) /\ c.op = op /\ c.phase = "sent"
               /\ CallKnows(server, c) /\ server' = server
  BY DEF Makes
<1> DEFINE n == Len(calls) + 1
<1>2. /\ Len(calls) \in Nat /\ DOMAIN calls = 1 .. Len(calls)
      /\ DOMAIN calls' = 1 .. n /\ calls'[n] = c
      /\ \A k \in DOMAIN calls : calls'[k] = calls[k]
  <2>1. IsSeq(calls)
    BY DEF ItemInv, CallsKnow
  <2> QED BY <1>1, <2>1, SequenceFacts, Appended
<1>3. n \notin DOMAIN calls /\ DOMAIN calls' = DOMAIN calls \cup {n}
  BY <1>2
<1> HIDE DEF n
<1>4. CASE op \in Editing
  <2> DEFINE edit == [id |-> c.id, base |-> c.base, new |-> c.new]
  <2>1. DocumentCalls' = DocumentCalls \cup {n} /\ n \notin DocumentCalls
    BY <1>1, <1>2, <1>3, <1>4 DEF DocumentCalls
  <2>2. Asked' = [m \in DOMAIN Asked \cup {n} |-> IF m = n THEN edit ELSE Asked[m]]
    BY <1>2, <1>3, <2>1 DEF Asked, DocumentCalls
  <2>3. Unanswered' = Unanswered \cup {n}
    BY <1>1, <1>2, <1>3, <2>1 DEF Unanswered, DocumentCalls
  <2>4. edit \in Docs!Edits
    BY <1>1, <1>4 DEF CallKnows, CallLike, Docs!Edits, Contents
  <2>5. n \in DOMAIN Asked' \ DOMAIN Asked
    BY <2>1 DEF Asked
  <2>6. Docs!Ask
    BY <1>1, <2>2, <2>3, <2>4, <2>5 DEF Docs!Ask
  <2> QED BY <2>6 DEF Docs!DocumentsNext
<1>5. CASE op \notin Editing
  <2>1. DocumentCalls' = DocumentCalls
    BY <1>1, <1>2, <1>3, <1>5 DEF DocumentCalls
  <2>2. Asked' = Asked /\ Unanswered' = Unanswered
    BY <1>2, <2>1 DEF Asked, Unanswered, DocumentCalls
  <2> QED BY <1>1, <2>2 DEF Docs!documentVars
<1> QED BY <1>4, <1>5

LEMMA FinishStutters ==
  ASSUME ItemInv, NEW k \in DOMAIN calls, Finish(k), calls[k].phase = "answered",
         server' = server
  PROVE  UNCHANGED Docs!documentVars
<1> DEFINE c == [calls[k] EXCEPT
              !.phase = "done", !.outcome = "none", !.reply = Nothing, !.blind = FALSE,
              !.expected = Nothing, !.from = <<>>, !.order = <<>>]
<1>1. calls' = [calls EXCEPT ![k] = c]
  BY DEF Finish
<1>2. CallLike(calls[k])
  BY DEF ItemInv, CallsKnow, CallKnows
<1>3. /\ c.op = calls[k].op /\ c.id = calls[k].id /\ c.base = calls[k].base
      /\ c.new = calls[k].new /\ c.phase = "done"
  BY <1>2 DEF CallLike
<1> HIDE DEF c
<1>4. Keep(calls, calls') /\ calls'[k].phase = "done"
  BY <1>1, <1>3 DEF Keep
<1>5. \A j \in DOMAIN calls : j # k => calls'[j] = calls[j]
  BY <1>1
<1> QED BY <1>4, <1>5, Stutters

LEMMA DocumentsStep ==
  ItemInv /\ [ResourcesNext]_resourcesVars => [Docs!DocumentsNext]_(Docs!documentVars)
<1> SUFFICES ASSUME ItemInv, [ResourcesNext]_resourcesVars
             PROVE  [Docs!DocumentsNext]_(Docs!documentVars)
  OBVIOUS
<1> USE DEF serverVars, browserVars
<1>1. ASSUME NEW k \in DOMAIN calls, Serve(k)
      PROVE  [Docs!DocumentsNext]_(Docs!documentVars)
  <2>1. CASE PublishChange(k)
    <3>1. /\ server' = server /\ calls[k].phase = "unlocked"
          /\ calls' = [calls EXCEPT ![k].phase = "answered"]
      BY <2>1 DEF PublishChange
    <3>2. CallLike(calls[k])
      BY DEF ItemInv, CallsKnow, CallKnows
    <3>3. /\ Keep(calls, calls') /\ calls'[k].phase = "answered"
          /\ \A j \in DOMAIN calls : j # k => calls'[j] = calls[j]
      BY <3>1, <3>2 DEF Keep, CallLike
    <3> QED BY <3>1, <3>3, Stutters
  <2> QED BY <1>1, <2>1, ServeDoes, CommitAccepts, AnswerRefuses
<1>2. ASSUME NEW k \in DOMAIN calls, Receive(k)
      PROVE  UNCHANGED Docs!documentVars
  <2>1. Finish(k) /\ calls[k].phase = "answered" /\ server' = server
    BY <1>2 DEF Receive, ReceiveReply, DropReply, ReceiveError, Ignore
  <2> QED BY <2>1, FinishStutters
<1>3. ASSUME server'.content = server.content, calls' = calls
      PROVE  UNCHANGED Docs!documentVars
  BY <1>3, Stutters DEF Keep
<1>4. ASSUME NEW b \in Browsers, Use(b)
      PROVE  [Docs!DocumentsNext]_(Docs!documentVars)
  <2>1. \/ \E op \in {"create", "update", "delete", "reorder"} : Makes(b, op)
        \/ \E id \in Ids : OpenForm(b, id)
    BY <1>4, Edits, Removes, Adds, Drags DEF Use
  <2>2. ASSUME NEW id \in Ids, OpenForm(b, id) PROVE UNCHANGED Docs!documentVars
    BY <1>3, <2>2 DEF OpenForm
  <2> QED BY <2>1, <2>2, CallAsks
<1>5. ASSUME NEW b \in Browsers, Refresh(b) PROVE UNCHANGED Docs!documentVars
  BY <1>3, <1>5
    DEF Refresh, Reload, Open, AddClient, OnResourceChanged, RefreshTimer, ListProfiles,
        ReceiveList, browserVars
<1>6. ASSUME Boot PROVE UNCHANGED Docs!documentVars
  BY <1>3, <1>6, Boots DEF Boot
<1>7. ASSUME UNCHANGED resourcesVars PROVE UNCHANGED Docs!documentVars
  BY <1>3, <1>7 DEF resourcesVars
<1> QED BY <1>1, <1>2, <1>4, <1>5, <1>6, <1>7, CrashRefusesAll DEF ResourcesNext

(* Whoever replaces, removes or creates an item replaces exactly what he saw. *)
THEOREM DocumentsAreImplemented == ResourcesSpec => ImplementsDocuments
<1>1. ResourcesSpec => []ItemInv
  BY ItemInvInit, ItemInvStep, PTL DEF ResourcesSpec
<1> QED
  BY <1>1, DocumentsStart, DocumentsStep, PTL
    DEF ResourcesSpec, ImplementsDocuments, Docs!DocumentsSpec

-----------------------------------------------------------------------------
(* Orders name each item once. *)

IsOrder(o, P) ==
  /\ o \in Seq(P)
  /\ \A m, n \in 1 .. Len(o) : o[m] = o[n] => m = n

LEMMA OrdersAreOrders ==
  ASSUME NEW o \in Orders
  PROVE  IsOrder(o, Ids)
<1>1. Cardinality(Ids) \in Nat
  BY ResourcesAssumption, FS_CardinalityType
<1>2. PICK n \in 0 .. Cardinality(Ids) :
        o \in [1 .. n -> Ids] /\ Cardinality({o[k] : k \in 1 .. n}) = n
  BY Zenon DEF Orders
<1> DEFINE S == 1 .. n
           T == {o[k] : k \in 1 .. n}
<1>3. n \in Nat /\ IsFiniteSet(S) /\ Cardinality(S) = n
  BY <1>1, FS_Interval
<1>4. o \in Surjection(S, T)
  BY <1>2 DEF Surjection
<1>5. o \in Injection(S, T)
  BY <1>2, <1>3, <1>4, FS_SurjSameCardinalityImpliesInj
<1>6. \A i, j \in S : o[i] = o[j] => i = j
  BY <1>2, <1>5 DEF Injection, IsInjective
<1>7. o \in Seq(Ids) /\ Len(o) = n
  BY <1>2, <1>3
<1> QED BY <1>6, <1>7 DEF IsOrder

LEMMA FirstOrderIsOrder == IsOrder(FirstOrder, FirstIds)
<1> DEFINE n == Cardinality(FirstIds)
<1>1. /\ IsFiniteSet(FirstIds) /\ n <= Cardinality(Ids) /\ n \in Nat
      /\ Cardinality(Ids) \in Nat
  BY ResourcesAssumption, FS_Subset, FS_CardinalityType
<1>2. PICK f : f \in Bijection(1 .. n, FirstIds)
  BY <1>1, FS_CountingElements, FS_NatBijection, FS_CardinalityType DEF ExistsBijection
<1>3. {f[k] : k \in 1 .. n} = FirstIds /\ f \in [1 .. n -> Ids] /\ DOMAIN f = 1 .. n
  BY <1>2, ResourcesAssumption DEF Bijection, Surjection, Injection
<1>4. f \in Orders
  <2>1. n \in 0 .. Cardinality(Ids)
    BY <1>1
  <2>2. Cardinality({f[k] : k \in 1 .. n}) = n
    BY <1>3
  <2> HIDE DEF n
  <2>3. f \in {o \in [1 .. n -> Ids] : Cardinality({o[k] : k \in 1 .. n}) = n}
    BY <1>3, <2>2
  <2> QED BY <2>1, <2>3, Zenon DEF Orders
<1>5. FirstOrder \in Orders /\ {FirstOrder[k] : k \in DOMAIN FirstOrder} = FirstIds
  BY <1>3, <1>4 DEF FirstOrder
<1>6. IsOrder(FirstOrder, Ids)
  BY <1>5, OrdersAreOrders
<1>7. FirstOrder \in Seq(FirstIds)
  <2>1. \A k \in 1 .. Len(FirstOrder) : FirstOrder[k] \in FirstIds
    BY <1>5, <1>6 DEF IsOrder
  <2>2. FirstOrder \in [1 .. Len(FirstOrder) -> FirstIds] /\ Len(FirstOrder) \in Nat
    BY <1>6, <2>1 DEF IsOrder
  <2> QED BY <2>2
<1> QED BY <1>6, <1>7 DEF IsOrder

LEMMA OrderAppended ==
  ASSUME NEW P, NEW o, IsOrder(o, P), NEW id, id \notin P
  PROVE  IsOrder(Append(o, id), P \cup {id})
<1>1. o \in Seq(P \cup {id})
  BY DEF IsOrder
<1> QED BY <1>1, AppendProperties DEF IsOrder

LEMMA WithoutAbsent ==
  ASSUME NEW P, NEW o, IsOrder(o, P), NEW id, id \notin P
  PROVE  Without(o, id) = o
  BY DEF IsOrder, Without

LEMMA OrderWithout ==
  ASSUME NEW P, NEW o, IsOrder(o, P), NEW id
  PROVE  IsOrder(Without(o, id), P \ {id})
<1>1. CASE \A n \in DOMAIN o : o[n] # id
  <2>1. \A n \in 1 .. Len(o) : o[n] \in P \ {id}
    BY <1>1 DEF IsOrder
  <2>2. o \in [1 .. Len(o) -> P \ {id}] /\ Len(o) \in Nat
    BY <2>1 DEF IsOrder
  <2>3. o \in Seq(P \ {id})
    BY <2>2
  <2> QED BY <1>1, <2>3 DEF IsOrder, Without
<1>2. CASE \E n \in DOMAIN o : o[n] = id
  <2> DEFINE at == CHOOSE n \in DOMAIN o : o[n] = id
             Q == P \ {id}
             a == SubSeq(o, 1, at - 1)
             c == SubSeq(o, at + 1, Len(o))
  <2>1. at \in 1 .. Len(o) /\ o[at] = id /\ Len(o) \in Nat
    BY <1>2 DEF IsOrder
  <2>2. Without(o, id) = a \o c
    BY <1>2 DEF Without
  <2> HIDE DEF at
  <2>3. \A i \in 1 .. Len(o) : i # at => o[i] \in Q
    BY <2>1 DEF IsOrder
  <2>4. /\ a \in Seq(Q) /\ Len(a) = at - 1
        /\ \A i \in 1 .. at - 1 : a[i] = o[i]
    <3>1. at - 1 \in Int /\ \A i \in 1 .. at - 1 : o[i] \in Q
      BY <2>1, <2>3
    <3> QED BY <2>1, <3>1, SubSeqProperties
  <2>5. /\ c \in Seq(Q) /\ Len(c) = Len(o) - at
        /\ \A i \in 1 .. Len(o) - at : c[i] = o[at + i]
    <3>1. at + 1 \in Int /\ Len(o) \in Int /\ \A i \in at + 1 .. Len(o) : o[i] \in Q
      BY <2>1, <2>3
    <3> QED BY <2>1, <3>1, SubSeqProperties
  <2> HIDE DEF a, c
  <2> DEFINE w == a \o c
  <2>6. /\ w \in Seq(Q) /\ Len(w) = Len(o) - 1
        /\ \A i \in 1 .. Len(o) - 1 : w[i] = IF i < at THEN o[i] ELSE o[i + 1]
    <3>1. /\ w \in Seq(Q) /\ Len(w) = Len(a) + Len(c)
          /\ \A i \in 1 .. Len(a) + Len(c) :
               w[i] = IF i <= Len(a) THEN a[i] ELSE c[i - Len(a)]
      BY <2>4, <2>5, ConcatProperties
    <3> HIDE DEF w
    <3>2. ASSUME NEW i \in 1 .. Len(o) - 1, i < at PROVE w[i] = o[i]
      BY <2>1, <2>4, <2>5, <3>1, <3>2
    <3>3. ASSUME NEW i \in 1 .. Len(o) - 1, ~(i < at) PROVE w[i] = o[i + 1]
      <4>1. i - (at - 1) \in 1 .. Len(o) - at /\ at + (i - (at - 1)) = i + 1
        BY <2>1, <3>3
      <4>2. w[i] = c[i - (at - 1)]
        <5>1. i \in 1 .. Len(a) + Len(c) /\ ~(i <= Len(a)) /\ Len(a) = at - 1
          BY <2>1, <2>4, <2>5, <3>3
        <5> QED BY <3>1, <5>1
      <4> QED BY <2>5, <4>1, <4>2
    <3> QED BY <2>1, <2>4, <2>5, <3>1, <3>2, <3>3
  <2> HIDE DEF w
  <2>7. ASSUME NEW m \in 1 .. Len(w), NEW n \in 1 .. Len(w), w[m] = w[n] PROVE m = n
    <3> DEFINE i == IF m < at THEN m ELSE m + 1
               j == IF n < at THEN n ELSE n + 1
    <3>1. w[m] = o[i] /\ w[n] = o[j] /\ i \in 1 .. Len(o) /\ j \in 1 .. Len(o)
      BY <2>1, <2>6
    <3>2. i = j
      BY <2>7, <3>1 DEF IsOrder
    <3> QED BY <2>1, <2>6, <3>2
  <2> QED BY <2>2, <2>6, <2>7 DEF IsOrder, w
<1> QED BY <1>1, <1>2

(* An order of some of the items is one of Orders. *)
LEMMA OrderIsInOrders ==
  ASSUME NEW P \in SUBSET Ids, NEW o, IsOrder(o, P)
  PROVE  o \in Orders
<1> DEFINE n == Len(o)
           S == 1 .. n
           T == {o[k] : k \in S}
<1>1. o \in Seq(Ids) /\ n \in Nat /\ o \in [S -> Ids]
  BY DEF IsOrder
<1>2. IsFiniteSet(S) /\ Cardinality(S) = n
  BY <1>1, FS_Interval
<1>3. o \in Surjection(S, T) /\ o \in Injection(S, T)
  <2>1. o \in [S -> T] /\ \A t \in T : \E k \in S : o[k] = t
    BY <1>1
  <2>2. \A i, j \in S : o[i] = o[j] => i = j
    BY DEF IsOrder
  <2> HIDE DEF S, T, n
  <2> QED BY <2>1, <2>2 DEF Surjection, Injection, IsInjective
<1>4. Cardinality(T) = n
  BY <1>2, <1>3, FS_Surjection
<1>5. n <= Cardinality(Ids) /\ Cardinality(Ids) \in Nat
  <2>1. T \subseteq Ids
    BY <1>1
  <2> HIDE DEF T
  <2> QED BY <1>4, <2>1, FS_Subset, FS_CardinalityType, ResourcesAssumption
<1>6. o \in {f \in [1 .. n -> Ids] : Cardinality({f[k] : k \in 1 .. n}) = n}
  BY <1>1, <1>4
<1>7. n \in 0 .. Cardinality(Ids)
  BY <1>1, <1>5
<1> HIDE DEF n
<1> QED BY <1>6, <1>7, Zenon DEF Orders

LEMMA EmptyOrder == <<>> \in Orders
<1>1. IsOrder(<<>>, {})
  BY DEF IsOrder
<1> QED BY <1>1, OrderIsInOrders

(* The numbers of a finite set, in the order of their size, have the places 1 to its size. *)
LEMMA Places ==
  ASSUME NEW n \in Nat, NEW S \in SUBSET (1 .. n), NEW f,
         f = [k \in S |-> Cardinality({m \in S : m <= k})]
  PROVE  /\ Cardinality(S) \in Nat
         /\ \A p \in 1 .. Cardinality(S) : \E k \in S : f[k] = p
<1> DEFINE C == Cardinality(S)
           B(k) == {m \in S : m <= k}
<1>1. IsFiniteSet(S) /\ C \in Nat
  <2>1. IsFiniteSet(1 .. n)
    BY FS_Interval
  <2> QED BY <2>1, FS_Subset, FS_CardinalityType
<1>2. ASSUME NEW k \in S PROVE IsFiniteSet(B(k)) /\ Cardinality(B(k)) \in 1 .. C
  <2>1. B(k) \subseteq S /\ k \in B(k)
    OBVIOUS
  <2> DEFINE X == B(k)
  <2> HIDE DEF X
  <2>2. IsFiniteSet(X) /\ Cardinality(X) <= C /\ X # {}
    BY <1>1, <2>1, FS_Subset DEF X
  <2>3. Cardinality(X) \in Nat /\ Cardinality(X) # 0
    BY <2>2, FS_CardinalityType, FS_EmptySet
  <2> QED BY <1>1, <2>2, <2>3 DEF X
<1>3. f \in [S -> 1 .. C] /\ \A k \in S : f[k] = Cardinality(B(k))
  BY <1>2
<1>4. ASSUME NEW j \in S, NEW k \in S, j < k PROVE f[j] # f[k]
  <2>1. B(j) \subseteq B(k) /\ k \in B(k) /\ k \notin B(j)
    <3>1. S \subseteq Nat /\ j \in Nat /\ k \in Nat
      OBVIOUS
    <3>2. \A m \in S : m <= j => m <= k
      BY <1>4, <3>1
    <3>3. k <= k /\ ~(k <= j)
      BY <1>4, <3>1
    <3> QED BY <3>2, <3>3
  <2> DEFINE X == B(j)
             Y == B(k)
  <2>2. X \in SUBSET Y /\ X # Y /\ IsFiniteSet(Y)
    BY <1>2, <2>1
  <2> HIDE DEF X, Y
  <2>3. Cardinality(X) # Cardinality(Y)
    BY <2>2, FS_Subset
  <2> QED BY <1>3, <2>3 DEF X, Y
<1>5. \A j, k \in S : f[j] = f[k] => j = k
  BY <1>4
<1>6. f \in Injection(S, 1 .. C)
  BY <1>3, <1>5 DEF Injection, IsInjective
<1>7. IsFiniteSet(1 .. C) /\ Cardinality(1 .. C) = C
  BY <1>1, FS_Interval
<1>8. f \in Surjection(S, 1 .. C)
  BY <1>6, <1>7, FS_Injection
<1> QED BY <1>1, <1>8 DEF Surjection

(* Of an order, what the page has is an order, and all of it if it has all. *)
LEMMA OrderedIsOrder ==
  ASSUME NEW v, NEW o, IsOrder(o, Ids)
  PROVE  /\ IsOrder(Ordered(v, o), Present(v))
         /\ (\A n \in 1 .. Len(o) : o[n] \in Present(v)) => Ordered(v, o) = o
<1> DEFINE kept == {n \in DOMAIN o : o[n] \in Present(v)}
           place == [n \in kept |-> Cardinality({m \in kept : m <= n})]
           at == [p \in 1 .. Cardinality(kept) |-> CHOOSE n \in kept : place[n] = p]
           w == [p \in 1 .. Cardinality(kept) |-> o[CHOOSE n \in kept : place[n] = p]]
<1>1. Len(o) \in Nat /\ DOMAIN o = 1 .. Len(o) /\ o = [n \in 1 .. Len(o) |-> o[n]]
  BY DEF IsOrder
<1>2. Ordered(v, o) = w
  BY DEF Ordered
<1>3. Cardinality(kept) \in Nat /\ \A p \in 1 .. Cardinality(kept) : \E k \in kept : place[k] = p
  <2>1. kept \in SUBSET (1 .. Len(o))
    BY <1>1
  <2> HIDE DEF kept
  <2> QED BY <1>1, <2>1, Places
<1>4. ASSUME \A n \in 1 .. Len(o) : o[n] \in Present(v)
      PROVE  kept = 1 .. Len(o) /\ Cardinality(kept) = Len(o) /\ \A k \in 1 .. Len(o) : place[k] = k
  <2>1. kept = 1 .. Len(o)
    BY <1>1, <1>4
  <2> HIDE DEF kept
  <2>2. Cardinality(kept) = Len(o)
    BY <1>1, <2>1, FS_Interval
  <2>3. ASSUME NEW k \in 1 .. Len(o) PROVE place[k] = k
    <3>1. {m \in kept : m <= k} = 1 .. k /\ k \in Nat /\ k >= 1
      BY <1>1, <2>1
    <3>2. Cardinality(1 .. k) = k
      BY <3>1, FS_Interval
    <3> QED BY <2>1, <3>1, <3>2
  <2> QED BY <2>1, <2>2, <2>3
<1> HIDE DEF place
<1>5. \A p \in 1 .. Cardinality(kept) : at[p] \in kept /\ place[at[p]] = p
  BY <1>3
<1>6. w = [p \in 1 .. Cardinality(kept) |-> o[at[p]]]
  OBVIOUS
<1> HIDE DEF w, at
<1>7. \A p \in 1 .. Cardinality(kept) : w[p] = o[at[p]] /\ w[p] \in Present(v) /\ at[p] \in 1 .. Len(o)
  BY <1>1, <1>5, <1>6
<1> HIDE DEF kept
<1>8. w \in Seq(Present(v)) /\ Len(w) = Cardinality(kept)
  <2>1. w \in [1 .. Cardinality(kept) -> Present(v)]
    BY <1>6, <1>7
  <2> QED BY <1>3, <2>1
<1>9. ASSUME NEW p \in 1 .. Cardinality(kept), NEW q \in 1 .. Cardinality(kept), w[p] = w[q]
      PROVE  p = q
  <2>1. at[p] = at[q]
    BY <1>7, <1>9 DEF IsOrder
  <2> QED BY <1>5, <2>1
<1>10. ASSUME \A n \in 1 .. Len(o) : o[n] \in Present(v) PROVE w = o
  <2>1. \A p \in 1 .. Len(o) : at[p] = p
    BY <1>4, <1>5, <1>7, <1>10
  <2> QED BY <1>1, <1>4, <1>6, <1>10, <2>1
<1> QED BY <1>2, <1>8, <1>9, <1>10 DEF IsOrder

-----------------------------------------------------------------------------
(* What lists tell of the order. *)

Tells(list) ==
  [instance |-> list.instance, state |-> list.state, orderRev |-> list.orderRev,
   items |-> list.items, order |-> list.order, content |-> list.content]

(* Revision r of the order, given by instance i, was given to order o. *)
OrderKnown(s, i, r, o) ==
  /\ i \in Nat /\ r \in Nat /\ i <= s.instance
  /\ i = s.instance => r <= s.state /\ (r = s.orderRev => o = s.order)

Telling(t) ==
  /\ t.instance \in Nat /\ t.state \in Nat /\ t.content \in [Ids -> Contents]
  /\ IsOrder(t.order, Present(t))

(* All that the lists of T tell is of the same history, of which s is the latest. *)
Agree(s, T) ==
  /\ s \in T
  /\ \A t \in T : /\ Telling(t)
                  /\ t.instance <= s.instance
                  /\ t.instance = s.instance => t.state <= s.state
                  /\ OrderKnown(s, t.instance, t.orderRev, t.order)
  /\ \A t, u \in T : t.instance = u.instance /\ t.state = u.state => t = u

(* Call c leads from what t tells to what its reply tells. *)
Leads(t, c) ==
  /\ \A j \in Ids : c.op = "reorder" \/ j # c.id =>
       c.reply.content[j] = t.content[j] /\ c.reply.items[j] = t.items[j]
  /\ c.op = "create" => c.id \notin Present(t) /\ c.reply.order = Append(t.order, c.id)
  /\ c.op = "update" => c.id \in Present(t) /\ c.reply.order = t.order
  /\ c.op = "delete" => c.reply.order = Without(t.order, c.id)
  /\ c.op = "reorder" => Len(c.order) = Len(t.order)

CallFits(s, T, c) ==
  /\ c.outcome = "changed" =>
       \A t \in T : /\ t.instance = c.reply.instance
                    /\ t.state + 1 = c.reply.state
                    => Leads(t, c)
  /\ c.op = "reorder" /\ c.outcome \in Succeeded => c.reply.order = c.order
  /\ c.op = "reorder" /\ c.phase = "sent" =>
       /\ IsOrder(c.order, Ids)
       /\ c.blind \/ OrderKnown(s, c.expected.instance, c.expected.revision, c.from)

(* The lists that are shown, unless a page was moved past what it shows, and those
   that are on their way. *)
ListTold(T, l) ==
  \A n \in DOMAIN l : l[n].reply # Nothing => Tells(l[n].reply) \in T
CallTold(T, c) == c.outcome \in Succeeded => Tells(c.reply) \in T

ToldIn(T) ==
  /\ Tells(server) \in T
  /\ \A b \in Browsers : passedOver[b] \/ Tells(view[b]) \in T
  /\ \A b \in Browsers : ListTold(T, lists[b])
  /\ \A k \in DOMAIN calls : CallTold(T, calls[k])

ListReplies(l) == {Tells(l[n].reply) : n \in {m \in DOMAIN l : l[m].reply # Nothing}}
CallReplies(cs) == {Tells(cs[k].reply) : k \in {j \in DOMAIN cs : cs[j].outcome \in Succeeded}}

PageTells == {Tells(view[b]) : b \in {a \in Browsers : ~passedOver[a]}}
ListTells == UNION {ListReplies(lists[b]) : b \in Browsers}

Told == {Tells(server)} \cup PageTells \cup ListTells \cup CallReplies(calls)

OrderInv ==
  /\ DOMAIN passedOver = Browsers
  /\ Agree(Tells(server), Told)
  /\ \A k \in DOMAIN calls : CallFits(Tells(server), Told, calls[k])

LEMMA RepliesToldAs ==
  /\ \A l, T : ListTold(T, l) <=> ListReplies(l) \subseteq T
  /\ \A cs, T : (\A k \in DOMAIN cs : CallTold(T, cs[k])) <=> CallReplies(cs) \subseteq T
<1>1. ASSUME NEW l, NEW T, ListTold(T, l) PROVE ListReplies(l) \subseteq T
  BY <1>1 DEF ListTold, ListReplies
<1>2. ASSUME NEW l, NEW T, ListReplies(l) \subseteq T PROVE ListTold(T, l)
  <2> SUFFICES ASSUME NEW n \in DOMAIN l, l[n].reply # Nothing PROVE Tells(l[n].reply) \in T
    BY DEF ListTold
  <2>1. n \in {m \in DOMAIN l : l[m].reply # Nothing}
    OBVIOUS
  <2>2. Tells(l[n].reply) \in ListReplies(l)
    BY <2>1, Zenon DEF ListReplies
  <2> QED BY <1>2, <2>2
<1>3. ASSUME NEW cs, NEW T, \A k \in DOMAIN cs : CallTold(T, cs[k])
      PROVE  CallReplies(cs) \subseteq T
  BY <1>3 DEF CallTold, CallReplies
<1>4. ASSUME NEW cs, NEW T, CallReplies(cs) \subseteq T
      PROVE  \A k \in DOMAIN cs : CallTold(T, cs[k])
  <2> SUFFICES ASSUME NEW k \in DOMAIN cs, cs[k].outcome \in Succeeded
               PROVE  Tells(cs[k].reply) \in T
    BY DEF CallTold
  <2>1. k \in {j \in DOMAIN cs : cs[j].outcome \in Succeeded}
    OBVIOUS
  <2>2. Tells(cs[k].reply) \in CallReplies(cs)
    BY <2>1, Zenon DEF CallReplies
  <2> QED BY <1>4, <2>2
<1> QED BY <1>1, <1>2, <1>3, <1>4

LEMMA ToldIsTold == ToldIn(Told)
<1>1. \A b \in Browsers : passedOver[b] \/ Tells(view[b]) \in PageTells
  BY DEF PageTells
<1>2. ASSUME NEW b \in Browsers PROVE ListReplies(lists[b]) \subseteq ListTells
  BY DEF ListTells
<1>3. /\ Tells(server) \in Told /\ CallReplies(calls) \subseteq Told
      /\ PageTells \subseteq Told /\ ListTells \subseteq Told
  BY DEF Told
<1> QED BY <1>1, <1>2, <1>3, RepliesToldAs DEF ToldIn

LEMMA ToldIsLeast ==
  ASSUME NEW T, ToldIn(T)'
  PROVE  Told' \subseteq T
<1>1. \A b \in Browsers : ListReplies(lists'[b]) \subseteq T
  BY RepliesToldAs DEF ToldIn
<1>2. CallReplies(calls') \subseteq T
  BY RepliesToldAs DEF ToldIn
<1>3. Tells(server') \in T /\ \A b \in Browsers : passedOver'[b] \/ Tells(view'[b]) \in T
  BY DEF ToldIn
<1>4. PageTells' \subseteq T
  BY <1>3 DEF PageTells
<1>5. ListTells' \subseteq T
  BY <1>1 DEF ListTells
<1> QED BY <1>2, <1>3, <1>4, <1>5 DEF Told

LEMMA AgreeOnLess ==
  ASSUME NEW s, NEW T, NEW U, Agree(s, T), U \subseteq T, s \in U
  PROVE  Agree(s, U)
  BY DEF Agree

LEMMA FitsLess ==
  ASSUME NEW s, NEW T, NEW U, NEW c, CallFits(s, T, c), U \subseteq T
  PROVE  CallFits(s, U, c)
  BY DEF CallFits

(* With one more list the others still agree. *)
LEMMA ToldGrows ==
  ASSUME DOMAIN passedOver' = Browsers, NEW T, ToldIn(T)', Agree(Tells(server'), T),
         \A k \in DOMAIN calls' : CallFits(Tells(server'), T, calls'[k])
  PROVE  OrderInv'
<1>1. Told' \subseteq T
  BY ToldIsLeast
<1>2. Tells(server') \in Told'
  BY DEF Told
<1>3. Agree(Tells(server'), Told')
  BY <1>1, <1>2, AgreeOnLess
<1>4. \A k \in DOMAIN calls' : CallFits(Tells(server'), Told', calls'[k])
  BY <1>1, FitsLess
<1> QED BY <1>3, <1>4 DEF OrderInv

-----------------------------------------------------------------------------
(* How the order changes at the server. *)

(* u is what the server tells next, after s. *)
Later(s, u) ==
  /\ Telling(u) /\ OrderKnown(u, u.instance, u.orderRev, u.order)
  /\ \/ /\ u.instance = s.instance /\ u.state = s.state + 1
        /\ \/ u.orderRev = u.state
           \/ u.orderRev = s.orderRev /\ u.order = s.order
     \/ u.instance = s.instance + 1

LEMMA OrderKnownStays ==
  ASSUME NEW s, Telling(s), NEW u, Later(s, u), NEW i, NEW r, NEW o,
         OrderKnown(s, i, r, o)
  PROVE  OrderKnown(u, i, r, o)
  BY DEF Telling, Later, OrderKnown

LEMMA AgreeLater ==
  ASSUME NEW s, NEW T, Agree(s, T), NEW u, Later(s, u)
  PROVE  Agree(u, T \cup {u})
<1>1. Telling(s) /\ Telling(u)
  BY DEF Agree, Later
<1>2. ASSUME NEW t \in T
      PROVE  /\ Telling(t) /\ t.instance <= u.instance
             /\ t.instance = u.instance => t.state < u.state
             /\ OrderKnown(u, t.instance, t.orderRev, t.order)
  <2>1. /\ Telling(t) /\ t.instance <= s.instance
        /\ t.instance = s.instance => t.state <= s.state
        /\ OrderKnown(s, t.instance, t.orderRev, t.order)
    BY DEF Agree
  <2> QED BY <1>1, <2>1, OrderKnownStays DEF Telling, Later
<1>3. OrderKnown(u, u.instance, u.orderRev, u.order)
  BY DEF Later
<1>4. \A t, v \in T \cup {u} : t.instance = v.instance /\ t.state = v.state => t = v
  BY <1>1, <1>2 DEF Agree, Telling
<1> QED BY <1>1, <1>2, <1>3, <1>4 DEF Agree, Telling

LEMMA FitsLater ==
  ASSUME NEW s, NEW T, Agree(s, T), NEW u, Later(s, u),
         NEW c, CallFits(s, T, c), CallTold(T, c)
  PROVE  CallFits(u, T \cup {u}, c)
<1>1. Telling(s) /\ Telling(u)
  BY DEF Agree, Later
<1>2. ASSUME c.outcome = "changed", u.instance = c.reply.instance, u.state + 1 = c.reply.state
      PROVE  FALSE
  <2> DEFINE t == Tells(c.reply)
  <2>1. t \in T /\ t.instance = c.reply.instance /\ t.state = c.reply.state
    BY <1>2 DEF CallTold, Succeeded, Tells
  <2>2. t.instance <= s.instance /\ (t.instance = s.instance => t.state <= s.state)
    BY <2>1 DEF Agree
  <2> QED BY <1>1, <1>2, <2>1, <2>2 DEF Later, Telling
<1>3. c.op = "reorder" /\ c.phase = "sent" =>
       c.blind \/ OrderKnown(u, c.expected.instance, c.expected.revision, c.from)
  BY <1>1, OrderKnownStays DEF CallFits
<1> QED BY <1>2, <1>3 DEF CallFits

LEMMA TellsShows ==
  ASSUME NEW list, ListLike(list)
  PROVE  LET t == Tells(list) IN
         /\ t.instance = list.instance /\ t.state = list.state
         /\ t.orderRev = list.orderRev
         /\ t.order = list.order /\ t.content = list.content /\ Present(t) = Present(list)
         /\ t.items = list.items
         /\ t.instance \in Nat /\ t.state \in Nat /\ t.content \in [Ids -> Contents]
  BY DEF Tells, ListLike, Present

(* Contents and order after a change. *)
Writes(c, s, next) ==
  IF c.op \in Editing THEN next.content = [s.content EXCEPT ![c.id] = c.new]
                      ELSE next.content = s.content

LEMMA OrderOfNext ==
  ASSUME NEW v, NEW s, Sound(s), IsOrder(s.order, Present(s)),
         NEW c, CallKnows(v, c), NEW next, ChangesOrder(c, s, next), Writes(c, s, next),
         c.op = "reorder" => IsOrder(c.order, Ids)
  PROVE  IsOrder(next.order, Present(next))
<1>1. s.content \in [Ids -> Contents]
  BY DEF Sound, ListLike
<1>2. CASE c.op = "create"
  <2>1. Present(next) = Present(s) \cup {c.id} /\ c.id \notin Present(s)
    BY <1>1, <1>2 DEF CallKnows, ChangesOrder, Writes, Editing, Present
  <2>2. IsOrder(Append(s.order, c.id), Present(s) \cup {c.id})
    BY <2>1, OrderAppended
  <2> QED BY <1>2, <2>1, <2>2 DEF ChangesOrder
<1>3. CASE c.op = "update"
  <2>1. Present(next) = Present(s)
    BY <1>1, <1>3 DEF CallKnows, ChangesOrder, Writes, Editing, Present
  <2> QED BY <1>3, <2>1 DEF ChangesOrder
<1>4. CASE c.op = "delete"
  <2>1. Present(next) = Present(s) \ {c.id}
    BY <1>1, <1>4 DEF CallKnows, ChangesOrder, Writes, Editing, Present
  <2> QED BY <1>4, <2>1, OrderWithout DEF ChangesOrder
<1>5. CASE c.op = "reorder"
  <2>1. Present(next) = Present(s) /\ next.order = c.order /\ IsOrder(c.order, Ids)
        /\ {c.order[n] : n \in DOMAIN c.order} = Present(s)
    BY <1>5 DEF ChangesOrder, Writes, Editing, Present
  <2>2. \A n \in 1 .. Len(c.order) : c.order[n] \in Present(s)
    BY <2>1 DEF IsOrder
  <2>3. c.order \in [1 .. Len(c.order) -> Present(s)] /\ Len(c.order) \in Nat
    BY <2>1, <2>2 DEF IsOrder
  <2>4. c.order \in Seq(Present(s))
    BY <2>3
  <2> QED BY <2>1, <2>4 DEF IsOrder
<1> QED BY <1>2, <1>3, <1>4, <1>5 DEF CallKnows, CallLike

LEMMA NextIsLater ==
  ASSUME ItemInv, OrderInv, NEW k \in DOMAIN calls, calls[k].phase = "sent", NEW next,
         Follows(server, next), ChangesOrder(calls[k], server, next),
         Writes(calls[k], server, next)
  PROVE  Later(Tells(server), Tells(next))
<1> DEFINE s == Tells(server)
           u == Tells(next)
           c == calls[k]
<1>1. Sound(server) /\ CallKnows(server, c) /\ ListLike(server) /\ ListLike(next)
  BY DEF ItemInv, CallsKnow, Follows, Sound
<1>2. /\ s.instance = server.instance /\ s.state = server.state
      /\ s.orderRev = server.orderRev
      /\ s.order = server.order /\ Present(s) = Present(server)
      /\ s.instance \in Nat /\ s.state \in Nat
      /\ u.instance = next.instance /\ u.state = next.state /\ u.orderRev = next.orderRev
      /\ u.order = next.order /\ Present(u) = Present(next)
      /\ u.instance \in Nat /\ u.state \in Nat /\ u.content \in [Ids -> Contents]
  BY <1>1, TellsShows
<1> HIDE DEF s, u
<1>3. Telling(s) /\ OrderKnown(s, s.instance, s.orderRev, s.order) /\ CallFits(s, Told, c)
  BY DEF OrderInv, Agree, s
<1>4. IsOrder(next.order, Present(next))
  BY <1>1, <1>2, <1>3, OrderOfNext DEF Telling, CallFits
<1>5. Telling(u)
  BY <1>2, <1>4 DEF Telling
<1>6. /\ u.instance = s.instance /\ u.state = s.state + 1
      /\ u.orderRev = u.state \/ (u.orderRev = s.orderRev /\ u.order = s.order)
  BY <1>1, <1>2 DEF ChangesOrder, CallKnows, CallLike
<1>7. OrderKnown(u, u.instance, u.orderRev, u.order)
  BY <1>2, <1>3, <1>6 DEF OrderKnown
<1> QED BY <1>5, <1>6, <1>7 DEF Later, s, u

(* What is told after a step of the server. *)
LEMMA ServerTells ==
  ASSUME ItemInv, OrderInv, UNCHANGED <<lists, view, passedOver>>,
         NEW T, Told \subseteq T, Tells(server') \in T, Agree(Tells(server'), T),
         \A k \in DOMAIN calls' : CallTold(T, calls'[k]) /\ CallFits(Tells(server'), T, calls'[k])
  PROVE  OrderInv'
<1>1. ToldIn(Told)
  BY ToldIsTold
<1>2. \A b \in Browsers : ListTold(T, lists[b]) /\ (passedOver[b] \/ Tells(view[b]) \in T)
  BY <1>1 DEF ToldIn, ListTold
<1>3. ToldIn(T)'
  BY <1>2 DEF ToldIn
<1> QED BY <1>3, ToldGrows DEF OrderInv

LEMMA CommitTells ==
  ASSUME ItemInv, OrderInv, NEW k \in DOMAIN calls, calls[k].phase = "sent", Commits(k)
  PROVE  OrderInv'
<1>1. PICK next :
        /\ Commit(k, next) /\ Follows(server, next) /\ Writes(calls[k], server, next)
        /\ \/ next = server /\ (calls[k].op = "reorder" => server.order = calls[k].order)
           \/ ChangesOrder(calls[k], server, next)
  BY DEF Commits, Writes
<1> DEFINE phase == IF next # server THEN "unlocked" ELSE "answered"
           outcome == IF next # server THEN "changed" ELSE "unchanged"
           c == [calls[k] EXCEPT !.phase = phase, !.outcome = outcome, !.reply = next]
           s == Tells(server)
           u == Tells(next)
<1>2. /\ server' = next /\ UNCHANGED <<lists, view, passedOver>>
      /\ calls' = [calls EXCEPT ![k] = c]
  BY <1>1 DEF Commit, browserVars
<1>3. CallKnows(server, calls[k]) /\ CallLike(calls[k])
  BY DEF ItemInv, CallsKnow, CallKnows
<1>4. /\ c.op = calls[k].op /\ c.id = calls[k].id /\ c.order = calls[k].order
      /\ c.new = calls[k].new /\ c.reply = next /\ c.phase = phase /\ c.outcome = outcome
      /\ phase # "sent"
  BY <1>3 DEF CallLike
<1> HIDE DEF c
<1>5. \A j \in DOMAIN calls : CallTold(Told, calls[j]) /\ CallFits(s, Told, calls[j])
  BY ToldIsTold DEF ToldIn, OrderInv
<1>6. CASE next = server
  <2>1. c.outcome = "unchanged" /\ s \in Told /\ Agree(s, Told) /\ u = s
    BY <1>4, <1>6 DEF OrderInv, Agree
  <2>2. c.op = "reorder" => server.order = c.order
    BY <1>1, <1>4, <1>6 DEF ChangesOrder
  <2> HIDE DEF s
  <2>3. CallTold(Told, c) /\ CallFits(s, Told, c)
    BY <1>4, <1>6, <2>1, <2>2 DEF CallTold, CallFits
  <2>4. \A j \in DOMAIN calls' : CallTold(Told, calls'[j]) /\ CallFits(s, Told, calls'[j])
    BY <1>2, <1>5, <2>3
  <2> QED BY <1>2, <1>6, <2>1, <2>4, ServerTells DEF s
<1>7. CASE ChangesOrder(calls[k], server, next)
  <2>1. Sound(server) /\ ListLike(server) /\ ListLike(next) /\ server.state \in Nat
    BY <1>1 DEF ItemInv, Follows, Sound, ListLike
  <2>2. Later(s, u) /\ Agree(s, Told)
    BY <1>1, <1>7, NextIsLater DEF OrderInv
  <2>3. Agree(u, Told \cup {u})
    BY <2>2, AgreeLater
  <2>4. \A j \in DOMAIN calls :
          CallTold(Told \cup {u}, calls[j]) /\ CallFits(u, Told \cup {u}, calls[j])
    BY <1>5, <2>2, FitsLater DEF CallTold
  <2>5. CallFits(s, Told, calls[k])
    BY <1>5
  <2>6. /\ s.instance = server.instance /\ s.state = server.state
        /\ s.order = server.order
        /\ s.content = server.content /\ Present(s) = Present(server)
        /\ s.items = server.items
        /\ u.instance = next.instance /\ u.state = next.state
    BY <2>1, TellsShows
  <2>7. next.instance = server.instance /\ next.state = server.state + 1
    BY <1>7 DEF ChangesOrder
  <2> HIDE DEF s, u
  <2>8. Leads(s, c)
    BY <1>1, <1>3, <1>4, <1>7, <2>1, <2>6 DEF Leads, ChangesOrder, Writes, CallKnows,
       CallLike,
                                             Editing, Sound, ListLike
  <2>9. ASSUME NEW t \in Told \cup {u}, t.instance = c.reply.instance,
               t.state + 1 = c.reply.state
        PROVE  Leads(t, c)
    <3>1. t # u
      BY <1>4, <2>1, <2>6, <2>7, <2>9
    <3>2. t \in Told /\ s \in Told /\ t.instance = s.instance /\ t.state \in Nat
      BY <1>4, <2>2, <2>6, <2>7, <2>9, <3>1 DEF Agree, Telling
    <3>3. t.state = s.state
      BY <1>4, <2>1, <2>6, <2>7, <2>9, <3>2
    <3>4. t = s
      BY <2>2, <3>2, <3>3 DEF Agree
    <3> QED BY <2>8, <3>4
  <2>10. c.op = "reorder" => c.reply.order = c.order
    BY <1>4, <1>7 DEF ChangesOrder
  <2>11. CallTold(Told \cup {u}, c) /\ CallFits(u, Told \cup {u}, c)
    <3>1. CallTold(Told \cup {u}, c)
      BY <1>4 DEF CallTold, u
    <3> QED BY <1>4, <2>9, <2>10, <3>1 DEF CallFits
  <2>12. \A j \in DOMAIN calls' :
           CallTold(Told \cup {u}, calls'[j]) /\ CallFits(u, Told \cup {u}, calls'[j])
    BY <1>2, <2>4, <2>11
  <2> QED BY <1>2, <2>3, <2>12, ServerTells DEF u
<1> QED BY <1>1, <1>6, <1>7

-----------------------------------------------------------------------------
(* What is told after the other steps. *)

LEMMA SameTells ==
  ASSUME ItemInv, OrderInv, server' = server, UNCHANGED <<lists, view, passedOver>>,
         \A k \in DOMAIN calls' :
           CallTold(Told, calls'[k]) /\ CallFits(Tells(server), Told, calls'[k])
  PROVE  OrderInv'
<1>1. Agree(Tells(server), Told) /\ Tells(server) \in Told
  BY DEF OrderInv, Agree
<1> QED BY <1>1, ServerTells

LEMMA PageTold ==
  ASSUME ItemInv, OrderInv, server' = server, NEW b \in Browsers,
         \A k \in DOMAIN calls' :
           CallTold(Told, calls'[k]) /\ CallFits(Tells(server), Told, calls'[k]),
         \/ UNCHANGED <<view, passedOver>>
         \/ /\ DOMAIN passedOver' = Browsers
            /\ \A a \in Browsers \ {b} : passedOver'[a] = passedOver[a]
            /\ \E v : /\ view' = [view EXCEPT ![b] = v]
                      /\ passedOver'[b] \/ Tells(v) \in Told,
         \/ lists' = lists
         \/ \E l : lists' = [lists EXCEPT ![b] = l] /\ ListTold(Told, l)
  PROVE  OrderInv'
<1>1. ToldIn(Told) /\ Agree(Tells(server), Told) /\ DOMAIN passedOver = Browsers
  BY ToldIsTold DEF OrderInv
<1>2. \A a \in Browsers : passedOver'[a] \/ Tells(view'[a]) \in Told
  <2>1. CASE UNCHANGED <<view, passedOver>>
    BY <1>1, <2>1 DEF ToldIn
  <2>2. CASE /\ \A a \in Browsers \ {b} : passedOver'[a] = passedOver[a]
             /\ \E v : /\ view' = [view EXCEPT ![b] = v]
                       /\ passedOver'[b] \/ Tells(v) \in Told
    <3>1. PerBrowser(view)
      BY DEF ItemInv
    <3>2. PICK v : view' = [view EXCEPT ![b] = v] /\ (passedOver'[b] \/ Tells(v) \in Told)
      BY <2>2
    <3>3. view'[b] = v /\ \A a \in Browsers \ {b} : view'[a] = view[a]
      BY <3>1, <3>2 DEF PerBrowser
    <3> QED BY <1>1, <2>2, <3>2, <3>3 DEF ToldIn
  <2> QED BY <2>1, <2>2
<1>3. \A a \in Browsers : ListTold(Told, lists'[a])
  BY <1>1 DEF ToldIn, ItemInv, PerBrowser
<1>4. DOMAIN passedOver' = Browsers
  BY <1>1
<1>5. PICK T : T = Told
  OBVIOUS
<1>6. Agree(Tells(server'), T) /\ \A k \in DOMAIN calls' : CallFits(Tells(server'), T, calls'[k])
  BY <1>1, <1>5
<1>7. ToldIn(T)'
  BY <1>1, <1>2, <1>3, <1>5 DEF ToldIn
<1> QED BY <1>4, <1>6, <1>7, ToldGrows

LEMMA OrderInvInit == ResourcesInit => OrderInv
<1> SUFFICES ASSUME ResourcesInit PROVE OrderInv
  OBVIOUS
<1> DEFINE s == Tells(server)
           first == [instance |-> 0, state |-> 0, orderRev |-> 0,
                 items |-> [i \in Ids |-> 0], order |-> FirstOrder,
                 content |-> [i \in Ids |-> IF i \in FirstIds THEN FirstVersion ELSE Absent]]
<1>1. ItemInv /\ server = FreshRevisions(first, 1)
  BY ItemInvInit DEF ResourcesInit
<1>2. ListLike(server) /\ ListLike(first)
  <2>1. first.items \in [Ids -> Nat] /\ first.content \in [Ids -> Contents]
    BY VersionsAre
  <2> QED BY <1>1, <2>1 DEF ItemInv, Sound, ListLike
<1>3. /\ server.instance = 1 /\ server.state = 1 /\ server.orderRev = 1
      /\ server.order = FirstOrder /\ server.content = first.content
  BY <1>1, <1>2 DEF FreshRevisions, ListLike
<1>4. Present(server) = FirstIds
  BY <1>3, VersionsAre, ResourcesAssumption DEF Present
<1>5. Telling(s) /\ OrderKnown(s, s.instance, s.orderRev, s.order) /\ s.instance = 1
  BY <1>2, <1>3, <1>4, TellsShows, FirstOrderIsOrder DEF Telling, OrderKnown
<1>6. Told \subseteq {s}
  <2>1. /\ \A b \in Browsers : lists[b] = <<>> /\ view[b] = server
        /\ calls = <<>>
    BY DEF ResourcesInit
  <2>2. PageTells \subseteq {s}
    BY <2>1 DEF PageTells
  <2>3. \A b \in Browsers : ListReplies(lists[b]) = {}
    BY <2>1 DEF ListReplies
  <2>4. ListTells = {} /\ CallReplies(calls) = {}
    BY <2>1, <2>3 DEF ListTells, CallReplies
  <2> QED BY <2>2, <2>4 DEF Told
<1>7. s \in Told
  BY ToldIsTold DEF ToldIn
<1>8. Agree(s, Told)
  BY <1>5, <1>6, <1>7 DEF Agree, Telling
<1>9. DOMAIN passedOver = Browsers /\ DOMAIN calls = {}
  BY DEF ResourcesInit
<1> QED BY <1>8, <1>9 DEF OrderInv

LEMMA OrderOfCalls ==
  ASSUME OrderInv
  PROVE  \A k \in DOMAIN calls :
           CallTold(Told, calls[k]) /\ CallFits(Tells(server), Told, calls[k])
  BY ToldIsTold DEF OrderInv, ToldIn

(* A call that has no result is told of nothing. *)
LEMMA NoResult ==
  ASSUME NEW s, NEW T, NEW c, c.outcome \notin Succeeded,
         c.phase # "sent" \/ c.op # "reorder"
  PROVE  CallTold(T, c) /\ CallFits(s, T, c)
  BY DEF CallTold, CallFits, Succeeded

LEMMA AnswerTells ==
  ASSUME ItemInv, OrderInv, NEW k \in DOMAIN calls, Answers(k)
  PROVE  OrderInv'
<1>1. PICK outcome \in {"refused", "failed"} : Answer(k, outcome)
  BY DEF Answers
<1> DEFINE c == [calls[k] EXCEPT !.phase = "answered", !.outcome = outcome]
<1>2. /\ UNCHANGED <<server, lists, view, passedOver>>
      /\ calls' = [calls EXCEPT ![k] = c]
  BY <1>1 DEF Answer, serverVars, browserVars
<1>3. CallLike(calls[k])
  BY DEF ItemInv, CallsKnow, CallKnows
<1>4. c.phase = "answered" /\ c.outcome = outcome /\ outcome \notin Succeeded
  BY <1>3 DEF CallLike, Succeeded
<1> HIDE DEF c
<1>5. CallTold(Told, c) /\ CallFits(Tells(server), Told, c)
  BY <1>4, NoResult
<1>6. \A j \in DOMAIN calls' :
        CallTold(Told, calls'[j]) /\ CallFits(Tells(server), Told, calls'[j])
  BY <1>2, <1>5, OrderOfCalls
<1> QED BY <1>2, <1>6, SameTells

LEMMA PublishTells ==
  ASSUME ItemInv, OrderInv, NEW k \in DOMAIN calls, PublishChange(k)
  PROVE  OrderInv'
<1> DEFINE c == [calls[k] EXCEPT !.phase = "answered"]
<1>1. /\ UNCHANGED <<server, lists, view, passedOver>>
      /\ calls' = [calls EXCEPT ![k] = c]
  BY DEF PublishChange, serverVars, browserVars
<1>2. CallLike(calls[k])
  BY DEF ItemInv, CallsKnow, CallKnows
<1>3. /\ c.phase = "answered" /\ c.outcome = calls[k].outcome /\ c.reply = calls[k].reply
      /\ c.op = calls[k].op /\ c.id = calls[k].id /\ c.order = calls[k].order
  BY <1>2 DEF CallLike
<1> HIDE DEF c
<1>4. CallTold(Told, c) /\ CallFits(Tells(server), Told, c)
  BY <1>3, OrderOfCalls DEF CallTold, CallFits, Leads
<1>5. \A j \in DOMAIN calls' :
        CallTold(Told, calls'[j]) /\ CallFits(Tells(server), Told, calls'[j])
  BY <1>1, <1>4, OrderOfCalls
<1> QED BY <1>1, <1>5, SameTells

(* A drag starts from an order that is known, unless the page was moved past it. *)
LEMMA DragFits ==
  ASSUME ItemInv, OrderInv, NEW b \in Browsers, NEW order \in Orders
  PROVE  LET c == ReorderCall(b, [instance |-> view[b].instance,
                                  revision |-> view[b].orderRev], view[b].order, order)
         IN  CallTold(Told, c) /\ CallFits(Tells(server), Told, c)
<1> DEFINE e == [instance |-> view[b].instance, revision |-> view[b].orderRev]
           r == NewCall(b, "reorder")
           c == [r EXCEPT !.expected = e, !.from = view[b].order, !.order = order]
           t == Tells(view[b])
<1>1. CallLike(r) /\ r.op = "reorder" /\ r.phase = "sent" /\ r.outcome = "none"
  BY NewCallShows
<1>2. r.blind = passedOver[b]
  BY DEF NewCall
<1> HIDE DEF r, e
<1>3. /\ c.op = "reorder" /\ c.phase = "sent" /\ c.outcome = "none" /\ c.blind = r.blind
      /\ c.expected = e /\ c.from = view[b].order /\ c.order = order
  BY <1>1 DEF CallLike
<1>4. e.instance = t.instance /\ e.revision = t.orderRev /\ view[b].order = t.order
  BY TellsShows DEF e, Tells
<1>5. passedOver[b] \/ t \in Told
  BY ToldIsTold DEF ToldIn
<1> HIDE DEF c, t
<1>6. passedOver[b] \/ OrderKnown(Tells(server), e.instance, e.revision, view[b].order)
  BY <1>4, <1>5 DEF OrderInv, Agree
<1>7. c.blind \/ OrderKnown(Tells(server), c.expected.instance, c.expected.revision, c.from)
  BY <1>2, <1>3, <1>6
<1>8. IsOrder(c.order, Ids)
  BY <1>3, OrdersAreOrders
<1>9. CallTold(Told, c) /\ CallFits(Tells(server), Told, c)
  BY <1>3, <1>7, <1>8 DEF CallTold, CallFits, Succeeded
<1> QED BY <1>9 DEF c, r, e, ReorderCall

LEMMA AppendedFits ==
  ASSUME ItemInv, OrderInv, NEW c, calls' = Append(calls, c),
         CallTold(Told, c), CallFits(Tells(server), Told, c)
  PROVE  \A k \in DOMAIN calls' :
           CallTold(Told, calls'[k]) /\ CallFits(Tells(server), Told, calls'[k])
<1>1. IsSeq(calls) /\ Len(calls) \in Nat /\ DOMAIN calls = 1 .. Len(calls)
  BY SequenceFacts DEF ItemInv, CallsKnow
<1>2. /\ DOMAIN calls' = 1 .. Len(calls) + 1 /\ calls'[Len(calls) + 1] = c
      /\ \A k \in 1 .. Len(calls) : calls'[k] = calls[k]
  BY <1>1, Appended
<1> QED BY <1>1, <1>2, OrderOfCalls

LEMMA UseTells ==
  ASSUME ItemInv, OrderInv, NEW b \in Browsers, Use(b)
  PROVE  OrderInv'
<1>1. CASE SaveProfilesOrder(b)
  <2> DEFINE e == [instance |-> view[b].instance, revision |-> view[b].orderRev]
             c(order) == ReorderCall(b, e, view[b].order, order)
  <2>1. PICK order \in Orders : Make(c(order))
    BY <1>1 DEF SaveProfilesOrder, ReorderCall
  <2>2. CallTold(Told, c(order)) /\ CallFits(Tells(server), Told, c(order))
    BY DragFits
  <2>3. calls' = Append(calls, c(order)) /\ UNCHANGED <<server, lists, view, passedOver>>
    BY <2>1 DEF Make, serverVars
  <2> HIDE DEF c
  <2> QED BY <2>2, <2>3, AppendedFits, SameTells
<1>2. ASSUME NEW op \in Editing, Makes(b, op), passedOver' = passedOver PROVE OrderInv'
  <2>1. PICK c : /\ calls' = Append(calls, c) /\ c.op = op /\ c.phase = "sent"
                 /\ CallKnows(server, c) /\ UNCHANGED <<server, view, lists>>
    BY <1>2 DEF Makes
  <2>2. CallTold(Told, c) /\ CallFits(Tells(server), Told, c)
    BY <2>1, NoResult DEF CallKnows, Succeeded, Editing
  <2> QED BY <1>2, <2>1, <2>2, AppendedFits, SameTells
<1>3. ASSUME NEW id \in Ids, OpenForm(b, id) PROVE OrderInv'
  <2>1. UNCHANGED <<server, calls, lists, view, passedOver>>
    BY <1>3 DEF OpenForm, serverVars
  <2> QED BY <2>1, OrderOfCalls, SameTells
<1>4. CASE EditProfile(b)
  BY <1>2, <1>4, Edits DEF EditProfile, Make, Editing
<1>5. ASSUME NEW id \in Ids, RemoveProfile(b, id) PROVE OrderInv'
  BY <1>2, <1>5, Removes DEF RemoveProfile, Make, Editing
<1>6. ASSUME NEW id \in Ids, AddProfile(b, id) PROVE OrderInv'
  BY <1>2, <1>6, Adds DEF AddProfile, Make, Editing
<1> QED BY <1>1, <1>3, <1>4, <1>5, <1>6 DEF Use

LEMMA SentListTells ==
  ASSUME ItemInv, NEW b \in Browsers, NEW by, SendList(b, by)
  PROVE  \E l : lists' = [lists EXCEPT ![b] = l] /\ ListTold(Told, l)
<1> DEFINE l == lists[b]
           m == Append(l, ListCall(by))
<1>1. lists' = [lists EXCEPT ![b] = m]
  BY DEF SendList, ItemInv, PerBrowser
<1>2. IsSeq(l) /\ Len(l) \in Nat /\ DOMAIN l = 1 .. Len(l) /\ ListTold(Told, l)
  BY SequenceFacts, ToldIsTold DEF ItemInv, ListsKnow, ToldIn
<1>3. ListCall(by).reply = Nothing
  BY DEF ListCall
<1>4. ListTold(Told, m)
  BY <1>2, <1>3, Appended DEF ListTold
<1> QED BY <1>1, <1>4

LEMMA LeftTells ==
  ASSUME ItemInv, NEW b \in Browsers, NEW n \in DOMAIN lists[b]
  PROVE  /\ ListTold(Told, LeftAfter(b, n))
         /\ ListTold(Told, Append(LeftAfter(b, n), ListCall("sync")))
<1> DEFINE l == lists[b]
           left == LeftAfter(b, n)
           N == Len(l) - 1
<1>1. /\ Len(l) \in Nat /\ DOMAIN l = 1 .. Len(l) /\ ListTold(Told, l)
      /\ \A m \in DOMAIN l : ListKnows(server, l[m])
  BY SequenceFacts, ToldIsTold DEF ItemInv, ListsKnow, ToldIn
<1>2. DOMAIN left = 1 .. N
  BY DEF LeftAfter
<1>3. ASSUME NEW m \in 1 .. N PROVE \E j \in DOMAIN l : left[m].reply = l[j].reply
  <2>1. m \in DOMAIN l /\ m + 1 \in DOMAIN l
    BY <1>1
  <2>2. CASE m < n
    <3> DEFINE taken == TakesSnapshot(b, l[n])
    <3>1. left[m] = [l[m] EXCEPT !.overtaken = @ \/ taken]
      BY <2>2 DEF LeftAfter
    <3>2. l[m] = [by |-> l[m].by, reply |-> l[m].reply, lost |-> l[m].lost,
                  overtaken |-> l[m].overtaken]
      BY <1>1, <2>1 DEF ListKnows
    <3>3. left[m].reply = l[m].reply
      BY <3>1, <3>2
    <3> QED BY <2>1, <3>3
  <2>3. CASE ~(m < n)
    BY <1>1, <2>1, <2>3 DEF LeftAfter
  <2> QED BY <2>2, <2>3
<1>4. ListTold(Told, left)
  BY <1>1, <1>2, <1>3 DEF ListTold
<1>5. IsSeq(left) /\ ListCall("sync").reply = Nothing
  BY LeftKnow DEF ListsKnow, ListCall
<1>6. Len(left) \in Nat /\ DOMAIN left = 1 .. Len(left)
  BY <1>5, SequenceFacts
<1> HIDE DEF left
<1>7. ListTold(Told, Append(left, ListCall("sync")))
  BY <1>4, <1>5, <1>6, Appended DEF ListTold
<1> QED BY <1>4, <1>7 DEF left

LEMMA RefreshTells ==
  ASSUME ItemInv, OrderInv, NEW b \in Browsers, Refresh(b)
  PROVE  OrderInv'
<1>1. Tells(server) \in Told /\ DOMAIN passedOver = Browsers
  BY ToldIsTold DEF ToldIn, OrderInv
<1>2. CASE Reload(b)
  <2>1. /\ view' = [view EXCEPT ![b] = server]
        /\ UNCHANGED <<server, calls, lists, passedOver>>
    BY <1>2 DEF Reload, serverVars
  <2> QED BY <1>1, <2>1, OrderOfCalls, PageTold
<1>3. CASE Open(b) \/ AddClient(b) \/ RefreshTimer(b)
  <2>1. /\ UNCHANGED <<server, calls, view, passedOver>>
        /\ SendList(b, "sync") \/ UNCHANGED lists
    BY <1>3 DEF Open, AddClient, RefreshTimer, Synchronize, serverVars, browserVars
  <2>2. UNCHANGED lists \/ \E l : lists' = [lists EXCEPT ![b] = l] /\ ListTold(Told, l)
    BY <2>1, SentListTells
  <2> QED BY <2>1, <2>2, OrderOfCalls, PageTold
<1>4. CASE OnResourceChanged(b)
  <2>1. UNCHANGED <<server, calls, lists, view, passedOver>>
    BY <1>4 DEF OnResourceChanged, serverVars
  <2> QED BY <2>1, OrderOfCalls, SameTells
<1>5. ASSUME NEW n \in DOMAIN lists[b], ListProfiles(b, n) PROVE OrderInv'
  <2> DEFINE c == [lists[b][n] EXCEPT !.reply = server]
             l == [lists[b] EXCEPT ![n] = c]
  <2>1. UNCHANGED <<server, calls, view, passedOver>> /\ lists' = [lists EXCEPT ![b] = l]
    BY <1>5 DEF ListProfiles, serverVars, browserVars, ItemInv, PerBrowser
  <2>2. ListKnows(server, lists[b][n]) /\ IsSeq(lists[b]) /\ ListTold(Told, lists[b])
    BY ToldIsTold DEF ItemInv, ListsKnow, ToldIn
  <2>3. c.reply = server
    BY <2>2 DEF ListKnows
  <2> HIDE DEF c
  <2>4. ListTold(Told, l)
    BY <1>1, <2>2, <2>3, Replaced DEF ListTold
  <2> QED BY <2>1, <2>4, OrderOfCalls, PageTold
<1>6. ASSUME NEW n \in DOMAIN lists[b], ReceiveList(b, n) PROVE OrderInv'
  <2> DEFINE call == lists[b][n]
             taken == TakesSnapshot(b, call)
             shown == IF taken THEN call.reply ELSE view[b]
  <2>1. /\ UNCHANGED <<server, calls>>
        /\ view' = [view EXCEPT ![b] = shown]
        /\ \/ lists' = [lists EXCEPT ![b] = LeftAfter(b, n)]
           \/ lists' = [lists EXCEPT ![b] = Append(LeftAfter(b, n), ListCall("sync"))]
    BY <1>6 DEF ReceiveList, Drain, serverVars
  <2>2. passedOver' = [passedOver EXCEPT ![b] = @ /\ ~taken]
    BY <1>6 DEF ReceiveList
  <2>3. taken => Tells(call.reply) \in Told
    BY ToldIsTold DEF ToldIn, ListTold, TakesSnapshot
  <2>4. passedOver[b] \/ Tells(view[b]) \in Told
    BY ToldIsTold DEF ToldIn
  <2> HIDE DEF taken
  <2>5. /\ DOMAIN passedOver' = Browsers
        /\ \A a \in Browsers \ {b} : passedOver'[a] = passedOver[a]
        /\ passedOver'[b] <=> passedOver[b] /\ ~taken
    BY <1>1, <2>2
  <2>6. passedOver'[b] \/ Tells(shown) \in Told
    BY <2>3, <2>4, <2>5
  <2> HIDE DEF shown
  <2> QED BY <2>1, <2>5, <2>6, LeftTells, OrderOfCalls, PageTold
<1> QED BY <1>2, <1>3, <1>4, <1>5, <1>6 DEF Refresh

(* A reply that is taken as the next thing leaves the page as its sender left the
   list; one that tells nothing new changes nothing. *)
LEMMA ReplyShows ==
  ASSUME NEW s, NEW v, ListLike(v), NEW c, CallKnows(s, c), c.outcome \in Succeeded,
         IsOrder(v.order, Present(v)), IsOrder(c.reply.order, Present(c.reply)),
         c.op = "reorder" => c.reply.order = c.order,
         c.reply.instance = v.instance,
         \/ Tells(v) = Tells(c.reply)
         \/ Leads(v, c)
  PROVE  /\ Tells(Shown(v, c)) = Tells(c.reply)
         /\ c.op = "reorder" => OrdersAll(v, c.order)
<1> DEFINE R == c.reply
           moved == [v EXCEPT !.state = R.state, !.orderRev = R.orderRev]
<1>1. ListLike(R) /\ c.op \in {"create", "update", "delete", "reorder"}
  BY DEF CallKnows, CallLike, Copy
<1>2. /\ ListLike(moved) /\ moved.instance = R.instance /\ moved.state = R.state
      /\ moved.orderRev = R.orderRev /\ moved.order = v.order /\ moved.content = v.content
      /\ moved.items = v.items
  BY <1>1 DEF ListLike
<1>3. Present(moved) = Present(v)
  BY <1>2 DEF Present
<1>4. Tells(v) = Tells(R) => v.order = R.order /\ v.content = R.content /\ v.items = R.items
  BY DEF Tells
<1> HIDE DEF moved
<1>5. CASE c.op = "reorder"
  <2>1. R.content = v.content /\ R.items = v.items
    BY <1>1, <1>4, <1>5 DEF Leads, ListLike
  <2>2. Present(R) = Present(v) /\ R.order = c.order
    BY <1>5, <2>1 DEF Present
  <2>3. Ordered(v, c.order) = c.order
    <3>1. IsOrder(c.order, Ids) /\ \A n \in 1 .. Len(c.order) : c.order[n] \in Present(v)
      BY <2>2 DEF IsOrder, Present
    <3> QED BY <3>1, OrderedIsOrder
  <2>4. Len(c.order) = Len(v.order)
    BY <1>4, <1>5, <2>2 DEF Leads
  <2>5. OrdersAll(v, c.order)
    BY <2>3, <2>4 DEF OrdersAll
  <2>6. Shown(v, c) = [moved EXCEPT !.order = c.order]
    BY <1>5, <2>3, <2>5 DEF Shown, moved
  <2> DEFINE t == [moved EXCEPT !.order = c.order]
  <2>7. /\ t.instance = R.instance /\ t.state = R.state /\ t.orderRev = R.orderRev
        /\ t.order = R.order /\ t.content = R.content /\ t.items = R.items
    BY <1>2, <2>1, <2>2 DEF ListLike
  <2> HIDE DEF t
  <2> QED BY <2>5, <2>6, <2>7 DEF Tells, t
<1>6. CASE c.op # "reorder"
  <2> DEFINE id == c.id
             order == IF c.op = "delete" THEN Without(moved.order, id)
                      ELSE IF id \in Present(moved) THEN moved.order
                      ELSE Append(moved.order, id)
             t == [moved EXCEPT !.items[id] = R.items[id], !.content[id] = c.new,
                                !.order = order]
  <2>1. id \in Ids /\ R.content[id] = c.new
    BY <1>1, <1>6 DEF CallKnows, Editing
  <2>2. Shown(v, c) = t
    BY <1>2, <1>6 DEF Shown, WithItem, moved, ListLike
  <2>3. order = R.order
    <3>1. CASE c.op = "create" \/ c.op = "update"
      <4>1. c.new # Absent
        BY <3>1 DEF CallKnows
      <4>2. CASE Tells(v) = Tells(R)
        BY <1>2, <1>3, <1>4, <2>1, <3>1, <4>1, <4>2 DEF Present
      <4>3. CASE Leads(v, c)
        BY <1>2, <1>3, <3>1, <4>3 DEF Leads
      <4> QED BY <4>2, <4>3
    <3>2. CASE c.op = "delete"
      <4>1. c.new = Absent
        BY <3>2 DEF CallKnows
      <4>2. CASE Tells(v) = Tells(R)
        <5>1. id \notin Present(v)
          BY <1>4, <2>1, <4>1, <4>2 DEF Present
        <5> QED BY <1>2, <1>4, <3>2, <4>2, <5>1, WithoutAbsent
      <4>3. CASE Leads(v, c)
        BY <1>2, <3>2, <4>3 DEF Leads
      <4> QED BY <4>2, <4>3
    <3> QED BY <1>1, <1>6, <3>1, <3>2
  <2>4. R.content = [v.content EXCEPT ![id] = c.new]
    BY <1>1, <1>4, <1>6, <2>1 DEF Leads, ListLike
  <2>7. R.items = [v.items EXCEPT ![id] = R.items[id]]
    BY <1>1, <1>4, <1>6, <2>1 DEF Leads, ListLike
  <2> HIDE DEF order
  <2>5. /\ t.instance = R.instance /\ t.state = R.state /\ t.orderRev = R.orderRev
        /\ t.order = order /\ t.content = R.content /\ t.items = R.items
    BY <1>2, <2>4, <2>7 DEF ListLike
  <2> HIDE DEF t
  <2>6. Tells(t) = Tells(R)
    BY <2>3, <2>5 DEF Tells
  <2> QED BY <1>6, <2>2, <2>6
<1> QED BY <1>5, <1>6

LEMMA FinishFits ==
  ASSUME ItemInv, OrderInv, NEW k \in DOMAIN calls, Finish(k)
  PROVE  \A j \in DOMAIN calls' :
           CallTold(Told, calls'[j]) /\ CallFits(Tells(server), Told, calls'[j])
<1> DEFINE c == [calls[k] EXCEPT
              !.phase = "done", !.outcome = "none", !.reply = Nothing, !.blind = FALSE,
              !.expected = Nothing, !.from = <<>>, !.order = <<>>]
<1>1. calls' = [calls EXCEPT ![k] = c]
  BY DEF Finish
<1>2. CallLike(calls[k])
  BY DEF ItemInv, CallsKnow, CallKnows
<1>3. c.phase = "done" /\ c.outcome = "none"
  BY <1>2 DEF CallLike
<1> HIDE DEF c
<1>4. CallTold(Told, c) /\ CallFits(Tells(server), Told, c)
  BY <1>3, NoResult DEF Succeeded
<1> QED BY <1>1, <1>4, OrderOfCalls

LEMMA TakenTells ==
  ASSUME ItemInv, OrderInv, NEW k \in DOMAIN calls, ReceiveReply(k)
  PROVE  OrderInv'
<1> DEFINE c == calls[k]
           b == c.by
           v == view[b]
           R == c.reply
           own == IF c.outcome = "changed" THEN 1 ELSE 0
           past == R.state > v.state + own
<1>1. /\ b \in Browsers /\ c.outcome \in Succeeded /\ Finish(k) /\ server' = server
      /\ R.instance = v.instance /\ R.state >= v.state
      /\ view' = [view EXCEPT ![b] = Shown(v, c)]
      /\ passedOver' = [passedOver EXCEPT ![b] = @ \/ past]
      /\ SendList(b, "form") \/ UNCHANGED lists
  BY ResourcesAssumption DEF ReceiveReply, Succeeded, serverVars, ItemInv, PerBrowser
<1>2. UNCHANGED lists \/ \E l : lists' = [lists EXCEPT ![b] = l] /\ ListTold(Told, l)
  BY <1>1, SentListTells
<1>3. /\ CallKnows(server, c) /\ ListLike(v) /\ ListLike(R)
      /\ CallTold(Told, c) /\ CallFits(Tells(server), Told, c)
      /\ Tells(R) \in Told /\ Agree(Tells(server), Told)
  BY <1>1, OrderOfCalls DEF ItemInv, CallsKnow, CallKnows, Copy, CallTold, OrderInv
<1> HIDE DEF past
<1>4. /\ DOMAIN passedOver' = Browsers
      /\ \A a \in Browsers \ {b} : passedOver'[a] = passedOver[a]
      /\ passedOver'[b] <=> passedOver[b] \/ past
  BY <1>1 DEF OrderInv
<1>5. ASSUME ~passedOver[b], ~past PROVE Tells(Shown(v, c)) \in Told
  <2>1. Tells(v) \in Told
    BY <1>1, <1>5, ToldIsTold DEF ToldIn
  <2>2. /\ Tells(v).instance = v.instance /\ Tells(v).state = v.state
        /\ Tells(v).order = v.order /\ Tells(v).content = v.content
        /\ Tells(v).items = v.items
        /\ Present(Tells(v)) = Present(v) /\ v.state \in Nat
        /\ Tells(R).instance = R.instance /\ Tells(R).state = R.state
        /\ Tells(R).order = R.order /\ Present(Tells(R)) = Present(R) /\ R.state \in Nat
    BY <1>3, TellsShows
  <2>3. IsOrder(v.order, Present(v)) /\ IsOrder(R.order, Present(R))
    BY <1>3, <2>1, <2>2 DEF Agree, Telling
  <2>4. R.state = v.state \/ (c.outcome = "changed" /\ v.state + 1 = R.state)
    BY <1>1, <1>5, <2>2 DEF past
  <2>5. Tells(v) = Tells(R) \/ Leads(v, c)
    <3>1. CASE R.state = v.state
      BY <1>1, <1>3, <2>1, <2>2, <3>1 DEF Agree
    <3>2. CASE c.outcome = "changed" /\ v.state + 1 = R.state
      <4>1. Leads(Tells(v), c)
        BY <1>1, <1>3, <2>1, <2>2, <3>2 DEF CallFits
      <4> QED BY <2>2, <4>1 DEF Leads
    <3> QED BY <2>4, <3>1, <3>2
  <2>6. c.op = "reorder" => R.order = c.order
    BY <1>1, <1>3 DEF CallFits
  <2>7. Tells(Shown(v, c)) = Tells(R)
    BY <1>1, <1>3, <2>3, <2>5, <2>6, ReplyShows
  <2> QED BY <1>3, <2>7
<1>6. passedOver'[b] \/ Tells(Shown(v, c)) \in Told
  BY <1>4, <1>5
<1>7. \A j \in DOMAIN calls' :
        CallTold(Told, calls'[j]) /\ CallFits(Tells(server), Told, calls'[j])
  BY <1>1, FinishFits
<1> QED BY <1>1, <1>2, <1>4, <1>6, <1>7, PageTold

LEMMA ReceiveTells ==
  ASSUME ItemInv, OrderInv, NEW k \in DOMAIN calls, Receive(k)
  PROVE  OrderInv'
<1>1. CASE DropReply(k) \/ ReceiveError(k)
  <2> DEFINE b == calls[k].by
  <2>1. /\ b \in Browsers /\ UNCHANGED <<server, view, passedOver>> /\ Finish(k)
        /\ SendList(b, "form") \/ UNCHANGED lists
    BY <1>1, ResourcesAssumption DEF DropReply, ReceiveError, serverVars, browserVars
  <2>2. UNCHANGED lists \/ \E l : lists' = [lists EXCEPT ![b] = l] /\ ListTold(Told, l)
    BY <2>1, SentListTells
  <2>3. \A j \in DOMAIN calls' :
          CallTold(Told, calls'[j]) /\ CallFits(Tells(server), Told, calls'[j])
    BY <2>1, FinishFits
  <2> QED BY <2>1, <2>2, <2>3, PageTold
<1>2. CASE Ignore(k)
  <2>1. UNCHANGED <<server, lists, view, passedOver>> /\ Finish(k)
    BY <1>2 DEF Ignore, serverVars, browserVars
  <2> QED BY <2>1, FinishFits, SameTells
<1> QED BY <1>1, <1>2, TakenTells DEF Receive

LEMMA CrashTells ==
  ASSUME ItemInv, OrderInv, Crash
  PROVE  OrderInv'
<1>1. /\ UNCHANGED <<server, view, passedOver>> /\ DOMAIN passedOver = Browsers
      /\ Agree(Tells(server), Told)
  BY DEF Crash, browserVars, OrderInv
<1>2. ASSUME NEW k \in DOMAIN calls'
      PROVE  CallTold(Told, calls'[k]) /\ CallFits(Tells(server), Told, calls'[k])
  <2>1. k \in DOMAIN calls
    BY DEF Crash
  <2> DEFINE c == [calls[k] EXCEPT !.phase = "answered", !.outcome = "failed",
                                   !.reply = Nothing]
  <2>2. calls'[k] = c \/ calls'[k] = calls[k]
    BY <2>1 DEF Crash
  <2>3. CallLike(calls[k])
    BY <2>1 DEF ItemInv, CallsKnow, CallKnows
  <2>4. c.phase = "answered" /\ c.outcome = "failed"
    BY <2>3 DEF CallLike
  <2> HIDE DEF c
  <2>5. CallTold(Told, c) /\ CallFits(Tells(server), Told, c)
    BY <2>4, NoResult DEF Succeeded
  <2> QED BY <2>1, <2>2, <2>5, OrderOfCalls
<1>3. ASSUME NEW b \in Browsers PROVE ListTold(Told, lists'[b])
  <2>1. ListTold(Told, lists[b]) /\ \A n \in DOMAIN lists[b] : ListKnows(server, lists[b][n])
    BY ToldIsTold DEF ToldIn, ItemInv, ListsKnow
  <2>2. lists'[b] = [n \in DOMAIN lists[b] |->
                      [lists[b][n] EXCEPT !.lost = lists[b][n].reply = Nothing]]
    BY DEF Crash
  <2>3. ASSUME NEW n \in DOMAIN lists[b] PROVE lists'[b][n].reply = lists[b][n].reply
    <3> DEFINE r == lists[b][n]
    <3>1. r = [by |-> r.by, reply |-> r.reply, lost |-> r.lost, overtaken |-> r.overtaken]
      BY <2>1 DEF ListKnows
    <3> QED BY <2>2, <3>1
  <2> QED BY <2>1, <2>2, <2>3 DEF ListTold
<1>4. PICK T : T = Told
  OBVIOUS
<1>5. \A b \in Browsers : passedOver[b] \/ Tells(view[b]) \in T
  BY <1>4, ToldIsTold DEF ToldIn
<1>6. Tells(server) \in T
  BY <1>4, ToldIsTold DEF ToldIn
<1>7. ToldIn(T)'
  BY <1>1, <1>2, <1>3, <1>4, <1>5, <1>6 DEF ToldIn
<1> QED BY <1>1, <1>2, <1>4, <1>7, ToldGrows

LEMMA BootTells ==
  ASSUME ItemInv, OrderInv, Boot
  PROVE  OrderInv'
<1> DEFINE s == Tells(server)
           u == Tells(server')
<1>1. Sound(server) /\ ListLike(server) /\ Agree(s, Told)
  BY DEF ItemInv, OrderInv, Sound
<1>2. /\ server' = FreshRevisions(server, server.instance + 1)
      /\ UNCHANGED <<calls, lists, view, passedOver>>
  BY DEF Boot, browserVars
<1>3. ListLike(server') /\ server'.content = server.content
  BY Boots DEF ItemInv, Sound
<1>4. /\ server'.instance = server.instance + 1 /\ server'.state = 1
      /\ server'.orderRev = 1
      /\ server'.order = server.order
  BY <1>1, <1>2 DEF FreshRevisions, ListLike
<1>5. /\ s.instance = server.instance /\ s.order = server.order
      /\ Present(s) = Present(server)
      /\ u.instance = server'.instance /\ u.state = 1 /\ u.orderRev = 1
      /\ u.order = server'.order /\ Present(u) = Present(server')
      /\ u.instance \in Nat /\ u.content \in [Ids -> Contents]
  BY <1>1, <1>3, <1>4, TellsShows
<1>6. Telling(s)
  BY <1>1 DEF Agree
<1>7. Present(server') = Present(server)
  BY <1>3 DEF Present
<1> HIDE DEF s, u
<1>8. Later(s, u)
  BY <1>4, <1>5, <1>6, <1>7 DEF Later, Telling, OrderKnown
<1>9. \A k \in DOMAIN calls :
        CallTold(Told \cup {u}, calls[k]) /\ CallFits(u, Told \cup {u}, calls[k])
  BY <1>1, <1>8, OrderOfCalls, FitsLater DEF CallTold, s
<1>10. Agree(u, Told \cup {u})
  BY <1>1, <1>8, AgreeLater
<1> QED BY <1>2, <1>9, <1>10, ServerTells DEF u

LEMMA OrderInvStep == ItemInv /\ OrderInv /\ [ResourcesNext]_resourcesVars => OrderInv'
<1>1. ASSUME ItemInv, OrderInv, UNCHANGED resourcesVars PROVE OrderInv'
  <2>1. UNCHANGED <<server, calls, lists, view, passedOver>>
    BY <1>1 DEF resourcesVars, serverVars, browserVars
  <2> QED BY <1>1, <2>1, OrderOfCalls, SameTells
<1>2. ASSUME ItemInv, OrderInv, NEW k \in DOMAIN calls, Serve(k) PROVE OrderInv'
  BY <1>2, ServeDoes, CommitTells, AnswerTells, PublishTells
<1> QED
  BY <1>1, <1>2, ReceiveTells, UseTells, RefreshTells, CrashTells,
     BootTells DEF ResourcesNext

(* A reorder that is accepted replaces the order that its user saw. *)
LEMMA ReorderInformed ==
  ASSUME ItemInv, OrderInv, [ResourcesNext]_resourcesVars,
         NEW k \in DOMAIN calls, calls[k].op = "reorder", calls[k].phase = "sent",
         ~calls[k].blind, calls'[k].outcome \in Succeeded
  PROVE  calls[k].from = server.order
<1> USE DEF serverVars, browserVars
<1>1. /\ calls[k].outcome = "none" /\ calls[k].outcome \notin Succeeded
      /\ CallLike(calls[k]) /\ calls[k].op \notin Editing
  BY DEF ItemInv, CallsKnow, CallKnows, Succeeded, Editing
<1>2. calls'[k] # calls[k]
  BY <1>1
<1>3. ASSUME NEW j \in DOMAIN calls, Serve(j) PROVE ReorderProfiles(k)
  <2>1. ASSUME j # k PROVE calls'[k] = calls[k]
    <3>1. CASE Commits(j)
      BY <2>1, <3>1 DEF Commits, Commit
    <3>2. CASE Answers(j)
      BY <2>1, <3>2 DEF Answers, Answer
    <3>3. CASE PublishChange(j)
      BY <2>1, <3>3 DEF PublishChange
    <3> QED BY <1>3, <3>1, <3>2, <3>3, ServeDoes
  <2>2. j = k
    BY <1>2, <2>1
  <2> QED
    BY <1>3, <2>2
      DEF Serve, Handling, CreateProfile, UpdateProfile, DeleteProfile, PublishChange
<1>4. ASSUME NEW j \in DOMAIN calls, Receive(j) PROVE FALSE
  <2>1. calls[j].phase = "answered" /\ Finish(j)
    BY <1>4 DEF Receive, ReceiveReply, DropReply, ReceiveError, Ignore
  <2> QED BY <1>2, <2>1 DEF Finish
<1>5. ASSUME NEW b \in Browsers, Use(b) PROVE FALSE
  <2>1. calls' = calls \/ \E c : calls' = Append(calls, c)
    BY <1>5, Edits, Removes, Adds, Drags DEF Use, OpenForm, Makes
  <2>2. \A c : Append(calls, c)[k] = calls[k]
    BY SequenceFacts, Appended DEF ItemInv, CallsKnow
  <2> QED BY <1>2, <2>1, <2>2
<1>6. ASSUME NEW b \in Browsers, Refresh(b) PROVE FALSE
  BY <1>2, <1>6
    DEF Refresh, Reload, Open, AddClient, OnResourceChanged, RefreshTimer, ListProfiles,
        ReceiveList, browserVars
<1>7. ASSUME Crash PROVE FALSE
  <2> DEFINE c == [calls[k] EXCEPT !.phase = "answered", !.outcome = "failed",
                                   !.reply = Nothing]
  <2>1. calls'[k] = c
    BY <1>7 DEF Crash
  <2>2. c.outcome = "failed"
    BY <1>1 DEF CallLike
  <2> QED BY <2>1, <2>2 DEF Succeeded
<1>8. ASSUME Boot \/ UNCHANGED resourcesVars PROVE FALSE
  BY <1>2, <1>8 DEF Boot, resourcesVars
<1>9. ReorderProfiles(k)
  BY <1>3, <1>4, <1>5, <1>6, <1>7, <1>8 DEF ResourcesNext
<1>10. Matches(calls[k].expected, server.orderRev)
  <2>1. ASSUME NEW outcome \in {"refused", "failed"}, Answer(k, outcome) PROVE FALSE
    <3> DEFINE c == [calls[k] EXCEPT !.phase = "answered", !.outcome = outcome]
    <3>1. calls' = [calls EXCEPT ![k] = c]
      BY <2>1 DEF Answer
    <3>2. c.outcome = outcome
      BY <1>1 DEF CallLike
    <3> HIDE DEF c
    <3>3. calls'[k] = c
      BY <3>1
    <3> QED BY <3>2, <3>3 DEF Succeeded
  <2> QED BY <1>9, <2>1 DEF ReorderProfiles
<1>11. OrderKnown(Tells(server), calls[k].expected.instance, calls[k].expected.revision,
                  calls[k].from)
  BY DEF OrderInv, CallFits
<1> QED BY <1>10, <1>11 DEF OrderKnown, Matches, Tells

(* A reorder that is accepted replaces the order that its user saw, unless the page
   was moved past what it showed (passedOver): UpdateOrder checks only the revision. *)
THEOREM ReordersReplaceWhatWasSeen == ResourcesSpec => ReordersAreInformed
<1> DEFINE Informed ==
      \A k \in DOMAIN calls :
        /\ calls[k].op = "reorder" /\ calls[k].phase = "sent" /\ ~calls[k].blind
        /\ calls'[k].outcome \in {"changed", "unchanged"}
        => calls[k].from = server.order
<1>1. ResourcesSpec => [](ItemInv /\ OrderInv)
  BY ItemInvInit, ItemInvStep, OrderInvInit, OrderInvStep, PTL DEF ResourcesSpec
<1>2. ItemInv /\ OrderInv /\ [ResourcesNext]_resourcesVars => Informed
  BY ReorderInformed DEF Succeeded
<1>3. ItemInv /\ OrderInv /\ [ResourcesNext]_resourcesVars => [Informed]_resourcesVars
  BY <1>2
<1> QED BY <1>1, <1>3, PTL DEF ResourcesSpec, ReordersAreInformed

-----------------------------------------------------------------------------
(* Pages that are followed. *)

(* The events that the server which runs may have sent. *)
Now(s) == [instance: {s.instance}, state: 0 .. s.state]

(* A list call that was answered by a server before, or by none. *)
Other(c) == c.reply # Nothing /\ c.reply.instance # server.instance
Past(c) == c.lost \/ Other(c)

(* The list calls l of a page that shows a list of instance i. *)
InOrder(l, i) ==
  /\ \A m, n \in DOMAIN l : m < n =>
       /\ Other(l[n]) => Past(l[m])
       /\ up /\ l[n].lost => Past(l[m])
  /\ \A n \in DOMAIN l :
       /\ l[n].lost => l[n].reply = Nothing
       /\ up \/ l[n].lost \/ l[n].reply # Nothing
       /\ l[n].overtaken /\ ~Past(l[n]) => i = server.instance
       /\ Other(l[n]) /\ i = server.instance => l[n].overtaken

(* The synchronization s has one list call, to the server that runs. *)
OneSync(l, s) ==
  /\ \A m, n \in DOMAIN l : l[m].by = "sync" /\ l[n].by = "sync" => m = n
  /\ \A n \in DOMAIN l : l[n].by = "sync" => s # Nothing /\ (up => ~Past(l[n]))
  /\ s # Nothing => \E n \in DOMAIN l : l[n].by = "sync"

(* The synchronization s will show the server's list as it is, or schedule to. *)
Fetches(l, s) ==
  /\ s # Nothing
  /\ \/ s.again
     \/ Event(server) \in s.waiting
     \/ \E n \in DOMAIN l : /\ l[n].by = "sync"
                            /\ l[n].reply = Nothing \/ Event(l[n].reply) = Event(server)

Unpublished(k) == k \in DOMAIN calls /\ calls[k].phase = "unlocked"

OnItsWay(b) ==
  /\ queue[b] \in Seq(Now(server))
  /\ pending[b] \in Now(server) \cup {Nothing}
  /\ sync[b] \in [again: BOOLEAN, waiting: SUBSET Now(server)] \cup {Nothing}
  /\ view[b].instance <= server.instance
  /\ view[b].instance = server.instance => view[b].state <= server.state
  /\ ~up => queue[b] = <<>> /\ socket[b] = NoSocket
  /\ ~socket[b].registered => queue[b] = <<>>

(* The page with the socket s is open to the last change. *)
Listening(s) == s.opened /\ Event(server) \notin s.untold

(* The last change reaches the page: it is shown, or about to be published, or an
   event of it is queued or waits for its timer, or a synchronization fetches it. *)
Coming(b) ==
  Listening(socket[b]) =>
    \/ Applied(view[b], Event(server))
    \/ \E k : Unpublished(k) /\ Event(calls[k].reply) = Event(server)
    \/ \E n \in DOMAIN queue[b] : queue[b][n] = Event(server)
    \/ pending[b] = Event(server)
    \/ Fetches(lists[b], sync[b])

PageInv(b) ==
  /\ OnItsWay(b)
  /\ InOrder(lists[b], view[b].instance)
  /\ OneSync(lists[b], sync[b])
  /\ Coming(b)

QuietInv ==
  /\ TypedSockets(socket) /\ PerBrowser(queue) /\ PerBrowser(pending) /\ PerBrowser(sync)
  /\ \A k : Unpublished(k) => up /\ Event(calls[k].reply) \in Now(server)
  /\ \A b \in Followed : PageInv(b)

LEMMA NowFacts ==
  ASSUME NEW s, Sound(s)
  PROVE  /\ Event(s) \in Now(s)
         /\ Event(s).instance = s.instance /\ Event(s).state = s.state
         /\ s.instance \in Nat /\ s.state \in Nat
         /\ \A e \in Now(s) : /\ e.instance = s.instance /\ e.state \in 0 .. s.state
                              /\ e # Nothing
                              /\ e.state >= s.state => e = Event(s)
         /\ \A w \in SUBSET Now(s), a \in BOOLEAN : [again |-> a, waiting |-> w] # Nothing
<1>1. s.instance \in Nat /\ s.state \in Nat
  BY DEF Sound, ListLike
<1>2. Now(s) \subseteq Events
  BY <1>1 DEF Now, Events
<1>3. Nothing \notin Events /\ Nothing \notin Syncs
  BY ResourcesAssumption
<1>4. ASSUME NEW w \in SUBSET Now(s), NEW a \in BOOLEAN PROVE [again |-> a, waiting |-> w] # Nothing
  <2>1. [again |-> a, waiting |-> w] \in Syncs
    BY <1>2 DEF Syncs
  <2> QED BY <1>3, <2>1
<1>5. ASSUME NEW e \in Now(s)
      PROVE  /\ e.instance = s.instance /\ e.state \in 0 .. s.state
             /\ e.state >= s.state => e = Event(s)
  BY <1>1 DEF Now, Event
<1>6. /\ Event(s) \in Now(s)
      /\ Event(s).instance = s.instance /\ Event(s).state = s.state
  BY <1>1 DEF Event, Now
<1> QED BY <1>1, <1>2, <1>3, <1>4, <1>5, <1>6

(* What was replied is of the same history as what the server has. *)
LEMMA ReplyFacts ==
  ASSUME ItemInv, OrderInv, NEW r, ListLike(r), Tells(r) \in Told
  PROVE  /\ r.instance \in Nat /\ r.state \in Nat /\ r.instance <= server.instance
         /\ r.instance = server.instance => r.state <= server.state
<1>1. ListLike(server)
  BY DEF ItemInv, Sound
<1> QED BY <1>1, TellsShows DEF OrderInv, Agree, ListLike

LEMMA ListReplyFacts ==
  ASSUME ItemInv, OrderInv, NEW b \in Browsers, NEW n \in DOMAIN lists[b],
         lists[b][n].reply # Nothing
  PROVE  LET r == lists[b][n].reply IN
         /\ r.instance \in Nat /\ r.state \in Nat /\ r.instance <= server.instance
         /\ r.instance = server.instance => r.state <= server.state
<1> DEFINE r == lists[b][n].reply
<1>1. ListLike(r)
  BY DEF ItemInv, ListsKnow, ListKnows, Copy
<1>2. Tells(r) \in Told
  BY ToldIsTold DEF ToldIn, ListTold
<1> QED BY <1>1, <1>2, ReplyFacts

(* A page that nothing happens to. *)
LEMMA PageKept ==
  ASSUME NEW b \in Followed, PageInv(b), server' = server, up' = up,
         socket'[b] = socket[b], queue'[b] = queue[b], pending'[b] = pending[b],
         sync'[b] = sync[b], lists'[b] = lists[b], view'[b] = view[b],
         \A k : Unpublished(k) => Unpublished(k)' /\ calls'[k].reply = calls[k].reply
  PROVE  PageInv(b)'
<1>1. OnItsWay(b)'
  BY DEF PageInv, OnItsWay
<1>2. InOrder(lists[b], view[b].instance)'
  BY DEF PageInv, InOrder, Other, Past
<1>3. OneSync(lists[b], sync[b])'
  BY DEF PageInv, OneSync, Other, Past
<1>4. Coming(b)'
  <2>1. ASSUME Fetches(lists[b], sync[b]) PROVE Fetches(lists[b], sync[b])'
    BY <2>1 DEF Fetches
  <2>2. ASSUME NEW k, Unpublished(k), Event(calls[k].reply) = Event(server)
        PROVE  Unpublished(k)' /\ Event(calls'[k].reply) = Event(server')
    BY <2>2
  <2>3. Listening(socket[b])' => Listening(socket[b])
    BY DEF Listening
  <2> QED BY <2>1, <2>2, <2>3, Zenon DEF PageInv, Coming
<1> QED BY <1>1, <1>2, <1>3, <1>4 DEF PageInv

LEMMA QuietInvInit == ResourcesInit => QuietInv
<1> SUFFICES ASSUME ResourcesInit PROVE QuietInv
  OBVIOUS
<1>1. Sound(server)
  BY ItemInvInit DEF ItemInv
<1>2. /\ up = TRUE /\ calls = <<>> /\ lists = [b \in Browsers |-> <<>>]
      /\ socket = [b \in Browsers |-> IF b \in Followed THEN LiveSocket ELSE NoSocket]
      /\ queue = [b \in Browsers |-> <<>>] /\ view = [b \in Browsers |-> server]
      /\ pending = [b \in Browsers |-> Nothing] /\ sync = [b \in Browsers |-> Nothing]
  BY DEF ResourcesInit
<1>3. /\ TypedSockets(socket) /\ PerBrowser(queue) /\ PerBrowser(pending)
      /\ PerBrowser(sync)
  BY <1>2 DEF PerBrowser, TypedSockets, Sockets, NoSocket, LiveSocket
<1>4. ASSUME NEW k, Unpublished(k) PROVE FALSE
  BY <1>2, <1>4 DEF Unpublished
<1>5. ASSUME NEW b \in Followed PROVE PageInv(b)
  <2>1. /\ lists[b] = <<>> /\ queue[b] = <<>> /\ view[b] = server
        /\ pending[b] = Nothing /\ sync[b] = Nothing
    BY <1>2, ResourcesAssumption
  <2>2. server.instance \in Nat /\ server.state \in Nat /\ <<>> \in Seq(Now(server))
    BY <1>1, NowFacts
  <2>3. OnItsWay(b)
    <3>1. up /\ queue[b] = <<>>
      BY <1>2, <2>1
    <3>2. server.instance <= server.instance /\ server.state <= server.state
      BY <2>2
    <3> QED BY <2>1, <2>2, <3>1, <3>2, Zenon DEF OnItsWay
  <2>4. Applied(view[b], Event(server))
    BY <2>1, <2>2 DEF Applied, Event
  <2>5. InOrder(<<>>, server.instance) /\ OneSync(<<>>, Nothing)
    BY DEF InOrder, OneSync
  <2> QED BY <2>1, <2>3, <2>4, <2>5 DEF PageInv, Coming
<1> QED BY <1>3, <1>4, <1>5 DEF QuietInv

-----------------------------------------------------------------------------
(* The list calls of a page: one is sent, or one gets its reply. *)

LEMMA CallSent ==
  ASSUME NEW l, IsSeq(l), NEW i, InOrder(l, i), NEW by
  PROVE  InOrder(Append(l, ListCall(by)), i)
<1> DEFINE c == ListCall(by)
           L == Append(l, c)
<1>1. Len(l) \in Nat /\ DOMAIN l = 1 .. Len(l) /\ DOMAIN L = 1 .. Len(l) + 1
      /\ (\A n \in 1 .. Len(l) : L[n] = l[n]) /\ L[Len(l) + 1] = c
  BY SequenceFacts, Appended
<1>2. c.reply = Nothing /\ c.lost = ~up /\ c.overtaken = FALSE
  BY DEF ListCall
<1>3. ~Other(c) /\ (c.lost <=> ~up) /\ ~c.overtaken
  BY <1>2 DEF Other
<1> HIDE DEF c, L
<1>4. \A n \in 1 .. Len(l) + 1 : n \in DOMAIN l \/ (n = Len(l) + 1 /\ L[n] = c)
  BY <1>1
<1>5. ASSUME NEW m \in DOMAIN L, NEW n \in DOMAIN L, m < n
      PROVE  /\ Other(L[n]) => Past(L[m])
             /\ up /\ L[n].lost => Past(L[m])
  <2>1. m \in DOMAIN l /\ L[m] = l[m]
    BY <1>1, <1>5
  <2>2. CASE n \in DOMAIN l
    BY <1>1, <1>5, <2>1, <2>2 DEF InOrder
  <2>3. CASE n = Len(l) + 1
    BY <1>1, <1>3, <2>3
  <2> QED BY <1>1, <1>4, <2>2, <2>3
<1>6. ASSUME NEW n \in DOMAIN L
      PROVE  /\ L[n].lost => L[n].reply = Nothing
             /\ up \/ L[n].lost \/ L[n].reply # Nothing
             /\ L[n].overtaken /\ ~Past(L[n]) => i = server.instance
             /\ Other(L[n]) /\ i = server.instance => L[n].overtaken
  <2>1. CASE n \in DOMAIN l
    BY <1>1, <2>1 DEF InOrder
  <2>2. CASE L[n] = c
    BY <1>2, <1>3, <2>2
  <2> QED BY <1>1, <1>4, <2>1, <2>2
<1> QED BY <1>5, <1>6 DEF InOrder, L, c

LEMMA FormCallSent ==
  ASSUME NEW l, IsSeq(l), NEW s
  PROVE  LET L == Append(l, ListCall("form")) IN
         /\ OneSync(l, s) => OneSync(L, s)
         /\ Fetches(l, s) => Fetches(L, s)
<1> DEFINE c == ListCall("form")
           L == Append(l, c)
<1>1. Len(l) \in Nat /\ DOMAIN l = 1 .. Len(l) /\ DOMAIN L = 1 .. Len(l) + 1
      /\ (\A n \in 1 .. Len(l) : L[n] = l[n]) /\ L[Len(l) + 1] = c
  BY SequenceFacts, Appended
<1>2. c.by # "sync"
  BY DEF ListCall
<1> HIDE DEF c, L
<1>3. \A n \in DOMAIN L : L[n].by = "sync" => n \in DOMAIN l
  BY <1>1, <1>2
<1>4. DOMAIN l \subseteq DOMAIN L /\ \A n \in DOMAIN l : L[n] = l[n]
  BY <1>1
<1>5. OneSync(l, s) => OneSync(L, s)
  BY <1>3, <1>4 DEF OneSync
<1>6. Fetches(l, s) => Fetches(L, s)
  BY <1>4 DEF Fetches
<1> QED BY <1>5, <1>6 DEF L, c

LEMMA SyncCallSent ==
  ASSUME NEW l, IsSeq(l), \A n \in DOMAIN l : l[n].by # "sync", NEW s, s # Nothing
  PROVE  LET L == Append(l, ListCall("sync")) IN OneSync(L, s) /\ Fetches(L, s)
<1> DEFINE c == ListCall("sync")
           L == Append(l, c)
<1>1. Len(l) \in Nat /\ DOMAIN l = 1 .. Len(l) /\ DOMAIN L = 1 .. Len(l) + 1
      /\ (\A n \in 1 .. Len(l) : L[n] = l[n]) /\ L[Len(l) + 1] = c
  BY SequenceFacts, Appended
<1>2. c.by = "sync" /\ c.reply = Nothing /\ c.lost = ~up
  BY DEF ListCall
<1>3. up => ~Past(c)
  BY <1>2 DEF Past, Other
<1> HIDE DEF c, L
<1>4. \A n \in DOMAIN L : L[n].by = "sync" => n = Len(l) + 1 /\ L[n] = c
  BY <1>1
<1>5. Len(l) + 1 \in DOMAIN L
  BY <1>1
<1>6. OneSync(L, s)
  BY <1>1, <1>2, <1>3, <1>4, <1>5 DEF OneSync
<1>7. Fetches(L, s)
  BY <1>1, <1>2, <1>5 DEF Fetches
<1> QED BY <1>6, <1>7 DEF L, c

(* What LeftAfter leaves of each call. *)
LEMMA LeftShows ==
  ASSUME ItemInv, NEW b \in Browsers, NEW n \in DOMAIN lists[b]
  PROVE  LET l == lists[b]
             left == LeftAfter(b, n)
             taken == TakesSnapshot(b, l[n]) IN
         /\ IsSeq(left) /\ Len(l) \in Nat /\ DOMAIN l = 1 .. Len(l)
         /\ DOMAIN left = 1 .. Len(l) - 1
         /\ \A m \in DOMAIN left :
              IF m < n
              THEN /\ left[m].by = l[m].by /\ left[m].reply = l[m].reply
                   /\ left[m].lost = l[m].lost
                   /\ (left[m].overtaken <=> l[m].overtaken \/ taken)
              ELSE left[m] = l[m + 1]
<1> DEFINE l == lists[b]
           left == LeftAfter(b, n)
           taken == TakesSnapshot(b, l[n])
<1>1. /\ Len(l) \in Nat /\ DOMAIN l = 1 .. Len(l)
      /\ \A m \in DOMAIN l : ListKnows(server, l[m])
  BY SequenceFacts DEF ItemInv, ListsKnow
<1>2. DOMAIN left = 1 .. Len(l) - 1 /\ IsSeq(left)
  BY LeftKnow DEF LeftAfter, ListsKnow
<1>3. ASSUME NEW m \in DOMAIN left, m < n
      PROVE  /\ left[m].by = l[m].by /\ left[m].reply = l[m].reply
             /\ left[m].lost = l[m].lost
             /\ (left[m].overtaken <=> l[m].overtaken \/ taken)
  <2>1. m \in DOMAIN l
    BY <1>1, <1>2
  <2>2. l[m] = [by |-> l[m].by, reply |-> l[m].reply, lost |-> l[m].lost,
                overtaken |-> l[m].overtaken]
    BY <1>1, <2>1 DEF ListKnows
  <2>3. left[m] = [l[m] EXCEPT !.overtaken = l[m].overtaken \/ taken]
    BY <1>2, <1>3 DEF LeftAfter
  <2> QED BY <2>2, <2>3
<1>4. ASSUME NEW m \in DOMAIN left, ~(m < n) PROVE left[m] = l[m + 1]
  BY <1>2, <1>4 DEF LeftAfter
<1> QED BY <1>1, <1>2, <1>3, <1>4

LEMMA LeftInOrder ==
  ASSUME ItemInv, NEW b \in Browsers, NEW n \in DOMAIN lists[b],
         InOrder(lists[b], view[b].instance)
  PROVE  LET call == lists[b][n] IN
         InOrder(LeftAfter(b, n),
                 IF TakesSnapshot(b, call) THEN call.reply.instance ELSE view[b].instance)
<1> DEFINE l == lists[b]
           L == LeftAfter(b, n)
           taken == TakesSnapshot(b, l[n])
           v == view[b].instance
           i == IF taken THEN l[n].reply.instance ELSE v
           from(m) == IF m < n THEN m ELSE m + 1
<1>1. /\ Len(l) \in Nat /\ DOMAIN l = 1 .. Len(l) /\ DOMAIN L = 1 .. Len(l) - 1
      /\ \A m \in DOMAIN L :
           IF m < n
           THEN /\ L[m].by = l[m].by /\ L[m].reply = l[m].reply
                /\ L[m].lost = l[m].lost
                /\ (L[m].overtaken <=> l[m].overtaken \/ taken)
           ELSE L[m] = l[m + 1]
  BY LeftShows
<1>2. taken => l[n].reply # Nothing /\ (l[n].reply.instance # v => ~l[n].overtaken)
  BY DEF TakesSnapshot
<1>3. InOrder(l, v) /\ n \in DOMAIN l
  OBVIOUS
<1> HIDE DEF l, L, taken, v
<1>4. ASSUME NEW m \in DOMAIN L
      PROVE  /\ from(m) \in DOMAIN l /\ from(m) # n /\ (from(m) < n <=> m < n)
             /\ L[m].reply = l[from(m)].reply /\ L[m].lost = l[from(m)].lost
             /\ L[m].overtaken <=> l[from(m)].overtaken \/ (m < n /\ taken)
  <2>1. CASE m < n
    BY <1>1, <1>3, <2>1
  <2>2. CASE ~(m < n)
    BY <1>1, <1>3, <2>2
  <2> QED BY <2>1, <2>2
<1>5. \A m, k \in DOMAIN L : m < k => from(m) < from(k)
  BY <1>1, <1>3
<1> HIDE DEF from
<1>6. \A m \in DOMAIN L : /\ Other(L[m]) <=> Other(l[from(m)])
                          /\ Past(L[m]) <=> Past(l[from(m)])
  BY <1>4 DEF Other, Past
<1>7. n \in DOMAIN l /\ DOMAIN l \subseteq Int
  BY <1>1, <1>3
<1>8. ASSUME taken PROVE Other(l[n]) <=> i # server.instance
  BY <1>2, <1>8 DEF Other
<1>9. ASSUME NEW m \in DOMAIN L, NEW k \in DOMAIN L, m < k
      PROVE  /\ Other(L[k]) => Past(L[m])
             /\ up /\ L[k].lost => Past(L[m])
  BY <1>3, <1>4, <1>5, <1>6, <1>9 DEF InOrder
<1>10. ASSUME NEW m \in DOMAIN L
       PROVE  /\ L[m].lost => L[m].reply = Nothing
              /\ up \/ L[m].lost \/ L[m].reply # Nothing
  BY <1>3, <1>4 DEF InOrder
<1>11. ASSUME NEW m \in DOMAIN L, L[m].overtaken, ~Past(L[m]) PROVE i = server.instance
  <2>1. CASE ~taken
    BY <1>3, <1>4, <1>6, <1>11, <2>1 DEF InOrder
  <2>2. CASE taken /\ m < n
    <3>1. ~Other(l[n])
      BY <1>3, <1>4, <1>6, <1>7, <1>11, <2>2 DEF InOrder
    <3> QED BY <1>8, <2>2, <3>1
  <2>3. CASE taken /\ ~(m < n)
    <3>1. v = server.instance
      BY <1>3, <1>4, <1>6, <1>11, <2>3 DEF InOrder
    <3>2. ASSUME Other(l[n]) PROVE FALSE
      <4>1. l[n].overtaken
        BY <1>3, <1>7, <3>1, <3>2 DEF InOrder
      <4> QED BY <1>2, <2>3, <3>1, <3>2, <4>1 DEF Other
    <3> QED BY <1>8, <2>3, <3>2
  <2> QED BY <2>1, <2>2, <2>3
<1>12. ASSUME NEW m \in DOMAIN L, Other(L[m]), i = server.instance PROVE L[m].overtaken
  <2>1. CASE ~taken
    BY <1>3, <1>4, <1>6, <1>12, <2>1 DEF InOrder
  <2>2. CASE taken /\ m < n
    BY <1>4, <2>2
  <2>3. CASE taken /\ ~(m < n)
    <3>1. n < from(m) /\ Other(l[from(m)])
      BY <1>4, <1>6, <1>7, <1>12, <2>3
    <3>2. Past(l[n])
      BY <1>3, <1>4, <1>7, <3>1 DEF InOrder
    <3>3. ~Other(l[n])
      BY <1>8, <1>12, <2>3
    <3>4. l[n].lost
      BY <3>2, <3>3 DEF Past
    <3>5. l[n].reply = Nothing
      BY <1>3, <1>7, <3>4 DEF InOrder
    <3> QED BY <1>2, <2>3, <3>5
  <2> QED BY <2>1, <2>2, <2>3
<1>13. InOrder(L, i)
  BY <1>9, <1>10, <1>11, <1>12 DEF InOrder
<1> QED BY <1>13 DEF l, L, taken, v

LEMMA LeftSync ==
  ASSUME ItemInv, NEW b \in Browsers, NEW n \in DOMAIN lists[b], NEW s,
         OneSync(lists[b], s)
  PROVE  /\ lists[b][n].by = "sync" =>
              \A m \in DOMAIN LeftAfter(b, n) : LeftAfter(b, n)[m].by # "sync"
         /\ lists[b][n].by # "sync" =>
              /\ OneSync(LeftAfter(b, n), s)
              /\ Fetches(lists[b], s) => Fetches(LeftAfter(b, n), s)
<1> DEFINE l == lists[b]
           L == LeftAfter(b, n)
           taken == TakesSnapshot(b, l[n])
           from(m) == IF m < n THEN m ELSE m + 1
           to(m) == IF m < n THEN m ELSE m - 1
<1>1. /\ Len(l) \in Nat /\ DOMAIN l = 1 .. Len(l) /\ DOMAIN L = 1 .. Len(l) - 1
      /\ \A m \in DOMAIN L :
           IF m < n
           THEN /\ L[m].by = l[m].by /\ L[m].reply = l[m].reply
                /\ L[m].lost = l[m].lost
                /\ (L[m].overtaken <=> l[m].overtaken \/ taken)
           ELSE L[m] = l[m + 1]
  BY LeftShows
<1>2. OneSync(l, s) /\ n \in DOMAIN l
  OBVIOUS
<1> HIDE DEF l, L, taken
<1>3. ASSUME NEW m \in DOMAIN L
      PROVE  /\ from(m) \in DOMAIN l /\ from(m) # n /\ L[m].by = l[from(m)].by
             /\ L[m].reply = l[from(m)].reply /\ L[m].lost = l[from(m)].lost
  BY <1>1, <1>2
<1>4. \A m, k \in DOMAIN L : m # k => from(m) # from(k)
  BY <1>1, <1>2
<1>5. \A m \in DOMAIN l : m # n => to(m) \in DOMAIN L /\ from(to(m)) = m
  BY <1>1, <1>2
<1> HIDE DEF from, to
<1>6. \A m \in DOMAIN L : Past(L[m]) <=> Past(l[from(m)])
  BY <1>3 DEF Other, Past
<1>7. ASSUME l[n].by = "sync", NEW m \in DOMAIN L PROVE L[m].by # "sync"
  BY <1>2, <1>3, <1>7 DEF OneSync
<1>8. ASSUME l[n].by # "sync" PROVE OneSync(L, s)
  <2>1. \A m, k \in DOMAIN L : L[m].by = "sync" /\ L[k].by = "sync" => m = k
    BY <1>2, <1>3, <1>4 DEF OneSync
  <2>2. \A m \in DOMAIN L : L[m].by = "sync" => s # Nothing /\ (up => ~Past(L[m]))
    BY <1>2, <1>3, <1>6 DEF OneSync
  <2>3. ASSUME s # Nothing PROVE \E m \in DOMAIN L : L[m].by = "sync"
    <3>1. PICK m \in DOMAIN l : l[m].by = "sync"
      BY <1>2, <2>3 DEF OneSync
    <3> QED BY <1>3, <1>5, <1>8, <3>1
  <2> QED BY <2>1, <2>2, <2>3 DEF OneSync
<1>9. ASSUME l[n].by # "sync", Fetches(l, s) PROVE Fetches(L, s)
  <2>1. ASSUME NEW m \in DOMAIN l, l[m].by = "sync",
               l[m].reply = Nothing \/ Event(l[m].reply) = Event(server)
        PROVE  Fetches(L, s)
    <3>1. to(m) \in DOMAIN L /\ from(to(m)) = m
      BY <1>5, <1>9, <2>1
    <3>2. L[to(m)].by = "sync" /\ L[to(m)].reply = l[m].reply
      BY <1>3, <2>1, <3>1
    <3> QED BY <1>9, <2>1, <3>1, <3>2 DEF Fetches
  <2> QED BY <1>9, <2>1 DEF Fetches
<1> QED BY <1>7, <1>8, <1>9 DEF l, L

(* scheduleResourceRefresh keeps the newest event. *)
LEMMA ScheduledShows ==
  ASSUME Sound(server), NEW b, pending[b] \in Now(server) \cup {Nothing}, NEW v,
         NEW events \in SUBSET Now(server), NEW e \in Scheduled(b, v, events)
  PROVE  /\ e \in Now(server) \cup {Nothing}
         /\ \/ pending[b] = Event(server)
            \/ Event(server) \in events /\ ~Applied(v, Event(server))
            => e = Event(server)
<1> DEFINE E == Event(server)
           unseen == {f \in events : ~Applied(v, f)}
           rivals == unseen \cup ({pending[b]} \ {Nothing})
<1>1. /\ E \in Now(server) /\ E.state = server.state /\ server.state \in Nat
      /\ \A f \in Now(server) : /\ f.instance = server.instance /\ f.state \in 0 .. server.state
                                /\ f # Nothing
                                /\ f.state >= server.state => f = E
  BY NowFacts
<1>2. CASE unseen = {}
  <2>1. e = pending[b]
    BY <1>2 DEF Scheduled
  <2>2. ~(E \in events /\ ~Applied(v, E))
    BY <1>2
  <2> QED BY <2>1, <2>2
<1>3. CASE unseen # {}
  <2>1. e \in rivals /\ \A f \in rivals : f.instance = e.instance => f.state <= e.state
    BY <1>3 DEF Scheduled
  <2>2. rivals \subseteq Now(server)
    OBVIOUS
  <2>3. ASSUME E \in rivals PROVE e = E
    <3>1. E.instance = e.instance
      BY <1>1, <2>1, <2>2
    <3>2. e.state >= server.state
      BY <1>1, <2>1, <2>2, <2>3, <3>1
    <3> QED BY <1>1, <2>1, <2>2, <3>2
  <2>4. pending[b] = E => E \in rivals
    BY <1>1
  <2>5. E \in events /\ ~Applied(v, E) => E \in rivals
    OBVIOUS
  <2> QED BY <2>1, <2>2, <2>3, <2>4, <2>5
<1> QED BY <1>2, <1>3

-----------------------------------------------------------------------------
(* The steps of a page. *)

SamePage(b) ==
  /\ socket'[b] = socket[b] /\ queue'[b] = queue[b] /\ pending'[b] = pending[b]
  /\ sync'[b] = sync[b] /\ lists'[b] = lists[b] /\ view'[b] = view[b]

SameUnpublished ==
  \A k : /\ Unpublished(k)' <=> Unpublished(k)
         /\ Unpublished(k) => calls'[k].reply = calls[k].reply

LEMMA OnePageMoves ==
  ASSUME QuietInv, server' = server, up' = up, SameUnpublished,
         TypedSockets(socket)', PerBrowser(queue)', PerBrowser(pending)', PerBrowser(sync)',
         NEW b, \A a \in Followed \ {b} : SamePage(a), b \in Followed => PageInv(b)'
  PROVE  QuietInv'
<1>1. ASSUME NEW a \in Followed PROVE PageInv(a)'
  <2>1. CASE a = b
    BY <2>1
  <2>2. CASE a # b
    <3>1. SamePage(a) /\ PageInv(a)
      BY <2>2 DEF QuietInv
    <3>2. \A k : Unpublished(k) => Unpublished(k)' /\ calls'[k].reply = calls[k].reply
      BY DEF SameUnpublished
    <3> QED BY <3>1, <3>2, PageKept DEF SamePage
  <2> QED BY <2>1, <2>2
<1>2. \A k : Unpublished(k)' => up' /\ Event(calls'[k].reply) \in Now(server')
  BY DEF SameUnpublished, QuietInv
<1> QED BY <1>1, <1>2 DEF QuietInv

(* The invariant of a page in the state after. *)
LEMMA PageArrives ==
  ASSUME NEW b, server' = server, up' = up, SameUnpublished,
         queue'[b] \in Seq(Now(server)),
         pending'[b] \in Now(server) \cup {Nothing},
         sync'[b] \in [again: BOOLEAN, waiting: SUBSET Now(server)] \cup {Nothing},
         view'[b].instance <= server.instance,
         view'[b].instance = server.instance => view'[b].state <= server.state,
         up \/ (queue'[b] = <<>> /\ socket'[b] = NoSocket),
         socket'[b].registered \/ queue'[b] = <<>>,
         InOrder(lists'[b], view'[b].instance), OneSync(lists'[b], sync'[b]),
         Listening(socket'[b]) =>
           \/ Applied(view'[b], Event(server))
           \/ \E k : Unpublished(k) /\ Event(calls[k].reply) = Event(server)
           \/ \E n \in DOMAIN queue'[b] : queue'[b][n] = Event(server)
           \/ pending'[b] = Event(server)
           \/ Fetches(lists'[b], sync'[b])
  PROVE  PageInv(b)'
<1>1. OnItsWay(b)'
  BY DEF OnItsWay
<1>2. InOrder(lists[b], view[b].instance)'
  BY DEF InOrder, Other, Past
<1>3. OneSync(lists[b], sync[b])'
  BY DEF OneSync, Other, Past
<1>4. Coming(b)'
  <2>1. ASSUME Fetches(lists'[b], sync'[b]) PROVE Fetches(lists[b], sync[b])'
    BY <2>1 DEF Fetches
  <2>2. ASSUME NEW k, Unpublished(k), Event(calls[k].reply) = Event(server)
        PROVE  Unpublished(k)' /\ Event(calls'[k].reply) = Event(server')
    BY <2>2 DEF SameUnpublished
  <2>3. Listening(socket[b])' => Listening(socket'[b])
    BY DEF Listening
  <2> QED BY <2>1, <2>2, <2>3, Zenon DEF Coming
<1> QED BY <1>1, <1>2, <1>3, <1>4 DEF PageInv

LEMMA SameCalls ==
  ASSUME calls' = calls PROVE SameUnpublished
  BY DEF SameUnpublished, Unpublished

LEMMA Synchronizes ==
  ASSUME ItemInv, QuietInv, NEW b \in Followed, NEW events \in SUBSET Now(server),
         Synchronize(b, events)
  PROVE  /\ PerBrowser(sync)'
         /\ sync'[b] \in [again: BOOLEAN, waiting: SUBSET Now(server)]
         /\ InOrder(lists'[b], view[b].instance)
         /\ OneSync(lists'[b], sync'[b]) /\ Fetches(lists'[b], sync'[b])
         /\ \A a \in Followed \ {b} : lists'[a] = lists[a] /\ sync'[a] = sync[a]
<1> DEFINE z == sync[b]
<1>1. /\ b \in Browsers /\ PerBrowser(sync) /\ PerBrowser(lists) /\ IsSeq(lists[b])
      /\ InOrder(lists[b], view[b].instance) /\ OneSync(lists[b], z)
      /\ z \in [again: BOOLEAN, waiting: SUBSET Now(server)] \cup {Nothing}
      /\ Followed \subseteq Browsers
  BY ResourcesAssumption DEF QuietInv, PageInv, OnItsWay, ItemInv, ListsKnow
<1>2. CASE z # Nothing
  <2> DEFINE w == z.waiting \cup events
             y == [z EXCEPT !.again = TRUE, !.waiting = w]
  <2>1. z \in [again: BOOLEAN, waiting: SUBSET Now(server)]
    BY <1>1, <1>2
  <2>2. y \in [again: BOOLEAN, waiting: SUBSET Now(server)] /\ y.again = TRUE
    <3>1. w \in SUBSET Now(server)
      BY <2>1
    <3> HIDE DEF w
    <3> QED BY <2>1, <3>1
  <2>3. y # Nothing
    <3> HIDE DEF y
    <3>1. /\ y = [again |-> y.again, waiting |-> y.waiting]
          /\ y.again \in BOOLEAN /\ y.waiting \in SUBSET Now(server)
      BY <2>2
    <3> QED BY <3>1, NowFacts DEF ItemInv
  <2>4. sync' = [sync EXCEPT ![b] = y] /\ lists' = lists
    BY <1>1, <1>2 DEF Synchronize, PerBrowser
  <2>5. OneSync(lists[b], y)
    BY <1>1, <1>2, <2>3 DEF OneSync
  <2>6. Fetches(lists[b], y)
    BY <2>2, <2>3 DEF Fetches
  <2> HIDE DEF y
  <2> QED BY <1>1, <2>2, <2>4, <2>5, <2>6 DEF PerBrowser
<1>3. CASE z = Nothing
  <2> DEFINE y == [again |-> FALSE, waiting |-> events]
             L == Append(lists[b], ListCall("sync"))
  <2>1. sync' = [sync EXCEPT ![b] = y] /\ lists' = [lists EXCEPT ![b] = L]
    BY <1>1, <1>3 DEF Synchronize, SendList, PerBrowser
  <2>2. y \in [again: BOOLEAN, waiting: SUBSET Now(server)] /\ y # Nothing
    BY NowFacts DEF ItemInv
  <2>3. \A n \in DOMAIN lists[b] : lists[b][n].by # "sync"
    BY <1>1, <1>3 DEF OneSync
  <2>4. OneSync(L, y) /\ Fetches(L, y)
    BY <1>1, <2>2, <2>3, SyncCallSent
  <2>5. InOrder(L, view[b].instance)
    BY <1>1, CallSent
  <2> HIDE DEF y, L
  <2> QED BY <1>1, <2>1, <2>2, <2>4, <2>5 DEF PerBrowser
<1> QED BY <1>2, <1>3

LEMMA OpenKeeps ==
  ASSUME ItemInv, QuietInv, NEW b \in Browsers, Open(b)
  PROVE  QuietInv'
<1>1. /\ up /\ b \in Followed /\ Synchronize(b, {})
      /\ socket' = [socket EXCEPT ![b].opened = TRUE]
      /\ UNCHANGED <<server, up, calls, queue, view, pending>>
  BY DEF Open, serverVars
<1>2. {} \in SUBSET Now(server)
  OBVIOUS
<1>3. /\ PageInv(b) /\ TypedSockets(socket) /\ PerBrowser(queue) /\ PerBrowser(pending)
      /\ Followed \subseteq Browsers
  BY <1>1, ResourcesAssumption DEF QuietInv
<1>4. /\ PerBrowser(sync)'
      /\ sync'[b] \in [again: BOOLEAN, waiting: SUBSET Now(server)]
      /\ InOrder(lists'[b], view[b].instance)
      /\ OneSync(lists'[b], sync'[b]) /\ Fetches(lists'[b], sync'[b])
      /\ \A a \in Followed \ {b} : lists'[a] = lists[a] /\ sync'[a] = sync[a]
  BY <1>1, <1>2, Synchronizes
<1>5. /\ TypedSockets(socket)' /\ socket'[b].registered = socket[b].registered
      /\ \A a \in Followed \ {b} : socket'[a] = socket[a]
  BY <1>1, <1>3 DEF TypedSockets, Sockets
<1>6. SameUnpublished
  BY <1>1, SameCalls
<1>7. PageInv(b)'
  BY <1>1, <1>3, <1>4, <1>5, <1>6, PageArrives DEF PageInv, OnItsWay
<1>8. \A a \in Followed \ {b} : SamePage(a)
  BY <1>1, <1>4, <1>5 DEF SamePage
<1>9. PerBrowser(queue)' /\ PerBrowser(pending)'
  BY <1>1, <1>3
<1> QED BY <1>1, <1>4, <1>5, <1>6, <1>7, <1>8, <1>9, OnePageMoves

LEMMA AddClientKeeps ==
  ASSUME QuietInv, NEW b \in Browsers, AddClient(b)
  PROVE  QuietInv'
<1>1. /\ up /\ b \in Followed
      /\ socket' = [socket EXCEPT ![b].registered = TRUE]
      /\ UNCHANGED <<server, up, calls, queue, view, pending, sync, lists>>
  BY DEF AddClient, serverVars, browserVars
<1>2. /\ PageInv(b) /\ TypedSockets(socket) /\ PerBrowser(queue) /\ PerBrowser(pending)
      /\ PerBrowser(sync) /\ Followed \subseteq Browsers
  BY <1>1, ResourcesAssumption DEF QuietInv
<1>3. /\ TypedSockets(socket)' /\ socket'[b].registered
      /\ socket'[b].opened = socket[b].opened /\ socket'[b].untold = socket[b].untold
      /\ \A a \in Followed \ {b} : socket'[a] = socket[a]
  BY <1>1, <1>2 DEF TypedSockets, Sockets
<1>4. SameUnpublished
  BY <1>1, SameCalls
<1>5. Listening(socket'[b]) => Listening(socket[b])
  BY <1>3 DEF Listening
<1>6. PageInv(b)'
  BY <1>1, <1>2, <1>3, <1>4, <1>5, PageArrives DEF PageInv, OnItsWay, Coming
<1>7. \A a \in Followed \ {b} : SamePage(a)
  BY <1>1, <1>3 DEF SamePage
<1>8. PerBrowser(queue)' /\ PerBrowser(pending)' /\ PerBrowser(sync)'
  BY <1>1, <1>2
<1> QED BY <1>1, <1>3, <1>4, <1>6, <1>7, <1>8, OnePageMoves

LEMMA TimerKeeps ==
  ASSUME ItemInv, QuietInv, NEW b \in Browsers, RefreshTimer(b)
  PROVE  QuietInv'
<1>1. /\ pending[b] # Nothing
      /\ pending' = [pending EXCEPT ![b] = Nothing]
      /\ IF Applied(view[b], pending[b]) THEN UNCHANGED <<lists, sync>>
         ELSE Synchronize(b, {pending[b]})
      /\ UNCHANGED <<server, up, calls, socket, queue, view>>
  BY DEF RefreshTimer, serverVars
<1>2. /\ TypedSockets(socket) /\ PerBrowser(queue) /\ PerBrowser(pending)
      /\ PerBrowser(sync)
      /\ Followed \subseteq Browsers
  BY ResourcesAssumption DEF QuietInv
<1>3. /\ PerBrowser(pending)' /\ pending'[b] = Nothing
      /\ \A a \in Followed \ {b} : pending'[a] = pending[a]
  BY <1>1, <1>2 DEF PerBrowser
<1>4. SameUnpublished
  BY <1>1, SameCalls
<1>5. CASE Applied(view[b], pending[b])
  <2>1. UNCHANGED <<lists, sync>>
    BY <1>1, <1>5
  <2>2. ASSUME b \in Followed PROVE PageInv(b)'
    <3>1. PageInv(b)
      BY <2>2 DEF QuietInv
    <3> QED BY <1>1, <1>3, <1>4, <1>5, <2>1, <3>1, PageArrives DEF PageInv, OnItsWay,
               Coming
  <2>3. \A a \in Followed \ {b} : SamePage(a)
    BY <1>1, <1>3, <2>1 DEF SamePage
  <2>4. TypedSockets(socket)' /\ PerBrowser(queue)' /\ PerBrowser(sync)'
    BY <1>1, <1>2, <2>1
  <2> QED BY <1>1, <1>3, <1>4, <2>2, <2>3, <2>4, OnePageMoves
<1>6. CASE b \in Followed /\ ~Applied(view[b], pending[b])
  <2>1. PageInv(b)
    BY <1>6 DEF QuietInv
  <2>2. {pending[b]} \in SUBSET Now(server)
    BY <1>1, <2>1 DEF PageInv, OnItsWay
  <2>3. /\ PerBrowser(sync)'
        /\ sync'[b] \in [again: BOOLEAN, waiting: SUBSET Now(server)]
        /\ InOrder(lists'[b], view[b].instance)
        /\ OneSync(lists'[b], sync'[b]) /\ Fetches(lists'[b], sync'[b])
        /\ \A a \in Followed \ {b} : lists'[a] = lists[a] /\ sync'[a] = sync[a]
    BY <1>1, <1>6, <2>2, Synchronizes
  <2>4. PageInv(b)'
    BY <1>1, <1>3, <1>4, <2>1, <2>3, PageArrives DEF PageInv, OnItsWay
  <2>5. \A a \in Followed \ {b} : SamePage(a)
    BY <1>1, <1>3, <2>3 DEF SamePage
  <2>6. TypedSockets(socket)' /\ PerBrowser(queue)'
    BY <1>1, <1>2
  <2> QED BY <1>1, <1>3, <1>4, <2>3, <2>4, <2>5, <2>6, OnePageMoves
<1>7. CASE b \notin Followed /\ ~Applied(view[b], pending[b])
  <2>1. PerBrowser(sync)' /\ \A a \in Followed \ {b} : lists'[a] = lists[a] /\ sync'[a] = sync[a]
    <3>1. \/ /\ lists' = lists
             /\ \E y : sync' = [sync EXCEPT ![b] = y]
          \/ /\ \E l : lists' = [lists EXCEPT ![b] = l]
             /\ \E y : sync' = [sync EXCEPT ![b] = y]
      BY <1>1, <1>7 DEF Synchronize, SendList
    <3>2. PerBrowser(lists)
      BY DEF ItemInv
    <3> QED BY <1>2, <3>1, <3>2 DEF PerBrowser
  <2>2. \A a \in Followed \ {b} : SamePage(a)
    BY <1>1, <1>3, <2>1 DEF SamePage
  <2>3. TypedSockets(socket)' /\ PerBrowser(queue)'
    BY <1>1, <1>2
  <2> QED BY <1>1, <1>3, <1>4, <1>7, <2>1, <2>2, <2>3, OnePageMoves
<1> QED BY <1>5, <1>6, <1>7

LEMMA EventKeeps ==
  ASSUME ItemInv, QuietInv, NEW b \in Browsers, OnResourceChanged(b)
  PROVE  QuietInv'
<1> DEFINE q == queue[b]
           E == Event(server)
<1>1. PICK e \in Scheduled(b, view[b], {Head(q)}) :
        /\ pending' = [pending EXCEPT ![b] = e]
        /\ q # <<>> /\ queue' = [queue EXCEPT ![b] = Tail(q)]
        /\ UNCHANGED <<server, up, calls, lists, socket, view, sync>>
  BY DEF OnResourceChanged, serverVars, QuietInv, PerBrowser
<1>2. /\ TypedSockets(socket) /\ PerBrowser(queue) /\ PerBrowser(pending)
      /\ PerBrowser(sync)
      /\ Followed \subseteq Browsers
  BY ResourcesAssumption DEF QuietInv
<1>3. /\ PerBrowser(pending)' /\ pending'[b] = e
      /\ \A a \in Followed \ {b} : pending'[a] = pending[a]
  BY <1>1, <1>2 DEF PerBrowser
<1>4. /\ PerBrowser(queue)' /\ queue'[b] = Tail(q)
      /\ \A a \in Followed \ {b} : queue'[a] = queue[a]
  BY <1>1, <1>2 DEF PerBrowser
<1>5. SameUnpublished
  BY <1>1, SameCalls
<1>6. ASSUME b \in Followed PROVE PageInv(b)'
  <2>1. PageInv(b) /\ q \in Seq(Now(server)) /\ pending[b] \in Now(server) \cup {Nothing}
    BY <1>6 DEF QuietInv, PageInv, OnItsWay
  <2>2. /\ Head(q) \in Now(server) /\ Tail(q) \in Seq(Now(server)) /\ Head(q) = q[1]
        /\ \A n \in DOMAIN q : n # 1 => n - 1 \in DOMAIN Tail(q) /\ Tail(q)[n - 1] = q[n]
    BY <1>1, <2>1
  <2>3. {Head(q)} \in SUBSET Now(server)
    BY <2>2
  <2>4. /\ e \in Now(server) \cup {Nothing}
        /\ pending[b] = E \/ (Head(q) = E /\ ~Applied(view[b], E)) => e = E
    BY <2>1, <2>3, ScheduledShows DEF ItemInv
  <2>5. ASSUME NEW n \in DOMAIN q, q[n] = E
        PROVE  \/ Applied(view[b], E) \/ e = E
               \/ \E m \in DOMAIN Tail(q) : Tail(q)[m] = E
    BY <2>2, <2>4, <2>5
  <2>6. up
    BY <1>1, <2>1 DEF PageInv, OnItsWay
  <2>7. Listening(socket[b]) =>
          \/ Applied(view[b], E)
          \/ \E k : Unpublished(k) /\ Event(calls[k].reply) = E
          \/ \E n \in DOMAIN Tail(q) : Tail(q)[n] = E
          \/ e = E
          \/ Fetches(lists[b], sync[b])
    BY <2>1, <2>4, <2>5 DEF PageInv, Coming
  <2> QED BY <1>1, <1>3, <1>4, <1>5, <2>1, <2>2, <2>4, <2>6, <2>7,
             PageArrives DEF PageInv,
             OnItsWay
<1>7. \A a \in Followed \ {b} : SamePage(a)
  BY <1>1, <1>3, <1>4 DEF SamePage
<1>8. TypedSockets(socket)' /\ PerBrowser(sync)'
  BY <1>1, <1>2
<1> QED BY <1>1, <1>3, <1>4, <1>5, <1>6, <1>7, <1>8, OnePageMoves

LEMMA ListReplyKeeps ==
  ASSUME ItemInv, QuietInv, NEW b \in Browsers, NEW n \in DOMAIN lists[b],
         ListProfiles(b, n)
  PROVE  QuietInv'
<1> DEFINE l == lists[b]
           c == [l[n] EXCEPT !.reply = server]
           L == [l EXCEPT ![n] = c]
           i == view[b].instance
<1>1. /\ up /\ l[n].reply = Nothing /\ ~l[n].lost
      /\ lists' = [lists EXCEPT ![b] = L]
      /\ UNCHANGED <<server, up, calls, socket, queue, view, pending, sync>>
  BY DEF ListProfiles, serverVars, browserVars, ItemInv, PerBrowser
<1>2. /\ TypedSockets(socket) /\ PerBrowser(queue) /\ PerBrowser(pending)
      /\ PerBrowser(sync) /\ PerBrowser(lists)
      /\ Followed \subseteq Browsers /\ IsSeq(l) /\ ListKnows(server, l[n])
  BY ResourcesAssumption DEF QuietInv, ItemInv, ListsKnow
<1>3. /\ c.reply = server /\ c.by = l[n].by /\ c.lost = l[n].lost
      /\ c.overtaken = l[n].overtaken
  BY <1>2 DEF ListKnows
<1>4. DOMAIN L = DOMAIN l /\ L[n] = c /\ \A m \in DOMAIN l : m # n => L[m] = l[m]
  BY <1>2, Replaced
<1>5. lists'[b] = L /\ \A a \in Followed \ {b} : lists'[a] = lists[a]
  BY <1>1, <1>2 DEF PerBrowser
<1>6. DOMAIN l = 1 .. Len(l) /\ Len(l) \in Nat
  BY <1>2, SequenceFacts
<1>7. ~Past(l[n]) /\ ~Other(c) /\ ~Past(c)
  BY <1>1, <1>3 DEF Past, Other
<1>8. ASSUME b \in Followed PROVE PageInv(b)'
  <2>1. InOrder(l, i) /\ OneSync(l, sync[b]) /\ PageInv(b)
    BY <1>8 DEF QuietInv, PageInv
  <2> HIDE DEF l, c, L, i
  <2>2. \A m \in DOMAIN L : m = n \/ L[m] = l[m]
    BY <1>4
  <2>3. ASSUME NEW j \in DOMAIN L, NEW m \in DOMAIN L, j < m
        PROVE  /\ Other(L[m]) => Past(L[j])
               /\ up /\ L[m].lost => Past(L[j])
    <3>1. CASE m = n
      BY <1>1, <1>3, <1>4, <1>7, <3>1
    <3>2. CASE m # n
      <4>1. L[m] = l[m] /\ m \in DOMAIN l /\ j \in DOMAIN l
        BY <1>4, <3>2
      <4>2. /\ Other(l[m]) => Past(l[j])
            /\ up /\ l[m].lost => Past(l[j])
        BY <2>1, <2>3, <4>1 DEF InOrder
      <4> QED BY <1>4, <1>7, <2>2, <4>1, <4>2
    <3> QED BY <3>1, <3>2
  <2>4. ASSUME NEW m \in DOMAIN L
        PROVE  /\ L[m].lost => L[m].reply = Nothing
               /\ up \/ L[m].lost \/ L[m].reply # Nothing
               /\ L[m].overtaken /\ ~Past(L[m]) => i = server.instance
               /\ Other(L[m]) /\ i = server.instance => L[m].overtaken
    <3>1. CASE m = n
      <4>1. n \in DOMAIN l /\ (l[n].overtaken => i = server.instance)
        BY <1>4, <1>7, <2>1, <3>1 DEF InOrder
      <4> QED BY <1>1, <1>3, <1>4, <1>7, <3>1, <4>1
    <3>2. CASE m # n
      BY <1>4, <2>1, <3>2 DEF InOrder
    <3> QED BY <3>1, <3>2
  <2>5. InOrder(L, i)
    BY <2>3, <2>4 DEF InOrder
  <2>6. \A m \in DOMAIN L : L[m].by = l[m].by /\ (Past(L[m]) => Past(l[m]))
    BY <1>3, <1>4, <1>7
  <2>7. OneSync(L, sync[b])
    BY <1>4, <2>1, <2>6 DEF OneSync
  <2>8. ASSUME Fetches(l, sync[b]) PROVE Fetches(L, sync[b])
    <3>1. ASSUME NEW m \in DOMAIN l, l[m].by = "sync",
                 l[m].reply = Nothing \/ Event(l[m].reply) = Event(server)
          PROVE  /\ m \in DOMAIN L /\ L[m].by = "sync"
                 /\ L[m].reply = Nothing \/ Event(L[m].reply) = Event(server)
      BY <1>3, <1>4, <3>1
    <3> QED BY <2>8, <3>1 DEF Fetches
  <2>9. Listening(socket[b]) =>
          \/ Applied(view[b], Event(server))
          \/ \E k : Unpublished(k) /\ Event(calls[k].reply) = Event(server)
          \/ \E m \in DOMAIN queue[b] : queue[b][m] = Event(server)
          \/ pending[b] = Event(server)
          \/ Fetches(L, sync[b])
    BY <2>1, <2>8 DEF PageInv, Coming, l
  <2> QED BY <1>1, <1>5, <2>1, <2>5, <2>7, <2>9, SameCalls, PageArrives DEF PageInv,
             OnItsWay, i
<1>9. \A a \in Followed \ {b} : SamePage(a)
  BY <1>1, <1>5 DEF SamePage
<1>10. /\ TypedSockets(socket)' /\ PerBrowser(queue)' /\ PerBrowser(pending)'
       /\ PerBrowser(sync)'
  BY <1>1, <1>2
<1> QED BY <1>1, <1>8, <1>9, <1>10, SameCalls, OnePageMoves

(* A page never falls behind, and the list that was fetched for the last change
   shows it. *)
LEMMA ShownAdvances ==
  ASSUME ItemInv, OrderInv, NEW b \in Followed, PageInv(b), NEW n \in DOMAIN lists[b],
         lists[b][n].lost \/ lists[b][n].reply # Nothing
  PROVE  LET call == lists[b][n]
             shown == IF TakesSnapshot(b, call) THEN call.reply ELSE view[b] IN
         /\ shown.instance <= server.instance
         /\ shown.instance = server.instance => shown.state <= server.state
         /\ Applied(view[b], Event(server)) => Applied(shown, Event(server))
         /\ ~call.lost /\ Event(call.reply) = Event(server) => Applied(shown, Event(server))
<1> DEFINE call == lists[b][n]
           r == call.reply
           v == view[b]
           taken == TakesSnapshot(b, call)
           shown == IF taken THEN r ELSE v
<1>1. /\ b \in Browsers
      /\ v.instance <= server.instance
      /\ v.instance = server.instance => v.state <= server.state
      /\ InOrder(lists[b], v.instance)
  BY ResourcesAssumption DEF PageInv, OnItsWay
<1>2. ListLike(v) /\ Sound(server) /\ Event(server).instance = server.instance
      /\ Event(server).state = server.state /\ server.state \in Nat
  BY <1>1, NowFacts DEF ItemInv, Copy
<1>3. r # Nothing =>
        /\ r.instance \in Nat /\ r.state \in Nat /\ r.instance <= server.instance
        /\ r.instance = server.instance => r.state <= server.state
  BY <1>1, ListReplyFacts
<1>4. v.instance \in Nat /\ v.state \in Nat
  BY <1>2 DEF ListLike
<1>5. taken <=> /\ r # Nothing
                /\ IF r.instance = v.instance THEN r.state >= v.state ELSE ~call.overtaken
  BY DEF TakesSnapshot
<1>6. /\ call.lost => r = Nothing
      /\ call.overtaken /\ ~Past(call) => v.instance = server.instance
      /\ Other(call) /\ v.instance = server.instance => call.overtaken
      /\ call.lost \/ r # Nothing
  BY <1>1 DEF InOrder
<1>7. Event(r) = Event(server) => r.instance = server.instance /\ r.state = server.state
  BY DEF Event
<1>8. \A w : Applied(w, Event(server)) <=> w.instance = server.instance /\ w.state >= server.state
  BY <1>2 DEF Applied
<1> HIDE DEF call, r, v, taken
<1>9. /\ shown.instance <= server.instance
      /\ shown.instance = server.instance => shown.state <= server.state
  BY <1>1, <1>3, <1>5
<1>10. ASSUME Applied(v, Event(server)) PROVE Applied(shown, Event(server))
  <2>1. CASE taken
    <3>1. CASE r.instance = v.instance
      BY <1>2, <1>3, <1>4, <1>5, <1>8, <1>10, <2>1, <3>1
    <3>2. CASE r.instance # v.instance
      <4>1. Other(call)
        BY <1>5, <1>8, <1>10, <2>1, <3>2 DEF Other, r
      <4> QED BY <1>5, <1>6, <1>8, <1>10, <2>1, <3>2, <4>1
    <3> QED BY <3>1, <3>2
  <2>2. CASE ~taken
    BY <1>10, <2>2
  <2> QED BY <2>1, <2>2
<1>11. ASSUME ~call.lost, Event(r) = Event(server) PROVE Applied(shown, Event(server))
  <2>1. r # Nothing /\ r.instance = server.instance /\ r.state = server.state
    BY <1>6, <1>7, <1>11
  <2>2. ~Past(call)
    BY <1>11, <2>1 DEF Past, Other, r
  <2>3. taken
    BY <1>1, <1>2, <1>3, <1>4, <1>5, <1>6, <2>1, <2>2
  <2> QED BY <1>2, <1>8, <2>1, <2>3
<1> QED BY <1>9, <1>10, <1>11 DEF call, r, v, taken

LEMMA ListKeeps ==
  ASSUME ItemInv, OrderInv, QuietInv, NEW b \in Browsers, NEW n \in DOMAIN lists[b],
         ReceiveList(b, n)
  PROVE  QuietInv'
<1> DEFINE call == lists[b][n]
           shown == IF TakesSnapshot(b, call) THEN call.reply ELSE view[b]
           L == LeftAfter(b, n)
           E == Event(server)
           z == sync[b]
<1>1. /\ call.lost \/ call.reply # Nothing
      /\ view' = [view EXCEPT ![b] = shown]
      /\ IF call.by = "sync" THEN Drain(b, n, shown)
         ELSE lists' = [lists EXCEPT ![b] = L] /\ UNCHANGED <<sync, pending>>
      /\ UNCHANGED <<server, up, calls, socket, queue>>
  BY DEF ReceiveList, serverVars
<1>2. /\ TypedSockets(socket) /\ PerBrowser(queue) /\ PerBrowser(pending)
      /\ PerBrowser(sync) /\ PerBrowser(lists)
      /\ PerBrowser(view) /\ Followed \subseteq Browsers
  BY ResourcesAssumption DEF QuietInv, ItemInv
<1>3. view'[b] = shown /\ \A a \in Followed \ {b} : view'[a] = view[a]
  BY <1>1, <1>2 DEF PerBrowser
<1>4. SameUnpublished
  BY <1>1, SameCalls
<1>5. TypedSockets(socket)' /\ PerBrowser(queue)'
  BY <1>1, <1>2
<1>6. /\ PerBrowser(sync)' /\ PerBrowser(pending)'
      /\ \A a \in Followed \ {b} :
           lists'[a] = lists[a] /\ sync'[a] = sync[a] /\ pending'[a] = pending[a]
  <2>1. \E l : lists' = [lists EXCEPT ![b] = l]
    BY <1>1 DEF Drain
  <2>2. sync' = sync \/ \E y : sync' = [sync EXCEPT ![b] = y]
    BY <1>1 DEF Drain
  <2>3. pending' = pending \/ \E y : pending' = [pending EXCEPT ![b] = y]
    BY <1>1 DEF Drain
  <2> QED BY <1>2, <2>1, <2>2, <2>3 DEF PerBrowser
<1>7. \A a \in Followed \ {b} : SamePage(a)
  BY <1>1, <1>3, <1>6 DEF SamePage
<1>8. ASSUME b \in Followed PROVE PageInv(b)'
  <2>1. /\ PageInv(b) /\ InOrder(lists[b], view[b].instance) /\ OneSync(lists[b], z)
        /\ pending[b] \in Now(server) \cup {Nothing}
        /\ z \in [again: BOOLEAN, waiting: SUBSET Now(server)] \cup {Nothing}
        /\ up \/ (queue[b] = <<>> /\ socket[b] = NoSocket)
        /\ socket[b].registered \/ queue[b] = <<>>
        /\ queue[b] \in Seq(Now(server))
    BY <1>8 DEF QuietInv, PageInv, OnItsWay
  <2>2. /\ shown.instance <= server.instance
        /\ shown.instance = server.instance => shown.state <= server.state
        /\ Applied(view[b], E) => Applied(shown, E)
        /\ ~call.lost /\ Event(call.reply) = E => Applied(shown, E)
    BY <1>1, <1>8, <2>1, ShownAdvances
  <2>3. InOrder(L, shown.instance) /\ IsSeq(L)
    BY <2>1, LeftInOrder, LeftShows
  <2>4. /\ call.by = "sync" => \A m \in DOMAIN L : L[m].by # "sync"
        /\ call.by # "sync" => OneSync(L, z) /\ (Fetches(lists[b], z) => Fetches(L, z))
    BY <2>1, LeftSync
  <2>5. Listening(socket[b]) =>
          \/ Applied(shown, E)
          \/ \E k : Unpublished(k) /\ Event(calls[k].reply) = E
          \/ \E m \in DOMAIN queue[b] : queue[b][m] = E
          \/ pending[b] = E
          \/ Fetches(lists[b], z)
    BY <2>1, <2>2 DEF PageInv, Coming
  <2> HIDE DEF call, shown, L, E, z
  <2>6. CASE call.by # "sync"
    <3>1. lists'[b] = L /\ sync'[b] = z /\ pending'[b] = pending[b]
      BY <1>1, <1>2, <2>6 DEF PerBrowser, z
    <3> QED BY <1>1, <1>3, <1>4, <2>1, <2>2, <2>3, <2>4, <2>5, <2>6, <3>1,
               PageArrives DEF E
  <2>7. CASE call.by = "sync" /\ z.again
    <3> DEFINE y == [z EXCEPT !.again = FALSE]
               M == Append(L, ListCall("sync"))
    <3>1. sync'[b] = y /\ lists'[b] = M /\ pending'[b] = pending[b]
      BY <1>1, <1>2, <2>7 DEF Drain, PerBrowser, L, z
    <3>2. z # Nothing /\ z \in [again: BOOLEAN, waiting: SUBSET Now(server)]
      BY <2>1, <2>7 DEF OneSync, call, z
    <3>3. y \in [again: BOOLEAN, waiting: SUBSET Now(server)]
      BY <3>2
    <3> HIDE DEF y
    <3>4. y # Nothing
      <4>1. /\ y = [again |-> y.again, waiting |-> y.waiting]
            /\ y.again \in BOOLEAN /\ y.waiting \in SUBSET Now(server)
        BY <3>3
      <4> QED BY <4>1, NowFacts DEF ItemInv
    <3>5. OneSync(M, y) /\ Fetches(M, y)
      BY <2>3, <2>4, <2>7, <3>4, SyncCallSent
    <3>6. InOrder(M, shown.instance)
      BY <2>3, CallSent
    <3> HIDE DEF M
    <3> QED BY <1>1, <1>3, <1>4, <2>1, <2>2, <3>1, <3>3, <3>5, <3>6, PageArrives DEF E
  <2>8. CASE call.by = "sync" /\ ~z.again
    <3> DEFINE events == IF call.lost THEN {} ELSE z.waiting
    <3>1. PICK e \in Scheduled(b, shown, events) : pending' = [pending EXCEPT ![b] = e]
      BY <1>1, <2>8 DEF Drain, call, z
    <3>2. /\ sync'[b] = Nothing /\ lists'[b] = L /\ pending'[b] = e
      BY <1>1, <1>2, <2>8, <3>1 DEF Drain, PerBrowser, L, z
    <3>3. z # Nothing /\ z \in [again: BOOLEAN, waiting: SUBSET Now(server)]
      BY <2>1, <2>8 DEF OneSync, call, z
    <3>4. events \in SUBSET Now(server)
      BY <3>3
    <3>5. /\ e \in Now(server) \cup {Nothing}
          /\ pending[b] = E \/ (E \in events /\ ~Applied(shown, E)) => e = E
      <4> HIDE DEF events
      <4> QED BY <2>1, <3>4, ScheduledShows DEF ItemInv, E
    <3>6. OneSync(L, Nothing)
      BY <2>4, <2>8 DEF OneSync
    <3>7. ASSUME Listening(socket[b]), Fetches(lists[b], z) PROVE Applied(shown, E) \/ e = E
      <4>1. up /\ ~call.lost
        <5>1. up
          BY <2>1, <3>7 DEF Listening, NoSocket
        <5>2. ~Past(call)
          BY <2>1, <2>8, <5>1 DEF OneSync, call
        <5> QED BY <5>1, <5>2 DEF Past
      <4>2. CASE E \in z.waiting
        BY <3>5, <4>1, <4>2
      <4>3. ASSUME NEW m \in DOMAIN lists[b], lists[b][m].by = "sync",
                   lists[b][m].reply = Nothing \/ Event(lists[b][m].reply) = E
            PROVE  Applied(shown, E)
        <5>1. lists[b][m] = call
          BY <2>1, <2>8, <4>3 DEF OneSync, call
        <5> QED BY <1>1, <2>2, <4>1, <4>3, <5>1
      <4> QED BY <2>8, <3>7, <4>2, <4>3 DEF Fetches, E
    <3>8. Listening(socket[b]) =>
            \/ Applied(shown, E)
            \/ \E k : Unpublished(k) /\ Event(calls[k].reply) = E
            \/ \E m \in DOMAIN queue[b] : queue[b][m] = E
            \/ e = E
      BY <2>5, <3>5, <3>7
    <3> HIDE DEF events
    <3> QED BY <1>1, <1>3, <1>4, <2>1, <2>2, <2>3, <3>2, <3>5, <3>6, <3>8,
               PageArrives DEF E
  <2> QED BY <2>6, <2>7, <2>8
<1> QED BY <1>1, <1>4, <1>5, <1>6, <1>7, <1>8, OnePageMoves

LEMMA RefreshKeeps ==
  ASSUME ItemInv, OrderInv, QuietInv, NEW b \in Browsers, Refresh(b)
  PROVE  QuietInv'
<1>1. CASE Reload(b)
  <2>1. /\ b \notin Followed /\ view' = [view EXCEPT ![b] = server]
        /\ UNCHANGED <<server, up, calls, lists, socket, queue, pending, sync>>
    BY <1>1 DEF Reload, serverVars
  <2>2. \A a \in Followed \ {b} : SamePage(a)
    BY <2>1, ResourcesAssumption DEF SamePage, ItemInv, PerBrowser
  <2>3. /\ TypedSockets(socket)' /\ PerBrowser(queue)' /\ PerBrowser(pending)'
        /\ PerBrowser(sync)'
    BY <2>1 DEF QuietInv
  <2> QED BY <2>1, <2>2, <2>3, SameCalls, OnePageMoves
<1> QED BY <1>1, OpenKeeps, AddClientKeeps, EventKeeps, TimerKeeps, ListReplyKeeps,
           ListKeeps DEF Refresh

-----------------------------------------------------------------------------
(* The steps of calls. *)

(* Only the calls change, and none is committed or published. *)
LEMMA CallKeeps ==
  ASSUME QuietInv, SameUnpublished,
         UNCHANGED <<server, up, lists, socket, queue, view, pending, sync>>
  PROVE  QuietInv'
<1>1. \A a \in Followed : SamePage(a)
  BY DEF SamePage
<1>2. /\ TypedSockets(socket)' /\ PerBrowser(queue)' /\ PerBrowser(pending)'
      /\ PerBrowser(sync)'
  BY DEF QuietInv
<1>3. PICK b : b \notin Followed
  BY NoSetContainsEverything
<1> QED BY <1>1, <1>2, <1>3, OnePageMoves

LEMMA OneCallMoves ==
  ASSUME ItemInv, NEW k \in DOMAIN calls, calls[k].phase # "unlocked", NEW c,
         c.phase # "unlocked", calls' = [calls EXCEPT ![k] = c]
  PROVE  SameUnpublished
<1>1. IsSeq(calls)
  BY DEF ItemInv, CallsKnow
<1>2. /\ DOMAIN calls' = DOMAIN calls /\ calls'[k] = c
      /\ \A j \in DOMAIN calls : j # k => calls'[j] = calls[j]
  BY <1>1, Replaced
<1> QED BY <1>2 DEF SameUnpublished, Unpublished

LEMMA AnswerKeeps ==
  ASSUME ItemInv, QuietInv, NEW k \in DOMAIN calls, calls[k].phase = "sent", Answers(k)
  PROVE  QuietInv'
<1>1. PICK outcome : Answer(k, outcome)
  BY DEF Answers
<1> DEFINE c == [calls[k] EXCEPT !.phase = "answered", !.outcome = outcome]
<1>2. /\ calls' = [calls EXCEPT ![k] = c]
      /\ UNCHANGED <<server, up, lists, socket, queue, view, pending, sync>>
  BY <1>1 DEF Answer, serverVars, browserVars
<1>3. CallLike(calls[k])
  BY DEF ItemInv, CallsKnow, CallKnows
<1>4. c.phase = "answered"
  BY <1>3 DEF CallLike
<1> HIDE DEF c
<1> QED BY <1>2, <1>4, OneCallMoves, CallKeeps

LEMMA CommitKeeps ==
  ASSUME ItemInv, QuietInv, NEW k \in DOMAIN calls, calls[k].phase = "sent", Serve(k),
         Commits(k)
  PROVE  QuietInv'
<1>1. PICK next :
        /\ Commit(k, next) /\ Follows(server, next)
        /\ next = server \/ ChangesOrder(calls[k], server, next)
  BY DEF Commits
<1> DEFINE changed == next # server
           c == [calls[k] EXCEPT !.phase = IF changed THEN "unlocked" ELSE "answered",
                                 !.outcome = IF changed THEN "changed" ELSE "unchanged",
                                 !.reply = next]
<1>2. /\ server' = next /\ calls' = [calls EXCEPT ![k] = c]
      /\ UNCHANGED <<up, lists, socket, queue, view, pending, sync>>
  BY <1>1 DEF Commit, browserVars
<1>3. CallLike(calls[k]) /\ IsSeq(calls) /\ Sound(server) /\ Sound(next)
  BY <1>1 DEF ItemInv, CallsKnow, CallKnows, Follows
<1>4. c.phase = (IF changed THEN "unlocked" ELSE "answered") /\ c.reply = next
  BY <1>3 DEF CallLike
<1> HIDE DEF c
<1>5. CASE next = server
  <2>1. SameUnpublished
    BY <1>2, <1>4, <1>5, OneCallMoves
  <2> QED BY <1>2, <1>5, <2>1, CallKeeps
<1>6. CASE ChangesOrder(calls[k], server, next)
  <2>1. next.instance = server.instance /\ next.state = server.state + 1
    BY <1>6 DEF ChangesOrder
  <2>2. server.state \in Nat /\ server.instance \in Nat /\ Event(next) \in Now(next)
    BY <1>3, NowFacts
  <2>3. Now(server) \subseteq Now(next)
    BY <2>1, <2>2 DEF Now
  <2>4. c.phase = "unlocked"
    BY <1>4, <2>1, <2>2
  <2>5. /\ DOMAIN calls' = DOMAIN calls /\ calls'[k] = c
        /\ \A j \in DOMAIN calls : j # k => calls'[j] = calls[j]
    BY <1>2, <1>3, Replaced
  <2>6. up
    BY DEF Serve, CreateProfile, UpdateProfile, DeleteProfile, ReorderProfiles,
       PublishChange,
           Handling
  <2>7. \A j : Unpublished(j)' => up' /\ Event(calls'[j].reply) \in Now(server')
    BY <1>2, <1>4, <2>2, <2>3, <2>5, <2>6 DEF Unpublished, QuietInv
  <2>8. ASSUME NEW b \in Followed PROVE PageInv(b)'
    <3>1. PageInv(b)
      BY DEF QuietInv
    <3>2. OnItsWay(b)'
      <4>1. queue[b] \in Seq(Now(next))
        BY <2>3, <3>1 DEF PageInv, OnItsWay
      <4>2. pending[b] \in Now(next) \cup {Nothing}
        BY <2>3, <3>1 DEF PageInv, OnItsWay
      <4>3. sync[b] \in [again: BOOLEAN, waiting: SUBSET Now(next)] \cup {Nothing}
        BY <2>3, <3>1 DEF PageInv, OnItsWay
      <4>4. /\ view[b].instance <= next.instance
            /\ view[b].instance = next.instance => view[b].state <= next.state
        <5>1. ListLike(view[b])
          BY ResourcesAssumption DEF ItemInv, Copy
        <5> QED BY <2>1, <2>2, <3>1, <5>1 DEF PageInv, OnItsWay, ListLike
      <4>5. ~socket[b].registered => queue[b] = <<>>
        BY <3>1 DEF PageInv, OnItsWay
      <4> QED BY <1>2, <2>6, <4>1, <4>2, <4>3, <4>4, <4>5 DEF OnItsWay
    <3>3. InOrder(lists[b], view[b].instance)'
      BY <1>2, <2>1, <3>1 DEF PageInv, InOrder, Other, Past
    <3>4. OneSync(lists[b], sync[b])'
      BY <1>2, <2>1, <3>1 DEF PageInv, OneSync, Other, Past
    <3>5. Unpublished(k)' /\ Event(calls'[k].reply) = Event(server')
      BY <1>2, <1>4, <2>4, <2>5 DEF Unpublished
    <3> QED BY <3>2, <3>3, <3>4, <3>5 DEF PageInv, Coming
  <2>9. /\ TypedSockets(socket)' /\ PerBrowser(queue)' /\ PerBrowser(pending)'
        /\ PerBrowser(sync)'
    BY <1>2 DEF QuietInv
  <2> QED BY <2>7, <2>8, <2>9 DEF QuietInv
<1> QED BY <1>1, <1>5, <1>6

LEMMA PublishKeeps ==
  ASSUME ItemInv, QuietInv, NEW k \in DOMAIN calls, PublishChange(k)
  PROVE  QuietInv'
<1> DEFINE full == {b \in Browsers : socket[b].registered /\ Len(queue[b]) = QueueSize}
           early == {b \in Browsers : socket[b].opened /\ ~socket[b].registered}
           c == [calls[k] EXCEPT !.phase = "answered"]
           e == Event(calls[k].reply)
<1>1. /\ Unpublished(k) /\ calls' = [calls EXCEPT ![k] = c]
      /\ socket' = [b \in Browsers |->
                      IF b \in full THEN NoSocket
                      ELSE IF b \in early THEN [socket[b] EXCEPT !.untold = @ \cup {e}]
                      ELSE socket[b]]
      /\ queue' = [b \in Browsers |->
                     IF b \in full \/ ~socket[b].registered THEN <<>> ELSE Append(queue[b], e)]
      /\ UNCHANGED <<server, up, lists, view, pending, sync>>
  BY DEF PublishChange, serverVars, browserVars, Unpublished
<1>2. up /\ e \in Now(server)
  BY <1>1 DEF QuietInv
<1>3. CallLike(calls[k]) /\ IsSeq(calls)
  BY DEF ItemInv, CallsKnow, CallKnows
<1>4. c.phase = "answered"
  BY <1>3 DEF CallLike
<1>10. e \in Events /\ socket \in [Browsers -> Sockets]
  BY <1>2, NowFacts DEF QuietInv, TypedSockets, ItemInv, Sound, ListLike, Now, Events
<1>11. ASSUME NEW b \in Browsers
       PROVE  /\ socket'[b] \in Sockets
              /\ socket'[b].registered => socket[b].registered /\ b \notin full
              /\ socket'[b].opened => socket[b].opened /\ b \notin full
              /\ socket[b].untold \subseteq socket'[b].untold \/ ~socket'[b].opened
              /\ socket'[b].opened /\ ~socket[b].registered => e \in socket'[b].untold
  BY <1>1, <1>10 DEF Sockets, NoSocket
<1> HIDE DEF c, full, early
<1>5. /\ DOMAIN calls' = DOMAIN calls /\ calls'[k] = c
      /\ \A j \in DOMAIN calls : j # k => calls'[j] = calls[j]
  BY <1>1, <1>3, Replaced
<1>6. /\ \A j : Unpublished(j)' => Unpublished(j) /\ calls'[j].reply = calls[j].reply
      /\ \A j : Unpublished(j) /\ j # k => Unpublished(j)' /\ calls'[j].reply = calls[j].reply
  BY <1>4, <1>5 DEF Unpublished
<1>7. ASSUME NEW b \in Followed PROVE PageInv(b)'
  <2>1. PageInv(b) /\ b \in Browsers
    BY ResourcesAssumption DEF QuietInv
  <2>2. queue[b] \in Seq(Now(server))
    BY <2>1 DEF PageInv, OnItsWay
  <2>3. /\ Append(queue[b], e) \in Seq(Now(server)) /\ <<>> \in Seq(Now(server))
        /\ \E n \in DOMAIN Append(queue[b], e) : Append(queue[b], e)[n] = e
        /\ \A n \in DOMAIN queue[b] : /\ n \in DOMAIN Append(queue[b], e)
                                      /\ Append(queue[b], e)[n] = queue[b][n]
    <3> DEFINE Q == Append(queue[b], e)
               q == queue[b]
    <3>1. Len(q) \in Nat /\ DOMAIN q = 1 .. Len(q) /\ <<>> \in Seq(Now(server))
      BY <2>2
    <3>2. Q \in Seq(Now(server)) /\ Len(Q) = Len(q) + 1
      BY <1>2, <2>2
    <3>3. DOMAIN Q = 1 .. Len(q) + 1
      BY <3>2
    <3>4. Q[Len(q) + 1] = e /\ \A n \in 1 .. Len(q) : Q[n] = q[n]
      BY <1>2, <2>2
    <3> HIDE DEF Q, q
    <3>5. Len(q) + 1 \in DOMAIN Q /\ \A n \in DOMAIN q : n \in DOMAIN Q
      BY <3>1, <3>3
    <3> QED BY <3>1, <3>2, <3>4, <3>5 DEF Q, q
  <2>4. queue'[b] = (IF b \in full \/ ~socket[b].registered THEN <<>>
                     ELSE Append(queue[b], e))
    BY <1>1, <2>1
  <2>5. OnItsWay(b)'
    <3>1. queue'[b] \in Seq(Now(server))
      BY <2>3, <2>4
    <3>2. ~socket'[b].registered => queue'[b] = <<>>
      <4>1. CASE b \in full
        BY <2>4, <4>1
      <4>2. CASE b \notin full
        <5>1. socket'[b].registered = socket[b].registered
          BY <1>1, <1>10, <2>1, <4>2 DEF early, Sockets
        <5> QED BY <2>4, <5>1
      <4> QED BY <4>1, <4>2
    <3> QED BY <1>1, <1>2, <2>1, <3>1, <3>2 DEF PageInv, OnItsWay
  <2>6. InOrder(lists[b], view[b].instance)'
    BY <1>1, <2>1 DEF PageInv, InOrder, Other, Past
  <2>7. OneSync(lists[b], sync[b])'
    BY <1>1, <2>1 DEF PageInv, OneSync, Other, Past
  <2>8. Coming(b)'
    <3> SUFFICES ASSUME Listening(socket[b])' PROVE Coming(b)'
      BY DEF Coming
    <3>0. /\ socket'[b].opened /\ Event(server) \notin socket'[b].untold
          /\ Listening(socket[b])
      BY <1>1, <1>11, <2>1 DEF Listening
    <3>1. \/ queue'[b] = Append(queue[b], e)
          \/ queue[b] = <<>> /\ e # Event(server)
      BY <1>11, <2>1, <2>4, <3>0 DEF PageInv, OnItsWay
    <3>2. CASE Applied(view[b], Event(server)) \/ pending[b] = Event(server)
      BY <1>1, <3>2 DEF Coming
    <3>3. ASSUME NEW j, Unpublished(j), Event(calls[j].reply) = Event(server)
          PROVE  Coming(b)'
      <4>1. CASE j = k
        BY <1>1, <2>3, <3>1, <3>3, <4>1 DEF Coming
      <4>2. CASE j # k
        BY <1>1, <1>6, <3>3, <4>2 DEF Coming
      <4> QED BY <4>1, <4>2
    <3>4. CASE \E n \in DOMAIN queue[b] : queue[b][n] = Event(server)
      <4>1. queue[b] # <<>>
        BY <3>4
      <4> QED BY <1>1, <2>3, <3>1, <3>4, <4>1 DEF Coming
    <3>5. CASE Fetches(lists[b], sync[b])
      <4>1. Fetches(lists[b], sync[b])'
        BY <1>1, <3>5 DEF Fetches
      <4> QED BY <4>1 DEF Coming
    <3> QED BY <2>1, <3>0, <3>2, <3>3, <3>4, <3>5 DEF PageInv, Coming
  <2> QED BY <2>5, <2>6, <2>7, <2>8 DEF PageInv
<1>8. /\ TypedSockets(socket)' /\ PerBrowser(queue)' /\ PerBrowser(pending)'
      /\ PerBrowser(sync)'
  BY <1>1, <1>11 DEF PerBrowser, TypedSockets, QuietInv
<1>9. \A j : Unpublished(j)' => up' /\ Event(calls'[j].reply) \in Now(server')
  BY <1>1, <1>6 DEF QuietInv
<1> QED BY <1>7, <1>8, <1>9 DEF QuietInv

LEMMA UseKeeps ==
  ASSUME ItemInv, QuietInv, NEW b \in Browsers, Use(b)
  PROVE  QuietInv'
<1>1. ASSUME NEW op, Makes(b, op),
             UNCHANGED <<up, socket, queue, pending, sync>>
      PROVE  QuietInv'
  <2>1. PICK c : /\ calls' = Append(calls, c) /\ c.phase = "sent"
                 /\ UNCHANGED <<server, view, lists>>
    BY <1>1 DEF Makes
  <2>2. Len(calls) \in Nat /\ DOMAIN calls = 1 .. Len(calls)
        /\ DOMAIN calls' = 1 .. Len(calls) + 1 /\ calls'[Len(calls) + 1] = c
        /\ \A k \in 1 .. Len(calls) : calls'[k] = calls[k]
    BY <2>1, SequenceFacts, Appended DEF ItemInv, CallsKnow
  <2>3. \A k : k \in DOMAIN calls' <=> k \in DOMAIN calls \/ k = Len(calls) + 1
    BY <2>2
  <2>4. SameUnpublished
    BY <2>1, <2>2, <2>3 DEF SameUnpublished, Unpublished
  <2> QED BY <1>1, <2>1, <2>4, CallKeeps
<1>2. CASE EditProfile(b)
  BY <1>1, <1>2, Edits DEF EditProfile, Make, serverVars
<1>3. ASSUME NEW id \in Ids, RemoveProfile(b, id) PROVE QuietInv'
  BY <1>1, <1>3, Removes DEF RemoveProfile, Make, serverVars
<1>4. ASSUME NEW id \in Ids, AddProfile(b, id) PROVE QuietInv'
  BY <1>1, <1>4, Adds DEF AddProfile, Make, serverVars
<1>5. CASE SaveProfilesOrder(b)
  BY <1>1, <1>5, Drags DEF SaveProfilesOrder, Make, serverVars
<1>6. ASSUME NEW id \in Ids, OpenForm(b, id) PROVE QuietInv'
  <2>1. /\ calls' = calls
        /\ UNCHANGED <<server, up, lists, socket, queue, view, pending, sync>>
    BY <1>6 DEF OpenForm, serverVars
  <2> QED BY <2>1, SameCalls, CallKeeps
<1> QED BY <1>2, <1>3, <1>4, <1>5, <1>6 DEF Use

LEMMA FinishMoves ==
  ASSUME ItemInv, NEW k \in DOMAIN calls, calls[k].phase = "answered", Finish(k)
  PROVE  SameUnpublished
<1> DEFINE c == [calls[k] EXCEPT
              !.phase = "done", !.outcome = "none", !.reply = Nothing, !.blind = FALSE,
              !.expected = Nothing, !.from = <<>>, !.order = <<>>]
<1>1. calls' = [calls EXCEPT ![k] = c]
  BY DEF Finish
<1>2. CallLike(calls[k])
  BY DEF ItemInv, CallsKnow, CallKnows
<1>3. c.phase = "done"
  BY <1>2 DEF CallLike
<1> HIDE DEF c
<1> QED BY <1>1, <1>3, OneCallMoves

LEMMA ShownRevision ==
  ASSUME NEW v, ListLike(v), NEW c
  PROVE  Shown(v, c).instance = v.instance /\ Shown(v, c).state = c.reply.state
<1> DEFINE moved == [v EXCEPT !.state = c.reply.state, !.orderRev = c.reply.orderRev]
           o == IF c.op = "delete" THEN Without(moved.order, c.id)
                ELSE IF c.id \in Present(moved) THEN moved.order ELSE Append(moved.order, c.id)
<1>1. /\ moved.instance = v.instance /\ moved.state = c.reply.state
      /\ \A x, y, z : LET t == [moved EXCEPT !.items = x, !.content = y, !.order = z] IN
                      t.instance = v.instance /\ t.state = c.reply.state
      /\ \A z : LET t == [moved EXCEPT !.order = z] IN
                t.instance = v.instance /\ t.state = c.reply.state
  BY DEF ListLike
<1>2. CASE c.op # "reorder"
  <2> DEFINE x == [moved.items EXCEPT ![c.id] = c.reply.items[c.id]]
             y == [moved.content EXCEPT ![c.id] = c.new]
  <2>1. Shown(v, c) = [moved EXCEPT !.items = x, !.content = y, !.order = o]
    BY <1>2 DEF Shown, WithItem, ListLike
  <2> HIDE DEF moved, o, x, y
  <2> QED BY <1>1, <2>1
<1>3. CASE c.op = "reorder"
  BY <1>1, <1>3 DEF Shown
<1> QED BY <1>2, <1>3

LEMMA FormListSent ==
  ASSUME ItemInv, NEW b \in Followed, NEW i, InOrder(lists[b], i),
         OneSync(lists[b], sync[b]),
         SendList(b, "form") \/ UNCHANGED lists
  PROVE  /\ InOrder(lists'[b], i) /\ OneSync(lists'[b], sync[b])
         /\ Fetches(lists[b], sync[b]) => Fetches(lists'[b], sync[b])
         /\ \A a \in Followed \ {b} : lists'[a] = lists[a]
<1> DEFINE L == Append(lists[b], ListCall("form"))
<1>1. /\ IsSeq(lists[b]) /\ PerBrowser(lists) /\ b \in Browsers
      /\ Followed \subseteq Browsers
  BY ResourcesAssumption DEF ItemInv, ListsKnow
<1>2. CASE SendList(b, "form")
  <2>1. lists' = [lists EXCEPT ![b] = L]
    BY <1>1, <1>2 DEF SendList, PerBrowser
  <2>2. InOrder(L, i)
    BY <1>1, CallSent
  <2>3. OneSync(L, sync[b]) /\ (Fetches(lists[b], sync[b]) => Fetches(L, sync[b]))
    BY <1>1, FormCallSent
  <2> HIDE DEF L
  <2> QED BY <1>1, <2>1, <2>2, <2>3 DEF PerBrowser
<1>3. CASE UNCHANGED lists
  BY <1>3
<1> QED BY <1>2, <1>3

LEMMA ReplyKeeps ==
  ASSUME ItemInv, OrderInv, QuietInv, NEW k \in DOMAIN calls, Receive(k)
  PROVE  QuietInv'
<1> DEFINE c == calls[k]
<1>1. c.phase = "answered" /\ Finish(k) /\ SameUnpublished
      /\ UNCHANGED <<server, up, socket, queue, pending, sync>>
  <2>1. c.phase = "answered" /\ Finish(k)
        /\ UNCHANGED <<server, up, socket, queue, pending, sync>>
    BY DEF Receive, ReceiveReply, DropReply, ReceiveError, Ignore, serverVars, browserVars
  <2> QED BY <2>1, FinishMoves
<1>2. CASE Ignore(k)
  <2>1. UNCHANGED <<lists, view>>
    BY <1>2 DEF Ignore, browserVars
  <2> QED BY <1>1, <2>1, CallKeeps
<1>3. CASE ~Ignore(k)
  <2>1. PICK b \in Followed : b = c.by /\ (SendList(b, "form") \/ UNCHANGED lists)
    BY <1>3 DEF Receive, ReceiveReply, DropReply, ReceiveError
  <2> DEFINE v == view[b]
  <2>2. b \in Browsers /\ Followed \subseteq Browsers /\ PageInv(b) /\ PerBrowser(view)
        /\ TypedSockets(socket) /\ PerBrowser(queue) /\ PerBrowser(pending)
        /\ PerBrowser(sync)
    BY <2>1, ResourcesAssumption DEF QuietInv, ItemInv
  <2>3. ListLike(v) /\ v.instance \in Nat /\ v.state \in Nat /\ Sound(server)
    BY <2>2 DEF ItemInv, Copy, ListLike
  <2>4. \/ view' = view
        \/ /\ view' = [view EXCEPT ![b] = Shown(v, c)]
           /\ c.reply.instance = v.instance /\ c.reply.state >= v.state
           /\ c.outcome \in Succeeded
    BY <1>3, <2>1 DEF Receive, ReceiveReply, DropReply, ReceiveError, browserVars,
       Succeeded
  <2>5. /\ view'[b].instance = v.instance
        /\ view'[b].state >= v.state
        /\ v.instance = server.instance => view'[b].state <= server.state
        /\ \A a \in Followed \ {b} : view'[a] = view[a]
    <3>1. CASE view' = view
      BY <2>2, <2>3, <3>1 DEF PageInv, OnItsWay
    <3>2. CASE view' = [view EXCEPT ![b] = Shown(v, c)] /\ c.outcome \in Succeeded
               /\ c.reply.instance = v.instance /\ c.reply.state >= v.state
      <4>1. ListLike(c.reply) /\ Tells(c.reply) \in Told
        BY <3>2, OrderOfCalls DEF ItemInv, CallsKnow, CallKnows, Copy, CallTold
      <4>2. /\ c.reply.state \in Nat
            /\ c.reply.instance = server.instance => c.reply.state <= server.state
        BY <4>1, ReplyFacts
      <4>3. Shown(v, c).instance = v.instance /\ Shown(v, c).state = c.reply.state
        BY <2>3, ShownRevision
      <4>4. view'[b] = Shown(v, c) /\ \A a \in Followed \ {b} : view'[a] = view[a]
        BY <2>2, <3>2 DEF PerBrowser
      <4> QED BY <3>2, <4>2, <4>3, <4>4
    <3> QED BY <2>4, <3>1, <3>2
  <2>6. /\ InOrder(lists'[b], v.instance) /\ OneSync(lists'[b], sync[b])
        /\ Fetches(lists[b], sync[b]) => Fetches(lists'[b], sync[b])
        /\ \A a \in Followed \ {b} : lists'[a] = lists[a]
    BY <2>1, <2>2, FormListSent DEF PageInv
  <2>7. Applied(v, Event(server)) => Applied(view'[b], Event(server))
    <3>1. server.state \in Nat /\ Event(server).state = server.state
      BY <2>3, NowFacts
    <3>2. view'[b].state >= server.state \/ ~(v.state >= server.state)
      <4>1. CASE view' = view
        BY <4>1
      <4>2. CASE view' = [view EXCEPT ![b] = Shown(v, c)] /\ c.outcome \in Succeeded
        <5>1. view'[b].state = c.reply.state
          BY <2>2, <2>3, <4>2, ShownRevision DEF PerBrowser
        <5>2. c.reply.state \in Nat
          BY <4>2, OrderOfCalls, ReplyFacts DEF ItemInv, CallsKnow, CallKnows, Copy,
             CallTold
        <5> QED BY <2>3, <2>5, <3>1, <5>1, <5>2
      <4> QED BY <2>4, <4>1, <4>2
    <3> QED BY <2>5, <3>1, <3>2 DEF Applied
  <2>8. Listening(socket[b]) =>
          \/ Applied(view'[b], Event(server))
          \/ \E j : Unpublished(j) /\ Event(calls[j].reply) = Event(server)
          \/ \E n \in DOMAIN queue[b] : queue[b][n] = Event(server)
          \/ pending[b] = Event(server)
          \/ Fetches(lists'[b], sync[b])
    BY <2>2, <2>6, <2>7 DEF PageInv, Coming
  <2> HIDE DEF c, v
  <2>9. PageInv(b)'
    <3>1. v.instance <= server.instance
      BY <2>2 DEF PageInv, OnItsWay, v
    <3> QED BY <1>1, <2>2, <2>5, <2>6, <2>8, <3>1, PageArrives DEF PageInv, OnItsWay
  <2>10. \A a \in Followed \ {b} : SamePage(a)
    BY <1>1, <2>5, <2>6 DEF SamePage
  <2>11. /\ TypedSockets(socket)' /\ PerBrowser(queue)' /\ PerBrowser(pending)'
         /\ PerBrowser(sync)'
    BY <1>1, <2>2
  <2> QED BY <1>1, <2>9, <2>10, <2>11, OnePageMoves
<1> QED BY <1>2, <1>3

LEMMA CrashKeeps ==
  ASSUME ItemInv, QuietInv, Crash
  PROVE  QuietInv'
<1>1. /\ up' = FALSE /\ socket' = [b \in Browsers |-> NoSocket]
      /\ queue' = [b \in Browsers |-> <<>>]
      /\ UNCHANGED <<server, view, pending, sync>>
  BY DEF Crash, browserVars
<1>2. ASSUME NEW k, Unpublished(k)' PROVE FALSE
  <2> DEFINE c == [calls[k] EXCEPT !.phase = "answered", !.outcome = "failed",
                                   !.reply = Nothing]
  <2>1. /\ k \in DOMAIN calls /\ calls'[k].phase = "unlocked"
        /\ calls'[k] = IF calls[k].phase \in {"sent", "unlocked"} THEN c ELSE calls[k]
    BY <1>2 DEF Crash, Unpublished
  <2>2. CallLike(calls[k])
    BY <2>1 DEF ItemInv, CallsKnow, CallKnows
  <2>3. c.phase = "answered"
    BY <2>2 DEF CallLike
  <2> HIDE DEF c
  <2> QED BY <2>1, <2>3
<1>3. ASSUME NEW b \in Followed PROVE PageInv(b)'
  <2> DEFINE l == lists[b]
             L == lists'[b]
             i == view[b].instance
  <2>1. b \in Browsers /\ PageInv(b)
    BY ResourcesAssumption DEF QuietInv
  <2>2. L = [n \in DOMAIN l |-> [l[n] EXCEPT !.lost = l[n].reply = Nothing]]
    BY <2>1 DEF Crash
  <2>3. DOMAIN L = DOMAIN l
    BY <2>2
  <2>4. ASSUME NEW n \in DOMAIN l
        PROVE  /\ L[n].reply = l[n].reply /\ L[n].by = l[n].by
               /\ L[n].overtaken = l[n].overtaken
               /\ L[n].lost <=> l[n].reply = Nothing
    <3> DEFINE r == l[n]
    <3>1. ListKnows(server, r)
      BY <2>1 DEF ItemInv, ListsKnow
    <3>2. r = [by |-> r.by, reply |-> r.reply, lost |-> r.lost, overtaken |-> r.overtaken]
      BY <3>1 DEF ListKnows
    <3> QED BY <2>2, <3>2
  <2>5. InOrder(l, i) /\ OneSync(l, sync[b])
    BY <2>1 DEF PageInv
  <2> HIDE DEF l, L, i
  <2>6. \A n \in DOMAIN l : /\ Other(L[n]) <=> Other(l[n])
                            /\ Past(l[n]) => Past(L[n])
    BY <2>4, <2>5 DEF Other, Past, InOrder
  <2>8. InOrder(lists[b], view[b].instance)'
    <3>1. ASSUME NEW m \in DOMAIN L, NEW n \in DOMAIN L, m < n, Other(L[n])
          PROVE  Past(L[m])
      BY <2>3, <2>5, <2>6, <3>1 DEF InOrder
    <3>2. ASSUME NEW n \in DOMAIN L
          PROVE  /\ L[n].lost => L[n].reply = Nothing
                 /\ L[n].lost \/ L[n].reply # Nothing
                 /\ L[n].overtaken /\ ~Past(L[n]) => i = server.instance
                 /\ Other(L[n]) /\ i = server.instance => L[n].overtaken
      BY <2>3, <2>4, <2>5, <2>6 DEF InOrder
    <3> QED BY <1>1, <3>1, <3>2 DEF InOrder, Other, Past, L, i
  <2>9. OneSync(lists[b], sync[b])'
    <3>1. /\ \A m, n \in DOMAIN L : L[m].by = "sync" /\ L[n].by = "sync" => m = n
          /\ \A n \in DOMAIN L : L[n].by = "sync" => sync[b] # Nothing
          /\ sync[b] # Nothing => \E n \in DOMAIN L : L[n].by = "sync"
      BY <2>3, <2>4, <2>5 DEF OneSync
    <3> QED BY <1>1, <3>1 DEF OneSync, L
  <2>10. OnItsWay(b)'
    BY <1>1, <2>1 DEF PageInv, OnItsWay
  <2>11. Coming(b)'
    BY <1>1, <2>1 DEF Coming, Listening, NoSocket
  <2> QED BY <2>8, <2>9, <2>10, <2>11 DEF PageInv
<1>4. /\ TypedSockets(socket)' /\ PerBrowser(queue)' /\ PerBrowser(pending)'
      /\ PerBrowser(sync)'
  BY <1>1 DEF PerBrowser, TypedSockets, Sockets, NoSocket, QuietInv
<1> QED BY <1>2, <1>3, <1>4 DEF QuietInv

LEMMA BootKeeps ==
  ASSUME ItemInv, OrderInv, QuietInv, Boot
  PROVE  QuietInv'
<1>1. /\ ~up /\ up' = TRUE /\ server' = FreshRevisions(server, server.instance + 1)
      /\ \A b \in Browsers : pending[b] = Nothing /\ sync[b] = Nothing
      /\ UNCHANGED <<calls, lists, socket, queue, view, pending, sync>>
  BY DEF Boot, browserVars
<1>2. server.instance \in Nat /\ ListLike(server)
  BY DEF ItemInv, Sound, ListLike
<1>3. server'.instance = server.instance + 1
  BY <1>1, <1>2 DEF FreshRevisions, ListLike
<1>4. \A k : ~Unpublished(k)'
  BY <1>1 DEF Unpublished, QuietInv
<1>5. ASSUME NEW b \in Followed PROVE PageInv(b)'
  <2> DEFINE l == lists[b]
  <2>1. /\ b \in Browsers /\ InOrder(l, view[b].instance) /\ OneSync(l, sync[b])
        /\ queue[b] = <<>> /\ socket[b] = NoSocket /\ view[b].instance <= server.instance
        /\ pending[b] = Nothing /\ sync[b] = Nothing
    BY <1>1, ResourcesAssumption DEF QuietInv, PageInv, OnItsWay
  <2>2. view[b].instance \in Nat
    BY <2>1 DEF ItemInv, Copy, ListLike
  <2>3. view[b].instance < server'.instance
    BY <1>2, <1>3, <2>1, <2>2
  <2>4. ASSUME NEW n \in DOMAIN l
        PROVE  l[n].lost \/ (l[n].reply # Nothing /\ l[n].reply.instance # server'.instance)
    <3>1. l[n].lost \/ l[n].reply # Nothing
      BY <1>1, <2>1 DEF InOrder
    <3>2. CASE l[n].reply # Nothing
      <4>1. l[n].reply.instance \in Nat /\ l[n].reply.instance <= server.instance
        BY <2>1, <3>2, ListReplyFacts
      <4> QED BY <1>2, <1>3, <3>2, <4>1
    <3> QED BY <3>1, <3>2
  <2>5. \A n \in DOMAIN l : l[n].by # "sync" /\ (l[n].lost => l[n].reply = Nothing)
    BY <2>1 DEF OneSync, InOrder
  <2> HIDE DEF l
  <2>6. \A n \in DOMAIN l : Past(l[n])'
    <3>1. lists' = lists
      BY <1>1
    <3> QED BY <2>4, <3>1 DEF Past, Other, l
  <2>7. InOrder(lists[b], view[b].instance)'
    <3>1. view'[b].instance # server'.instance /\ lists'[b] = l /\ up'
      BY <1>1, <1>2, <1>3, <2>2, <2>3 DEF l
    <3> QED BY <2>5, <2>6, <3>1 DEF InOrder, l
  <2>8. OneSync(lists[b], sync[b])'
    BY <1>1, <2>1, <2>5 DEF OneSync, l
  <2>9. OnItsWay(b)'
    <3>1. /\ view'[b].instance <= server'.instance /\ view'[b].instance # server'.instance
          /\ <<>> \in Seq(Now(server'))
      BY <1>1, <1>2, <1>3, <2>2, <2>3
    <3> QED BY <1>1, <2>1, <3>1 DEF OnItsWay
  <2>10. Coming(b)'
    BY <1>1, <2>1 DEF Coming, Listening, NoSocket
  <2> QED BY <2>7, <2>8, <2>9, <2>10 DEF PageInv
<1>6. /\ TypedSockets(socket)' /\ PerBrowser(queue)' /\ PerBrowser(pending)'
      /\ PerBrowser(sync)'
  BY <1>1 DEF QuietInv
<1> QED BY <1>4, <1>5, <1>6 DEF QuietInv

LEMMA QuietInvStep ==
  ItemInv /\ OrderInv /\ QuietInv /\ [ResourcesNext]_resourcesVars => QuietInv'
<1>1. ASSUME ItemInv, OrderInv, QuietInv, UNCHANGED resourcesVars PROVE QuietInv'
  <2>1. /\ calls' = calls
        /\ UNCHANGED <<server, up, lists, socket, queue, view, pending, sync>>
    BY <1>1 DEF resourcesVars, serverVars, browserVars
  <2> QED BY <1>1, <2>1, SameCalls, CallKeeps
<1>2. ASSUME ItemInv, QuietInv, NEW k \in DOMAIN calls, Serve(k) PROVE QuietInv'
  BY <1>2, ServeDoes, CommitKeeps, AnswerKeeps, PublishKeeps
<1> QED
  BY <1>1, <1>2, ReplyKeeps, UseKeeps, RefreshKeeps, CrashKeeps,
     BootKeeps DEF ResourcesNext

(* Of a page that nothing is on its way to, the last change has been shown; and what
   it shows of that revision is the server's list. *)
LEMMA QuietShows ==
  ASSUME ItemInv, OrderInv, QuietInv, NEW b \in Followed, Quiet(b), ~passedOver[b],
         \A e \in socket[b].untold : Applied(view[b], e)
  PROVE  view[b] = server
<1> DEFINE v == view[b]
           E == Event(server)
<1>1. /\ b \in Browsers /\ ListLike(v) /\ ListLike(server) /\ Sound(server) /\ PageInv(b)
  BY ResourcesAssumption DEF ItemInv, Copy, Sound, QuietInv
<1>2. /\ E \in Now(server) /\ E # Nothing /\ server.state \in Nat
      /\ E.instance = server.instance /\ E.state = server.state
  BY <1>1, NowFacts
<1>3. socket[b].opened /\ queue[b] = <<>> /\ pending[b] = Nothing /\ sync[b] = Nothing
      /\ \A k : ~Unpublished(k)
  BY DEF Quiet, Unpublished
<1>4. Applied(v, E)
  <2>1. \A n \in DOMAIN queue[b] : FALSE
    BY <1>3
  <2>2. ~Fetches(lists[b], sync[b])
    BY <1>3 DEF Fetches
  <2> QED BY <1>1, <1>2, <1>3, <2>1, <2>2 DEF PageInv, Coming, Listening
<1>5. v.instance = server.instance /\ v.state = server.state
  <2>1. v.state \in Nat
    BY <1>1 DEF ListLike
  <2> QED BY <1>1, <1>2, <1>4, <2>1 DEF Applied, PageInv, OnItsWay
<1>6. Tells(v) \in Told /\ Tells(server) \in Told
  BY <1>1, ToldIsTold DEF ToldIn
<1>7. Tells(v) = Tells(server)
  BY <1>1, <1>5, <1>6, TellsShows DEF OrderInv, Agree
<1>8. ASSUME NEW s, ListLike(s) PROVE s = Tells(s)
  BY <1>8 DEF ListLike, Tells
<1> QED BY <1>1, <1>7, <1>8

(* A page at which nothing arrives any more shows the server's list, with its
   revisions, whatever was lost with a full queue or a dead server; unless its own
   reply moved it past a change, or one was published while its socket was open and
   not yet registered. *)
THEOREM QuietPagesAreCurrent == ResourcesSpec => []QuietIsCurrent
<1>1. ResourcesSpec => [](ItemInv /\ OrderInv /\ QuietInv)
  BY ItemInvInit, ItemInvStep, OrderInvInit, OrderInvStep, QuietInvInit, QuietInvStep, PTL
    DEF ResourcesSpec
<1>2. ItemInv /\ OrderInv /\ QuietInv => QuietIsCurrent
  BY QuietShows DEF QuietIsCurrent
<1> QED BY <1>1, <1>2, PTL

-----------------------------------------------------------------------------
(* What every variable keeps to.  Of the lists that are told, ItemInv and      *)
(* OrderInv say nearly all; this is the rest.                                *)

Drafts == [id: Ids, expected: Revisions, base: Versions]
ListCalls == [by: {"sync", "form"}, reply: Lists \cup {Nothing}, lost: BOOLEAN, overtaken: BOOLEAN]

(* An order of what the page shows, and a revision. *)
PageTyped(v) == v.orderRev \in Nat /\ IsOrder(v.order, Present(v))

(* What CallLike leaves open of a call: who made it, with what, and that only a
   success comes with a reply. *)
CallTyped(c) ==
  /\ c.by \in Browsers /\ c.id \in Ids \cup {Nothing}
  /\ c.expected \in Revisions \cup {Nothing}
  /\ c.from \in Orders /\ c.order \in Orders /\ c.blind \in BOOLEAN
  /\ c.outcome \notin Succeeded => c.reply = Nothing

ListTyped(c) == c.by \in {"sync", "form"} /\ c.lost \in BOOLEAN /\ c.overtaken \in BOOLEAN

(* The hub: no queue is longer than its channel. *)
HubTyped ==
  /\ up \in BOOLEAN
  /\ queue \in [Browsers -> Seq(Events)]
  /\ \A b \in Browsers : Len(queue[b]) <= QueueSize

(* The pages. *)
PagesTyped ==
  /\ \A b \in Browsers : PageTyped(view[b])
  /\ draft \in [Browsers -> Drafts \cup {Nothing}]
  /\ passedOver \in [Browsers -> BOOLEAN]

CallsTyped(cs) == \A k \in DOMAIN cs : CallTyped(cs[k])
ListsTyped(l) == \A n \in DOMAIN l : ListTyped(l[n])

(* The synchronizations of the pages and the lists that they asked for. *)
SyncsTyped ==
  /\ \A b \in Browsers : ListsTyped(lists[b])
  /\ pending \in [Browsers -> Events \cup {Nothing}]
  /\ sync \in [Browsers -> Syncs \cup {Nothing}]

TypesInv == HubTyped /\ PagesTyped /\ CallsTyped(calls) /\ SyncsTyped

-----------------------------------------------------------------------------
(* What the types of lists follow from. *)

(* A list in a known order is one of the model's lists. *)
LEMMA ListIsTyped ==
  ASSUME NEW v, ListLike(v), PageTyped(v)
  PROVE  v \in Lists
<1>1. Present(v) \subseteq Ids
  BY DEF Present
<1>2. v.order \in Orders
  BY <1>1, OrderIsInOrders DEF PageTyped
<1> QED BY <1>2 DEF ListLike, PageTyped, Lists, Contents

(* Whatever is told of the order has the order of its items. *)
LEMMA ToldIsTyped ==
  ASSUME OrderInv, NEW v, ListLike(v), Tells(v) \in Told
  PROVE  PageTyped(v) /\ v \in Lists
<1> DEFINE t == Tells(v)
<1>1. Telling(t) /\ t.orderRev \in Nat
  BY DEF OrderInv, Agree, OrderKnown
<1>2. t.order = v.order /\ t.orderRev = v.orderRev /\ Present(t) = Present(v)
  BY TellsShows
<1>3. PageTyped(v)
  BY <1>1, <1>2 DEF Telling, PageTyped
<1> QED BY <1>3, ListIsTyped

(* So has the file. *)
LEMMA ServerIsTyped ==
  ASSUME ItemInv, OrderInv
  PROVE  PageTyped(server) /\ server \in Lists
  BY ToldIsTyped, ToldIsTold DEF ItemInv, Sound, ToldIn

(* So have the answers of list calls. *)
LEMMA ListReplyIsTyped ==
  ASSUME ItemInv, OrderInv, NEW b \in Browsers, NEW n \in DOMAIN lists[b],
         lists[b][n].reply # Nothing
  PROVE  PageTyped(lists[b][n].reply) /\ lists[b][n].reply \in Lists
<1>1. ListLike(lists[b][n].reply)
  BY DEF ItemInv, ListsKnow, ListKnows, Copy
<1>2. Tells(lists[b][n].reply) \in Told
  BY ToldIsTold DEF ToldIn, ListTold
<1> QED BY <1>1, <1>2, ToldIsTyped

(* So have the replies. *)
LEMMA ReplyIsTyped ==
  ASSUME ItemInv, OrderInv, NEW k \in DOMAIN calls, calls[k].outcome \in Succeeded
  PROVE  PageTyped(calls[k].reply) /\ calls[k].reply \in Lists /\ ListLike(calls[k].reply)
<1>1. ListLike(calls[k].reply)
  BY DEF ItemInv, CallsKnow, CallKnows, Copy
<1>2. Tells(calls[k].reply) \in Told
  BY ToldIsTold DEF ToldIn, CallTold
<1> QED BY <1>1, <1>2, ToldIsTyped

(* The types of all follow from the invariants. *)
LEMMA TypesFollow ==
  ASSUME ItemInv, OrderInv, QuietInv, TypesInv
  PROVE  ResourcesTypeOK
<1>1. server \in Lists
  BY ServerIsTyped
<1>2. calls \in Seq(Calls)
  <2>1. ASSUME NEW k \in DOMAIN calls PROVE calls[k] \in Calls
    <3> DEFINE c == calls[k]
    <3>1. CallLike(c) /\ CallTyped(c)
      BY DEF ItemInv, CallsKnow, CallKnows, TypesInv, CallsTyped
    <3>2. c.reply \in Lists \cup {Nothing}
      BY <3>1, ReplyIsTyped DEF CallTyped
    <3> HIDE DEF c
    <3>3. c \in Calls
      BY <3>1, <3>2 DEF CallLike, CallTyped, Calls, Contents
    <3> QED BY <3>3 DEF c
  <2>2. /\ Len(calls) \in Nat /\ DOMAIN calls = 1 .. Len(calls)
        /\ calls = [n \in 1 .. Len(calls) |-> calls[n]]
    BY SequenceFacts DEF ItemInv, CallsKnow
  <2>3. calls \in [1 .. Len(calls) -> Calls]
    BY <2>1, <2>2
  <2> QED BY <2>2, <2>3
<1>3. ASSUME NEW b \in Browsers PROVE lists[b] \in Seq(ListCalls)
  <2> DEFINE l == lists[b]
  <2>1. ASSUME NEW n \in DOMAIN l PROVE l[n] \in ListCalls
    <3> DEFINE c == l[n]
    <3>1. ListKnows(server, c) /\ ListTyped(c)
      BY DEF ItemInv, ListsKnow, TypesInv, SyncsTyped, ListsTyped
    <3>2. c.reply \in Lists \cup {Nothing}
      BY ListReplyIsTyped
    <3> HIDE DEF c
    <3>3. c \in ListCalls
      BY <3>1, <3>2 DEF ListKnows, ListTyped, ListCalls
    <3> QED BY <3>3 DEF c
  <2>2. IsSeq(l)
    BY DEF ItemInv, ListsKnow
  <2> HIDE DEF l
  <2>3. Len(l) \in Nat /\ DOMAIN l = 1 .. Len(l) /\ l = [n \in 1 .. Len(l) |-> l[n]]
    BY <2>2, SequenceFacts
  <2>4. l \in [1 .. Len(l) -> ListCalls]
    BY <2>1, <2>3
  <2>5. l \in Seq(ListCalls)
    BY <2>3, <2>4
  <2> QED BY <2>5 DEF l
<1>4. view \in [Browsers -> Lists]
  <2>1. ASSUME NEW b \in Browsers PROVE view[b] \in Lists
    BY ListIsTyped DEF ItemInv, Copy, TypesInv, PagesTyped
  <2> QED BY <2>1 DEF ItemInv, PerBrowser
<1> QED BY <1>1, <1>2, <1>3, <1>4 DEF ResourcesTypeOK, TypesInv, HubTyped, PagesTyped,
           SyncsTyped, ListCalls, Drafts, QuietInv, TypedSockets

(* They hold at the start. *)
LEMMA TypesInvInit == ResourcesInit => TypesInv
<1> SUFFICES ASSUME ResourcesInit PROVE TypesInv
  OBVIOUS
<1>1. ItemInv /\ OrderInv
  BY ItemInvInit, OrderInvInit
<1>2. PageTyped(server)
  BY <1>1, ServerIsTyped
<1>3. /\ up = TRUE /\ calls = <<>> /\ lists = [b \in Browsers |-> <<>>]
      /\ queue = [b \in Browsers |-> <<>>] /\ view = [b \in Browsers |-> server]
      /\ draft = [b \in Browsers |-> Nothing]
      /\ pending = [b \in Browsers |-> Nothing] /\ sync = [b \in Browsers |-> Nothing]
      /\ passedOver = [b \in Browsers |-> FALSE]
  BY DEF ResourcesInit
<1>4. HubTyped
  <2>1. <<>> \in Seq(Events) /\ Len(<<>>) <= QueueSize
    BY ResourcesAssumption
  <2>2. queue \in [Browsers -> Seq(Events)] /\ \A b \in Browsers : Len(queue[b]) <= QueueSize
    BY <1>3, <2>1
  <2> QED BY <1>3, <2>2 DEF HubTyped
<1>5. PagesTyped
  BY <1>2, <1>3 DEF PagesTyped
<1>6. CallsTyped(calls)
  BY <1>3 DEF CallsTyped
<1>7. SyncsTyped
  BY <1>3 DEF SyncsTyped, ListsTyped
<1> QED BY <1>4, <1>5, <1>6, <1>7 DEF TypesInv

-----------------------------------------------------------------------------
(* The hub. *)

(* Steps after which the hub is as it was. *)
LEMMA HubSteps ==
  ASSUME ItemInv, [ResourcesNext]_resourcesVars
  PROVE  \/ UNCHANGED <<up, queue>>
         \/ \E k \in DOMAIN calls : PublishChange(k)
         \/ \E b \in Browsers : OnResourceChanged(b)
         \/ Crash
         \/ Boot
<1>1. CASE UNCHANGED resourcesVars
  BY <1>1 DEF resourcesVars, serverVars
<1>2. ASSUME NEW k \in DOMAIN calls, Serve(k)
      PROVE  UNCHANGED <<up, queue>> \/ PublishChange(k)
  <2>1. CASE calls[k].phase = "sent" /\ (Commits(k) \/ Answers(k))
    BY <2>1, Zenon DEF Commits, Commit, Answers, Answer, serverVars
  <2> QED BY <1>2, <2>1, ServeDoes
<1>3. ASSUME NEW k \in DOMAIN calls, Receive(k) PROVE UNCHANGED <<up, queue>>
  BY <1>3, Zenon DEF Receive, ReceiveReply, DropReply, ReceiveError, Ignore, serverVars
<1>4. ASSUME NEW b \in Browsers, Use(b) PROVE UNCHANGED <<up, queue>>
  BY <1>4, Zenon DEF Use, OpenForm, RemoveProfile, AddProfile, EditProfile,
     SaveProfilesOrder, Make, serverVars
<1>5. ASSUME NEW b \in Browsers, Refresh(b)
      PROVE  UNCHANGED <<up, queue>> \/ OnResourceChanged(b)
  BY <1>5, Zenon DEF Refresh, Reload, Open, AddClient, RefreshTimer,
     ListProfiles, ReceiveList, serverVars
<1> QED BY <1>1, <1>2, <1>3, <1>4, <1>5, Zenon DEF ResourcesNext

(* No step leaves a queue longer than its channel. *)
LEMMA HubTypedStep ==
  ASSUME ItemInv, QuietInv, HubTyped, [ResourcesNext]_resourcesVars
  PROVE  HubTyped'
<1>1. ASSUME UNCHANGED <<up, queue>> PROVE HubTyped'
  BY <1>1 DEF HubTyped
<1>2. ASSUME NEW k \in DOMAIN calls, PublishChange(k) PROVE HubTyped'
  <2> DEFINE full == {b \in Browsers : socket[b].registered /\ Len(queue[b]) = QueueSize}
             e == Event(calls[k].reply)
  <2>1. e \in Events
    <3>1. e \in Now(server) /\ server.instance \in Nat /\ server.state \in Nat
      BY <1>2, NowFacts DEF PublishChange, QuietInv, Unpublished, ItemInv
    <3> QED BY <3>1 DEF Now, Events
  <2> HIDE DEF e
  <2>2. ASSUME NEW b \in Browsers
        PROVE  queue'[b] \in Seq(Events) /\ Len(queue'[b]) <= QueueSize
    <3> DEFINE q == queue[b]
    <3>1. q \in Seq(Events) /\ Len(q) <= QueueSize /\ Len(q) \in Nat /\ QueueSize \in Nat
      BY ResourcesAssumption DEF HubTyped
    <3>2. CASE b \in full \/ ~socket[b].registered
      <4>1. queue'[b] = <<>>
        BY <1>2, <3>2 DEF PublishChange
      <4> QED BY <3>1, <4>1
    <3>3. CASE ~(b \in full \/ ~socket[b].registered)
      <4>1. queue'[b] = Append(q, e)
        BY <1>2, <3>3 DEF PublishChange, e
      <4>2. Len(q) # QueueSize
        BY <3>3
      <4> HIDE DEF q
      <4>3. Append(q, e) \in Seq(Events) /\ Len(Append(q, e)) = Len(q) + 1
        BY <2>1, <3>1, AppendProperties
      <4>4. Len(q) + 1 <= QueueSize
        BY <3>1, <4>2
      <4> QED BY <4>1, <4>3, <4>4
    <3> QED BY <3>2, <3>3
  <2>3. queue' = [b \in Browsers |-> queue'[b]]
    BY <1>2, Zenon DEF PublishChange
  <2>4. up' = up
    BY <1>2 DEF PublishChange, serverVars
  <2> QED BY <2>2, <2>3, <2>4 DEF HubTyped
<1>3. ASSUME NEW b \in Browsers, OnResourceChanged(b) PROVE HubTyped'
  <2> DEFINE q == queue[b]
  <2>1. /\ q # <<>> /\ queue' = [queue EXCEPT ![b] = Tail(q)]
        /\ up' = up
        /\ q \in Seq(Events) /\ Len(q) <= QueueSize
    BY <1>3 DEF OnResourceChanged, serverVars, HubTyped
  <2>2. Tail(q) \in Seq(Events) /\ Len(Tail(q)) <= QueueSize
    BY <2>1, ResourcesAssumption
  <2>3. queue' \in [Browsers -> Seq(Events)]
    BY <2>1, <2>2 DEF HubTyped
  <2>4. \A a \in Browsers : Len(queue'[a]) <= QueueSize
    BY <2>1, <2>2 DEF HubTyped
  <2> QED BY <2>1, <2>3, <2>4 DEF HubTyped
<1>4. ASSUME Crash PROVE HubTyped'
  <2>1. /\ up' = FALSE /\ queue' = [b \in Browsers |-> <<>>]
    BY <1>4 DEF Crash
  <2>2. <<>> \in Seq(Events) /\ Len(<<>>) <= QueueSize
    BY ResourcesAssumption
  <2> QED BY <2>1, <2>2 DEF HubTyped
<1>5. ASSUME Boot PROVE HubTyped'
  BY <1>5 DEF Boot, HubTyped
<1> QED BY <1>1, <1>2, <1>3, <1>4, <1>5, HubSteps

-----------------------------------------------------------------------------
(* The calls. *)

(* What is not typed by CallLike is not changed, or to nothing. *)
LEMMA CallTypedThen ==
  ASSUME NEW c, CallTyped(c), NEW d,
         d.by = c.by, d.id = c.id, d.blind = c.blind \/ d.blind = FALSE,
         d.expected = c.expected \/ d.expected = Nothing,
         d.from = c.from \/ d.from = <<>>, d.order = c.order \/ d.order = <<>>,
         d.outcome \notin Succeeded => d.reply = Nothing
  PROVE  CallTyped(d)
<1>1. d.blind \in BOOLEAN
  BY Zenon DEF CallTyped
<1> QED BY <1>1, EmptyOrder DEF CallTyped

(* One call typed for another. *)
LEMMA CallTypedReplaced ==
  ASSUME ItemInv, CallsTyped(calls), NEW k \in DOMAIN calls, NEW c, CallTyped(c),
         calls' = [calls EXCEPT ![k] = c]
  PROVE  CallsTyped(calls')
<1>1. DOMAIN calls' = DOMAIN calls /\ \A n \in DOMAIN calls : calls'[n] = IF n = k THEN c ELSE calls[n]
  BY DEF ItemInv, CallsKnow, IsSeq
<1> QED BY <1>1 DEF CallsTyped

(* One call typed more. *)
LEMMA CallTypedAppended ==
  ASSUME ItemInv, CallsTyped(calls), NEW c, CallTyped(c), calls' = Append(calls, c)
  PROVE  CallsTyped(calls')
<1>1. /\ Len(calls) \in Nat /\ DOMAIN calls = 1 .. Len(calls)
      /\ DOMAIN calls' = 1 .. Len(calls) + 1
      /\ \A n \in 1 .. Len(calls) : calls'[n] = calls[n]
      /\ calls'[Len(calls) + 1] = c
  BY SequenceFacts, Appended DEF ItemInv, CallsKnow
<1> QED BY <1>1 DEF CallsTyped

(* What the server does with calls. *)
LEMMA ServedTyped ==
  ASSUME ItemInv, CallsTyped(calls), NEW k \in DOMAIN calls, Serve(k)
  PROVE  CallsTyped(calls')
<1> DEFINE c == calls[k]
<1>1. CallTyped(c) /\ CallLike(c) /\ (c.phase = "sent" => c.outcome = "none")
  BY DEF CallsTyped, ItemInv, CallsKnow, CallKnows
<1>2. ASSUME NEW outcome \in {"refused", "failed"}, Answer(k, outcome), c.phase = "sent"
      PROVE  CallsTyped(calls')
  <2> DEFINE d == [c EXCEPT !.phase = "answered", !.outcome = outcome]
  <2>1. /\ d.by = c.by /\ d.id = c.id /\ d.blind = c.blind /\ d.expected = c.expected
        /\ d.from = c.from /\ d.order = c.order /\ d.reply = c.reply
    BY <1>1 DEF CallLike
  <2>2. c.reply = Nothing
    BY <1>1, <1>2 DEF CallTyped, Succeeded
  <2>3. CallTyped(d)
    BY <1>1, <2>1, <2>2, CallTypedThen
  <2>4. calls' = [calls EXCEPT ![k] = d]
    BY <1>2 DEF Answer, ItemInv, CallsKnow, IsSeq
  <2> QED BY <2>3, <2>4, CallTypedReplaced
<1>3. ASSUME NEW next, Commit(k, next) PROVE CallsTyped(calls')
  <2> DEFINE phase == IF next # server THEN "unlocked" ELSE "answered"
             outcome == IF next # server THEN "changed" ELSE "unchanged"
             d == [c EXCEPT !.phase = phase, !.outcome = outcome, !.reply = next]
  <2>1. /\ d.by = c.by /\ d.id = c.id /\ d.blind = c.blind /\ d.expected = c.expected
        /\ d.from = c.from /\ d.order = c.order /\ d.outcome = outcome
    BY <1>1 DEF CallLike
  <2>2. d.outcome \in Succeeded
    BY <2>1 DEF Succeeded
  <2>3. CallTyped(d)
    BY <1>1, <2>1, <2>2, CallTypedThen
  <2>4. calls' = [calls EXCEPT ![k] = d]
    BY <1>3 DEF Commit, ItemInv, CallsKnow, IsSeq
  <2> QED BY <2>3, <2>4, CallTypedReplaced
<1>4. CASE PublishChange(k)
  <2> DEFINE d == [c EXCEPT !.phase = "answered"]
  <2>1. /\ d.by = c.by /\ d.id = c.id /\ d.blind = c.blind /\ d.expected = c.expected
        /\ d.from = c.from /\ d.order = c.order /\ d.reply = c.reply
        /\ d.outcome = c.outcome
    BY <1>1 DEF CallLike
  <2>2. d.outcome \notin Succeeded => d.reply = Nothing
    BY <1>1, <2>1 DEF CallTyped
  <2>3. CallTyped(d)
    BY <1>1, <2>1, <2>2, CallTypedThen
  <2>4. calls' = [calls EXCEPT ![k] = d]
    BY <1>4 DEF PublishChange, ItemInv, CallsKnow, IsSeq
  <2> QED BY <2>3, <2>4, CallTypedReplaced
<1> QED BY <1>2, <1>3, <1>4, ServeDoes DEF Commits, Answers

(* What the users see of them. *)
LEMMA FinishedTyped ==
  ASSUME ItemInv, CallsTyped(calls), NEW k \in DOMAIN calls, Finish(k)
  PROVE  CallsTyped(calls')
<1> DEFINE c == calls[k]
           d == [c EXCEPT !.phase = "done", !.outcome = "none", !.reply = Nothing, !.blind = FALSE,
                          !.expected = Nothing, !.from = <<>>, !.order = <<>>]
<1>1. CallTyped(c) /\ CallLike(c)
  BY DEF CallsTyped, ItemInv, CallsKnow, CallKnows
<1>2. /\ d.by = c.by /\ d.id = c.id /\ d.blind = FALSE /\ d.expected = Nothing
      /\ d.from = <<>> /\ d.order = <<>> /\ d.reply = Nothing
  BY <1>1 DEF CallLike
<1>3. CallTyped(d)
  BY <1>1, <1>2, CallTypedThen
<1>4. calls' = [calls EXCEPT ![k] = d]
  BY DEF Finish, ItemInv, CallsKnow, IsSeq
<1> QED BY <1>3, <1>4, CallTypedReplaced

(* What a crash leaves of them. *)
LEMMA CrashedTyped ==
  ASSUME ItemInv, CallsTyped(calls), Crash
  PROVE  CallsTyped(calls')
<1>1. ASSUME NEW k \in DOMAIN calls PROVE CallTyped(calls'[k])
  <2> DEFINE c == calls[k]
             d == [c EXCEPT !.phase = "answered", !.outcome = "failed", !.reply = Nothing]
  <2>1. CallTyped(c) /\ CallLike(c)
    BY DEF CallsTyped, ItemInv, CallsKnow, CallKnows
  <2>2. /\ d.by = c.by /\ d.id = c.id /\ d.blind = c.blind /\ d.expected = c.expected
        /\ d.from = c.from /\ d.order = c.order /\ d.reply = Nothing
    BY <2>1 DEF CallLike
  <2>3. CallTyped(d)
    BY <2>1, <2>2, CallTypedThen
  <2>4. calls'[k] = d \/ calls'[k] = c
    BY DEF Crash
  <2> QED BY <2>1, <2>3, <2>4
<1>2. DOMAIN calls' = DOMAIN calls
  BY DEF Crash
<1> QED BY <1>1, <1>2 DEF CallsTyped

(* What the users ask for. *)
LEMMA FormTyped ==
  ASSUME ItemInv, NEW b \in Browsers, NEW id \in Present(view[b])
  PROVE  Form(b, id) \in Drafts /\ ExpectedItem(b, id) \in Revisions
<1>1. ListLike(view[b]) /\ id \in Ids /\ view[b].content[id] # Absent
  BY DEF ItemInv, Copy, Present
<1>2. view[b].content[id] \in Versions
  BY <1>1, VersionsAre DEF ListLike
<1>3. ExpectedItem(b, id) \in Revisions
  BY <1>1 DEF ExpectedItem, ListLike, Revisions
<1> QED BY <1>1, <1>2, <1>3 DEF Form, Drafts

(* The call of a form. *)
LEMMA EditTyped ==
  ASSUME PagesTyped, NEW b \in Browsers, NEW op, NEW id \in Ids,
         NEW expected \in Revisions \cup {Nothing}, NEW base, NEW new
  PROVE  CallTyped(EditCall(b, op, id, expected, base, new))
<1> DEFINE d == EditCall(b, op, id, expected, base, new)
<1>1. /\ d.by = b /\ d.id = id /\ d.expected = expected /\ d.from = <<>> /\ d.order = <<>>
      /\ d.blind = passedOver[b] /\ d.reply = Nothing
  BY DEF EditCall, NewCall
<1>2. d.blind \in BOOLEAN
  BY <1>1 DEF PagesTyped
<1> QED BY <1>1, <1>2, EmptyOrder DEF CallTyped

(* Whatever a user does. *)
LEMMA MadeTyped ==
  ASSUME ItemInv, TypesInv, NEW b \in Browsers, Use(b)
  PROVE  CallsTyped(calls')
<1>1. ASSUME NEW id \in Ids, OpenForm(b, id) PROVE CallsTyped(calls')
  BY <1>1 DEF OpenForm, TypesInv
<1>2. CASE EditProfile(b)
  <2>1. PICK form \in IF b \in Followed THEN {draft[b]} \ {Nothing}
                      ELSE {Form(b, id) : id \in Present(view[b])} :
          \E new \in {form.base, Len(calls) + 1} :
            Make([NewCall(b, "update") EXCEPT !.id = form.id, !.expected = form.expected,
                                              !.base = form.base, !.new = new])
    BY <1>2 DEF EditProfile
  <2>2. form \in Drafts
    BY <2>1, FormTyped DEF TypesInv, PagesTyped
  <2>3. PICK new : calls' = Append(calls, EditCall(b, "update", form.id, form.expected, form.base, new))
    BY <2>1 DEF Make, EditCall
  <2> QED BY <2>2, <2>3, EditTyped, CallTypedAppended DEF TypesInv, Drafts
<1>3. ASSUME NEW id \in Ids, RemoveProfile(b, id) PROVE CallsTyped(calls')
  <2>1. ExpectedItem(b, id) \in Revisions
    BY <1>3, FormTyped DEF RemoveProfile
  <2>2. calls' = Append(calls, EditCall(b, "delete", id, ExpectedItem(b, id), view[b].content[id], Absent))
    BY <1>3 DEF RemoveProfile, Make, EditCall
  <2> QED BY <2>1, <2>2, EditTyped, CallTypedAppended DEF TypesInv
<1>4. ASSUME NEW id \in Ids, AddProfile(b, id) PROVE CallsTyped(calls')
  <2> DEFINE c == [NewCall(b, "create") EXCEPT !.id = id, !.base = Absent, !.new = Len(calls) + 1]
  <2>1. /\ c.by = b /\ c.id = id /\ c.expected = Nothing /\ c.from = <<>>
        /\ c.order = <<>>
        /\ c.blind = passedOver[b] /\ c.reply = Nothing
    BY DEF NewCall
  <2>2. c.blind \in BOOLEAN
    BY <2>1 DEF TypesInv, PagesTyped
  <2>3. calls' = Append(calls, c)
    BY <1>4 DEF AddProfile, Make
  <2> HIDE DEF c
  <2>4. CallTyped(c)
    BY <2>1, <2>2, EmptyOrder DEF CallTyped
  <2> QED BY <2>3, <2>4, CallTypedAppended DEF TypesInv
<1>5. CASE SaveProfilesOrder(b)
  <2> DEFINE e == [instance |-> view[b].instance, revision |-> view[b].orderRev]
  <2>1. PICK order \in Orders : Make(ReorderCall(b, e, view[b].order, order))
    BY <1>5 DEF SaveProfilesOrder, ReorderCall
  <2> DEFINE c == ReorderCall(b, e, view[b].order, order)
  <2>2. /\ c.by = b /\ c.id = Nothing /\ c.expected = e /\ c.from = view[b].order
        /\ c.order = order /\ c.blind = passedOver[b] /\ c.reply = Nothing
    BY DEF ReorderCall, NewCall
  <2>3. e \in Revisions
    BY DEF ItemInv, Copy, ListLike, TypesInv, PagesTyped, PageTyped, Revisions
  <2>4. view[b].order \in Orders
    BY OrderIsInOrders DEF TypesInv, PagesTyped, PageTyped, Present
  <2>5. c.blind \in BOOLEAN
    BY <2>2 DEF TypesInv, PagesTyped
  <2> HIDE DEF c
  <2>6. CallTyped(c)
    BY <2>2, <2>3, <2>4, <2>5 DEF CallTyped
  <2>7. calls' = Append(calls, c)
    BY <2>1 DEF Make, c
  <2> QED BY <2>6, <2>7, CallTypedAppended DEF TypesInv
<1> QED BY <1>1, <1>2, <1>3, <1>4, <1>5 DEF Use

(* No step leaves a call without its types. *)
LEMMA CallsTypedStep ==
  ASSUME ItemInv, TypesInv, [ResourcesNext]_resourcesVars
  PROVE  CallsTyped(calls')
<1>1. ASSUME calls' = calls PROVE CallsTyped(calls')
  BY <1>1 DEF TypesInv
<1>2. ASSUME NEW k \in DOMAIN calls, Serve(k) PROVE CallsTyped(calls')
  BY <1>2, ServedTyped DEF TypesInv
<1>3. ASSUME NEW k \in DOMAIN calls, Receive(k) PROVE CallsTyped(calls')
  BY <1>3, FinishedTyped DEF TypesInv, Receive, ReceiveReply, DropReply, ReceiveError,
     Ignore
<1>4. ASSUME NEW b \in Browsers, Refresh(b) PROVE calls' = calls
  BY <1>4, Zenon DEF Refresh, Reload, Open, AddClient, OnResourceChanged, RefreshTimer,
     ListProfiles, ReceiveList, browserVars
<1>5. Boot => calls' = calls
  BY DEF Boot
<1>6. Crash => CallsTyped(calls')
  BY CrashedTyped DEF TypesInv
<1>7. UNCHANGED resourcesVars => calls' = calls
  BY DEF resourcesVars
<1> QED BY <1>1, <1>2, <1>3, <1>4, <1>5, <1>6, <1>7, MadeTyped, Zenon DEF ResourcesNext

-----------------------------------------------------------------------------
(* The pages. *)

(* What a page shows of a reply names each of its items once. *)
LEMMA ShownTyped ==
  ASSUME NEW s, NEW v, ListLike(v), PageTyped(v), NEW c, CallKnows(s, c), CallTyped(c),
         c.outcome \in Succeeded, ListLike(c.reply), PageTyped(c.reply)
  PROVE  PageTyped(Shown(v, c))
<1> DEFINE moved == [v EXCEPT !.state = c.reply.state, !.orderRev = c.reply.orderRev]
<1>1. /\ ListLike(moved) /\ moved.order = v.order /\ moved.orderRev = c.reply.orderRev
      /\ moved.content = v.content /\ c.reply.orderRev \in Nat
  BY DEF ListLike, PageTyped
<1>2. Present(moved) = Present(v) /\ IsOrder(v.order, Present(v))
  BY <1>1 DEF Present, PageTyped
<1>3. PageTyped(moved)
  BY <1>1, <1>2 DEF PageTyped
<1> HIDE DEF moved
<1>4. CASE c.op = "reorder"
  <2> DEFINE order == Ordered(v, c.order)
             t == [moved EXCEPT !.order = order]
  <2>1. Shown(v, c) = moved \/ Shown(v, c) = t
    BY <1>4 DEF Shown, moved
  <2>2. IsOrder(order, Present(v))
    BY OrderedIsOrder, OrdersAreOrders DEF CallTyped
  <2> HIDE DEF order
  <2>3. t.order = order /\ t.orderRev = moved.orderRev /\ t.content = moved.content
    BY <1>1 DEF ListLike
  <2> HIDE DEF t
  <2>4. Present(t) = Present(v)
    BY <1>2, <2>3 DEF Present
  <2>5. PageTyped(t)
    BY <1>1, <2>2, <2>3, <2>4 DEF PageTyped
  <2> QED BY <1>3, <2>1, <2>5
<1>5. CASE c.op # "reorder"
  <2> DEFINE id == c.id
             order == IF c.op = "delete" THEN Without(moved.order, id)
                      ELSE IF id \in Present(moved) THEN moved.order
                      ELSE Append(moved.order, id)
             t == [moved EXCEPT !.items[id] = c.reply.items[id], !.content[id] = c.new,
                                !.order = order]
  <2>1. /\ id \in Ids /\ c.new \in Contents
        /\ c.op = "delete" <=> c.new = Absent
    BY <1>5 DEF CallKnows, CallLike, Editing
  <2>2. Shown(v, c) = t
    BY <1>1, <1>5 DEF Shown, WithItem, moved, ListLike
  <2> HIDE DEF order
  <2>3. /\ t.order = order /\ t.orderRev = moved.orderRev
        /\ t.content = [v.content EXCEPT ![id] = c.new]
    BY <1>1 DEF ListLike
  <2>4. v.content \in [Ids -> Contents]
    BY DEF ListLike
  <2> HIDE DEF t
  <2>5. CASE c.op = "delete"
    <3>1. Present(t) = Present(v) \ {id}
      BY <2>1, <2>3, <2>4, <2>5 DEF Present
    <3>2. IsOrder(order, Present(v) \ {id})
      BY <1>1, <1>2, <2>5, OrderWithout DEF order
    <3> QED BY <1>1, <2>2, <2>3, <3>1, <3>2 DEF PageTyped
  <2>6. CASE c.op # "delete"
    <3>1. Present(t) = Present(v) \cup {id}
      BY <2>1, <2>3, <2>4, <2>6 DEF Present
    <3>2. CASE id \in Present(v)
      <4>1. order = v.order /\ Present(t) = Present(v)
        BY <1>1, <1>2, <2>6, <3>1, <3>2 DEF order
      <4> QED BY <1>1, <1>2, <2>2, <2>3, <4>1 DEF PageTyped
    <3>3. CASE id \notin Present(v)
      <4>1. order = Append(v.order, id)
        BY <1>1, <1>2, <2>6, <3>3 DEF order
      <4>2. IsOrder(order, Present(v) \cup {id})
        BY <1>2, <3>3, <4>1, OrderAppended
      <4> QED BY <1>1, <2>2, <2>3, <3>1, <4>2 DEF PageTyped
    <3> QED BY <3>2, <3>3
  <2> QED BY <2>5, <2>6
<1> QED BY <1>4, <1>5

(* One page changes at a time. *)
LEMMA OnePageTyped ==
  ASSUME ItemInv, PagesTyped, NEW b \in Browsers,
         \/ view' = view
         \/ \E v : view' = [view EXCEPT ![b] = v] /\ PageTyped(v),
         \/ draft' = draft
         \/ \E d \in Drafts \cup {Nothing} : draft' = [draft EXCEPT ![b] = d],
         \/ passedOver' = passedOver
         \/ \E p \in BOOLEAN : passedOver' = [passedOver EXCEPT ![b] = p]
  PROVE  PagesTyped'
<1>1. \A a \in Browsers : PageTyped(view'[a])
  BY DEF ItemInv, PerBrowser, PagesTyped
<1>2. draft' \in [Browsers -> Drafts \cup {Nothing}]
  BY DEF PagesTyped
<1>3. passedOver' \in [Browsers -> BOOLEAN]
  BY DEF PagesTyped
<1> QED BY <1>1, <1>2, <1>3 DEF PagesTyped

(* No step leaves a page without its types. *)
LEMMA PagesTypedStep ==
  ASSUME ItemInv, OrderInv, TypesInv, [ResourcesNext]_resourcesVars
  PROVE  PagesTyped'
<1>1. ASSUME UNCHANGED <<view, draft, passedOver>> PROVE PagesTyped'
  BY <1>1 DEF TypesInv, PagesTyped
<1>2. ASSUME NEW k \in DOMAIN calls, Serve(k) PROVE UNCHANGED <<view, draft, passedOver>>
  BY <1>2, ServeDoes, Zenon DEF Commits, Commit, Answers, Answer, PublishChange,
     browserVars
<1>3. ASSUME NEW k \in DOMAIN calls, Receive(k) PROVE PagesTyped'
  <2>1. CASE DropReply(k) \/ ReceiveError(k) \/ Ignore(k)
    BY <1>1, <2>1, Zenon DEF DropReply, ReceiveError, Ignore, browserVars
  <2>2. CASE ReceiveReply(k)
    <3> DEFINE c == calls[k]
               b == c.by
               v == view[b]
               own == IF c.outcome = "changed" THEN 1 ELSE 0
               past == c.reply.state > v.state + own
    <3>1. /\ b \in Browsers /\ c.outcome \in Succeeded
          /\ view' = [view EXCEPT ![b] = Shown(v, c)]
          /\ passedOver' = [passedOver EXCEPT ![b] = @ \/ past] /\ draft' = draft
      BY <2>2, ResourcesAssumption DEF ReceiveReply, Succeeded, ItemInv, PerBrowser
    <3>2. ListLike(v) /\ PageTyped(v) /\ CallKnows(server, c) /\ CallTyped(c)
      BY <3>1 DEF ItemInv, Copy, CallsKnow, TypesInv, PagesTyped, CallsTyped
    <3>3. PageTyped(Shown(v, c))
      BY <3>1, <3>2, ReplyIsTyped, ShownTyped
    <3>4. \E p \in BOOLEAN : passedOver' = [passedOver EXCEPT ![b] = p]
      <4>1. (passedOver[b] \/ past) \in BOOLEAN
        OBVIOUS
      <4> HIDE DEF past
      <4> QED BY <3>1, <4>1, Zenon
    <3> HIDE DEF c
    <3> QED BY <3>1, <3>3, <3>4, OnePageTyped DEF TypesInv
  <2> QED BY <1>3, <2>1, <2>2 DEF Receive
<1>4. ASSUME NEW b \in Browsers, Use(b) PROVE PagesTyped'
  <2>1. UNCHANGED <<view, passedOver>>
    BY <1>4, Zenon DEF Use, OpenForm, RemoveProfile, AddProfile, EditProfile,
       SaveProfilesOrder, Make
  <2>2. ASSUME NEW id \in Ids, OpenForm(b, id)
        PROVE  \E d \in Drafts \cup {Nothing} : draft' = [draft EXCEPT ![b] = d]
    BY <2>2, FormTyped DEF OpenForm
  <2>3. EditProfile(b) => draft' = [draft EXCEPT ![b] = Nothing]
    BY DEF EditProfile
  <2>4. ASSUME NEW id \in Ids, RemoveProfile(b, id) \/ AddProfile(b, id) PROVE draft' = draft
    BY <2>4 DEF RemoveProfile, AddProfile
  <2>5. SaveProfilesOrder(b) => draft' = draft
    BY DEF SaveProfilesOrder
  <2>6. draft' = draft \/ \E d \in Drafts \cup {Nothing} : draft' = [draft EXCEPT ![b] = d]
    BY <1>4, <2>2, <2>3, <2>4, <2>5 DEF Use
  <2> QED BY <2>1, <2>6, OnePageTyped DEF TypesInv
<1>5. ASSUME NEW b \in Browsers, Refresh(b) PROVE PagesTyped'
  <2>1. CASE Reload(b)
    <3>1. view' = [view EXCEPT ![b] = server] /\ UNCHANGED <<draft, passedOver>>
      BY <2>1 DEF Reload
    <3> QED BY <3>1, ServerIsTyped, OnePageTyped DEF TypesInv
  <2>2. CASE Open(b) \/ AddClient(b) \/ OnResourceChanged(b) \/ RefreshTimer(b)
    BY <1>1, <2>2, Zenon DEF Open, AddClient, OnResourceChanged, RefreshTimer, browserVars
  <2>3. ASSUME NEW n \in DOMAIN lists[b], ListProfiles(b, n) PROVE PagesTyped'
    BY <1>1, <2>3, Zenon DEF ListProfiles, browserVars
  <2>4. ASSUME NEW n \in DOMAIN lists[b], ReceiveList(b, n) PROVE PagesTyped'
    <3> DEFINE call == lists[b][n]
               taken == TakesSnapshot(b, call)
               shown == IF taken THEN call.reply ELSE view[b]
    <3>1. /\ view' = [view EXCEPT ![b] = shown] /\ draft' = draft
          /\ passedOver' = [passedOver EXCEPT ![b] = @ /\ ~taken]
      BY <2>4 DEF ReceiveList
    <3>2. PageTyped(shown)
      BY ListReplyIsTyped DEF TakesSnapshot, TypesInv, PagesTyped
    <3>3. \E p \in BOOLEAN : passedOver' = [passedOver EXCEPT ![b] = p]
      <4>1. (passedOver[b] /\ ~taken) \in BOOLEAN
        OBVIOUS
      <4> HIDE DEF taken
      <4> QED BY <3>1, <4>1, Zenon
    <3> HIDE DEF shown
    <3> QED BY <3>1, <3>2, <3>3, OnePageTyped DEF TypesInv
  <2> QED BY <1>5, <2>1, <2>2, <2>3, <2>4 DEF Refresh
<1>6. Boot \/ Crash \/ UNCHANGED resourcesVars => UNCHANGED <<view, draft, passedOver>>
  BY Zenon DEF Boot, Crash, browserVars, resourcesVars
<1> QED BY <1>1, <1>2, <1>3, <1>4, <1>5, <1>6, Zenon DEF ResourcesNext

-----------------------------------------------------------------------------
(* Pages that are not followed. *)

(* Nothing is on its way to them, ever. *)
Idle(b) ==
  /\ socket[b] = NoSocket /\ queue[b] = <<>> /\ pending[b] = Nothing /\ sync[b] = Nothing
  /\ lists[b] = <<>>

(* Every page that is not followed. *)
IdleInv == \A b \in Browsers \ Followed : Idle(b)

(* What Idle is about is as it was, for page a. *)
SameIdle(a) ==
  /\ socket'[a] = socket[a] /\ queue'[a] = queue[a] /\ pending'[a] = pending[a]
  /\ sync'[a] = sync[a] /\ lists'[a] = lists[a]

(* They start so. *)
LEMMA IdleInvInit == ResourcesInit => IdleInv
<1> SUFFICES ASSUME ResourcesInit, NEW b \in Browsers \ Followed PROVE Idle(b)
  BY DEF IdleInv
<1>1. /\ lists = [a \in Browsers |-> <<>>]
      /\ socket = [a \in Browsers |-> IF a \in Followed THEN LiveSocket ELSE NoSocket]
      /\ queue = [a \in Browsers |-> <<>>]
      /\ pending = [a \in Browsers |-> Nothing] /\ sync = [a \in Browsers |-> Nothing]
  BY DEF ResourcesInit
<1>2. socket[b] = NoSocket
  BY <1>1
<1> QED BY <1>1, <1>2 DEF Idle

(* The synchronization of a page is of that page. *)
LEMMA SynchronizeIdle ==
  ASSUME ItemInv, TypesInv, NEW b \in Followed, NEW events, Synchronize(b, events),
         NEW a \in Browsers \ {b}
  PROVE  lists'[a] = lists[a] /\ sync'[a] = sync[a]
  BY DEF Synchronize, SendList, ItemInv, PerBrowser, TypesInv, SyncsTyped

(* They stay so. *)
LEMMA IdleInvStep == ItemInv /\ QuietInv /\ TypesInv /\ IdleInv /\ [ResourcesNext]_resourcesVars => IdleInv'
<1> SUFFICES ASSUME ItemInv, QuietInv, TypesInv, IdleInv, [ResourcesNext]_resourcesVars PROVE IdleInv'
  OBVIOUS
<1>1. ASSUME \A a \in Browsers \ Followed : SameIdle(a) PROVE IdleInv'
  BY <1>1 DEF SameIdle, IdleInv, Idle
<1>2. UNCHANGED <<socket, queue, pending, sync, lists>> => IdleInv'
  BY <1>1 DEF SameIdle
<1>3. /\ \A b \in Browsers : IsSeq(lists[b])
      /\ DOMAIN lists = Browsers /\ DOMAIN pending = Browsers /\ DOMAIN sync = Browsers
      /\ DOMAIN queue = Browsers /\ DOMAIN socket = Browsers
      /\ Followed \subseteq Browsers
  BY ResourcesAssumption DEF ItemInv, ListsKnow, PerBrowser, TypesInv, SyncsTyped,
     HubTyped, QuietInv, TypedSockets
<1>4. ASSUME NEW k \in DOMAIN calls, Serve(k) PROVE IdleInv'
  <2>1. CASE PublishChange(k)
    <3>1. UNCHANGED <<pending, sync, lists>>
      BY <2>1 DEF PublishChange, browserVars
    <3>2. ASSUME NEW a \in Browsers \ Followed PROVE socket'[a] = NoSocket /\ queue'[a] = <<>>
      BY <2>1 DEF PublishChange, IdleInv, Idle, NoSocket
    <3> QED BY <3>1, <3>2 DEF IdleInv, Idle
  <2>2. CASE Commits(k) \/ Answers(k)
    BY <1>2, <2>2, Zenon DEF Commits, Commit, Answers, Answer, browserVars
  <2> QED BY <1>4, <2>1, <2>2, ServeDoes
<1>5. ASSUME NEW k \in DOMAIN calls, Receive(k) PROVE IdleInv'
  <2> DEFINE b == calls[k].by
  <2>1. UNCHANGED <<socket, queue, pending, sync>>
    BY <1>5, Zenon DEF Receive, ReceiveReply, DropReply, ReceiveError, Ignore, browserVars
  <2>2. lists' = lists \/ (b \in Followed /\ SendList(b, "form"))
    BY <1>5 DEF Receive, ReceiveReply, DropReply, ReceiveError, Ignore
  <2>3. ASSUME NEW a \in Browsers \ Followed PROVE lists'[a] = lists[a]
    BY <1>3, <2>2 DEF SendList
  <2> QED BY <1>1, <2>1, <2>3 DEF SameIdle
<1>6. ASSUME NEW b \in Browsers, Use(b) PROVE IdleInv'
  BY <1>2, <1>6, Zenon DEF Use, OpenForm, RemoveProfile, AddProfile, EditProfile,
     SaveProfilesOrder, Make
<1>7. ASSUME NEW b \in Browsers, Refresh(b) PROVE IdleInv'
  <2>1. CASE Reload(b)
    BY <1>2, <2>1, Zenon DEF Reload
  <2>2. CASE b \notin Followed /\ ~Reload(b)
    <3>1. Idle(b) /\ DOMAIN lists[b] = {}
      BY <2>2 DEF IdleInv, Idle
    <3> QED BY <1>7, <2>2, <3>1 DEF Refresh, Open, AddClient, OnResourceChanged,
               RefreshTimer, Idle
  <2>3. CASE b \in Followed
    <3>1. Open(b) \/ AddClient(b) => \A a \in Browsers \ {b} : SameIdle(a)
      BY <1>3, <2>3, SynchronizeIdle DEF Open, AddClient, browserVars, SameIdle
    <3>2. OnResourceChanged(b) => \A a \in Browsers \ {b} : SameIdle(a)
      BY <1>3 DEF OnResourceChanged, SameIdle
    <3>3. RefreshTimer(b) => \A a \in Browsers \ {b} : SameIdle(a)
      BY <1>3, <2>3, SynchronizeIdle DEF RefreshTimer, SameIdle
    <3>4. ASSUME NEW n \in DOMAIN lists[b], ListProfiles(b, n)
          PROVE  \A a \in Browsers \ {b} : SameIdle(a)
      BY <1>3, <3>4 DEF ListProfiles, browserVars, SameIdle
    <3>5. ASSUME NEW n \in DOMAIN lists[b], ReceiveList(b, n)
          PROVE  \A a \in Browsers \ {b} : SameIdle(a)
      <4>1. UNCHANGED <<socket, queue>>
        BY <3>5 DEF ReceiveList
      <4>2. \A a \in Browsers \ {b} : lists'[a] = lists[a] /\ sync'[a] = sync[a] /\ pending'[a] = pending[a]
        BY <1>3, <3>5 DEF ReceiveList, Drain
      <4> QED BY <4>1, <4>2 DEF SameIdle
    <3>6. Browsers \ Followed \subseteq Browsers \ {b}
      BY <2>3
    <3> QED BY <1>1, <1>7, <2>1, <3>1, <3>2, <3>3, <3>4, <3>5, <3>6 DEF Refresh
  <2> QED BY <2>1, <2>2, <2>3
<1>8. ASSUME Crash PROVE IdleInv'
  <2>1. UNCHANGED <<pending, sync>>
    BY <1>8 DEF Crash, browserVars
  <2>2. ASSUME NEW a \in Browsers \ Followed
        PROVE  socket'[a] = NoSocket /\ queue'[a] = <<>> /\ lists'[a] = <<>>
    <3>1. lists[a] = <<>>
      BY DEF IdleInv, Idle
    <3>2. lists'[a] = [n \in DOMAIN lists[a] |->
                        [lists[a][n] EXCEPT !.lost = lists[a][n].reply = Nothing]]
      BY <1>8 DEF Crash
    <3>3. lists'[a] = <<>>
      BY <3>1, <3>2
    <3> QED BY <1>8, <3>3 DEF Crash
  <2> QED BY <2>1, <2>2 DEF IdleInv, Idle
<1>9. Boot \/ UNCHANGED resourcesVars => IdleInv'
  BY <1>2, Zenon DEF Boot, resourcesVars, browserVars
<1> QED BY <1>4, <1>5, <1>6, <1>7, <1>8, <1>9 DEF ResourcesNext

-----------------------------------------------------------------------------
(* The synchronizations. *)

(* One list call more. *)
LEMMA ListSentTyped ==
  ASSUME NEW l, IsSeq(l), ListsTyped(l), NEW by \in {"sync", "form"}, up \in BOOLEAN
  PROVE  ListsTyped(Append(l, ListCall(by)))
<1> DEFINE c == ListCall(by)
<1>1. c.by = by /\ c.lost = ~up /\ c.overtaken = FALSE
  BY DEF ListCall
<1>2. c.lost \in BOOLEAN
  BY <1>1, Zenon
<1>3. ListTyped(c)
  BY <1>1, <1>2 DEF ListTyped
<1>4. /\ Len(l) \in Nat /\ DOMAIN l = 1 .. Len(l) /\ DOMAIN Append(l, c) = 1 .. Len(l) + 1
      /\ (\A n \in 1 .. Len(l) : Append(l, c)[n] = l[n]) /\ Append(l, c)[Len(l) + 1] = c
  BY SequenceFacts, Appended
<1> HIDE DEF c
<1>5. ListsTyped(Append(l, c))
  BY <1>3, <1>4 DEF ListsTyped
<1> QED BY <1>5 DEF c

(* The list calls that are left when one has answered. *)
LEMMA LeftTyped ==
  ASSUME ItemInv, NEW b \in Browsers, ListsTyped(lists[b]), NEW n \in DOMAIN lists[b]
  PROVE  ListsTyped(LeftAfter(b, n))
<1> DEFINE l == lists[b]
           left == LeftAfter(b, n)
           taken == TakesSnapshot(b, l[n])
<1>1. /\ Len(l) \in Nat /\ DOMAIN l = 1 .. Len(l) /\ DOMAIN left = 1 .. Len(l) - 1
      /\ \A m \in DOMAIN left :
           IF m < n
           THEN /\ left[m].by = l[m].by /\ left[m].lost = l[m].lost
                /\ left[m] = [l[m] EXCEPT !.overtaken = @ \/ taken]
                /\ l[m] = [by |-> l[m].by, reply |-> l[m].reply, lost |-> l[m].lost,
                           overtaken |-> l[m].overtaken]
           ELSE left[m] = l[m + 1]
  <2>1. /\ Len(l) \in Nat /\ DOMAIN l = 1 .. Len(l) /\ DOMAIN left = 1 .. Len(l) - 1
        /\ \A m \in DOMAIN left :
             IF m < n THEN left[m].by = l[m].by /\ left[m].lost = l[m].lost
             ELSE left[m] = l[m + 1]
    BY LeftShows
  <2>2. ASSUME NEW m \in DOMAIN left, m < n
        PROVE  /\ left[m] = [l[m] EXCEPT !.overtaken = @ \/ taken]
               /\ l[m] = [by |-> l[m].by, reply |-> l[m].reply, lost |-> l[m].lost,
                          overtaken |-> l[m].overtaken]
    <3>1. m \in DOMAIN l /\ m \in 1 .. Len(l) - 1
      BY <2>1
    <3>2. left[m] = [l[m] EXCEPT !.overtaken = @ \/ taken]
      BY <2>2, <3>1 DEF LeftAfter
    <3> QED BY <3>1, <3>2 DEF ItemInv, ListsKnow, ListKnows
  <2> HIDE DEF left, taken
  <2> QED BY <2>1, <2>2
<1> HIDE DEF left
<1>2. ASSUME NEW m \in DOMAIN left PROVE ListTyped(left[m])
  <2>1. m \in DOMAIN l /\ m + 1 \in DOMAIN l
    BY <1>1
  <2>2. CASE m < n
    <3>1. ListTyped(l[m])
      BY <2>1 DEF ListsTyped
    <3> DEFINE o == l[m].overtaken \/ taken
    <3>2. o \in BOOLEAN
      OBVIOUS
    <3> HIDE DEF taken, o
    <3>3. left[m] = [l[m] EXCEPT !.overtaken = o]
      BY <1>1, <2>2, Zenon DEF o
    <3>4. left[m].overtaken = o
      <4>1. l[m] = [by |-> l[m].by, reply |-> l[m].reply, lost |-> l[m].lost,
                    overtaken |-> l[m].overtaken]
        BY <1>1, <2>2
      <4> QED BY <3>3, <4>1
    <3>5. left[m].by = l[m].by /\ left[m].lost = l[m].lost
      BY <1>1, <2>2
    <3> QED BY <3>1, <3>2, <3>4, <3>5 DEF ListTyped
  <2>3. CASE ~(m < n)
    <3>1. left[m] = l[m + 1]
      BY <1>1, <2>3
    <3> QED BY <2>1, <3>1 DEF ListsTyped
  <2> QED BY <2>2, <2>3
<1> QED BY <1>2 DEF ListsTyped, left

(* The event that a synchronization is scheduled for is one of the events. *)
LEMMA ScheduledTyped ==
  ASSUME NEW b \in Browsers, pending[b] \in Events \cup {Nothing}, NEW v,
         NEW events \in SUBSET Events, NEW e \in Scheduled(b, v, events)
  PROVE  e \in Events \cup {Nothing}
  BY DEF Scheduled

(* One page synchronizes at a time. *)
LEMMA OneSyncTyped ==
  ASSUME ItemInv, SyncsTyped, NEW b \in Browsers,
         \/ lists' = lists
         \/ \E l : lists' = [lists EXCEPT ![b] = l] /\ ListsTyped(l),
         \/ pending' = pending
         \/ \E e \in Events \cup {Nothing} : pending' = [pending EXCEPT ![b] = e],
         \/ sync' = sync
         \/ \E s \in Syncs \cup {Nothing} : sync' = [sync EXCEPT ![b] = s]
  PROVE  SyncsTyped'
<1>1. \A a \in Browsers : ListsTyped(lists'[a])
  BY DEF ItemInv, PerBrowser, SyncsTyped
<1>2. pending' \in [Browsers -> Events \cup {Nothing}]
  BY DEF SyncsTyped
<1>3. sync' \in [Browsers -> Syncs \cup {Nothing}]
  BY DEF SyncsTyped
<1> QED BY <1>1, <1>2, <1>3 DEF SyncsTyped

(* A list call of a synchronization is one that a synchronization waits for.   *)
LEMMA SyncAwaited ==
  ASSUME QuietInv, IdleInv, NEW b \in Browsers, NEW n \in DOMAIN lists[b],
         lists[b][n].by = "sync"
  PROVE  sync[b] # Nothing
<1>1. b \in Followed
  BY DEF IdleInv, Idle
<1> QED BY <1>1 DEF QuietInv, PageInv, OneSync

(* A list call that is sent. *)
LEMMA SendTyped ==
  ASSUME ItemInv, SyncsTyped, up \in BOOLEAN, NEW b \in Browsers,
         NEW by \in {"sync", "form"},
         SendList(b, by)
  PROVE  \E l : lists' = [lists EXCEPT ![b] = l] /\ ListsTyped(l)
<1>1. ListsTyped(Append(lists[b], ListCall(by)))
  BY ListSentTyped DEF ItemInv, ListsKnow, SyncsTyped
<1>2. lists' = [lists EXCEPT ![b] = Append(lists[b], ListCall(by))]
  BY DEF SendList, ItemInv, PerBrowser
<1> QED BY <1>1, <1>2

(* A synchronization that starts or is put off. *)
LEMMA SynchronizeTyped ==
  ASSUME ItemInv, SyncsTyped, up \in BOOLEAN, NEW b \in Browsers,
         NEW events \in SUBSET Events,
         Synchronize(b, events)
  PROVE  /\ lists' = lists \/ \E l : lists' = [lists EXCEPT ![b] = l] /\ ListsTyped(l)
         /\ \E s \in Syncs \cup {Nothing} : sync' = [sync EXCEPT ![b] = s]
<1> DEFINE z == sync[b]
<1>1. z \in Syncs \cup {Nothing} /\ b \in DOMAIN sync
  BY DEF SyncsTyped
<1>2. CASE z # Nothing
  <2> DEFINE w == z.waiting \cup events
             y == [z EXCEPT !.again = TRUE, !.waiting = w]
  <2>1. w \in SUBSET Events /\ z \in Syncs
    BY <1>1, <1>2 DEF Syncs
  <2>2. lists' = lists /\ sync' = [sync EXCEPT ![b] = y]
    BY <1>1, <1>2 DEF Synchronize, SyncsTyped
  <2> HIDE DEF w
  <2>3. y \in Syncs
    BY <2>1 DEF Syncs
  <2> HIDE DEF y
  <2> QED BY <2>2, <2>3
<1>3. CASE z = Nothing
  <2> DEFINE y == [again |-> FALSE, waiting |-> events]
  <2>1. sync' = [sync EXCEPT ![b] = y] /\ SendList(b, "sync")
    BY <1>3 DEF Synchronize
  <2>2. y \in Syncs
    BY DEF Syncs
  <2> QED BY <2>1, <2>2, SendTyped
<1> QED BY <1>2, <1>3

(* A list that arrives, and what was put off until then. *)
LEMMA DrainTyped ==
  ASSUME ItemInv, QuietInv, IdleInv, SyncsTyped, up \in BOOLEAN, NEW b \in Browsers,
         NEW n \in DOMAIN lists[b],
         ReceiveList(b, n)
  PROVE  SyncsTyped'
<1> DEFINE call == lists[b][n]
           shown == IF TakesSnapshot(b, call) THEN call.reply ELSE view[b]
           left == LeftAfter(b, n)
           s == sync[b]
<1>1. IsSeq(left) /\ ListsTyped(left)
  BY LeftKnow, LeftTyped DEF ListsKnow, SyncsTyped
<1>2. CASE call.by # "sync"
  <2>1. lists' = [lists EXCEPT ![b] = left] /\ UNCHANGED <<sync, pending>>
    BY <1>2 DEF ReceiveList
  <2> HIDE DEF left
  <2> QED BY <1>1, <2>1, OneSyncTyped
<1>3. CASE call.by = "sync"
  <2>1. Drain(b, n, shown)
    BY <1>3 DEF ReceiveList
  <2>2. s \in Syncs \cup {Nothing}
    BY DEF SyncsTyped
  <2> HIDE DEF shown
  <2>3. CASE s.again
    <3> DEFINE L == Append(left, ListCall("sync"))
               y == [s EXCEPT !.again = FALSE]
    <3>1. lists' = [lists EXCEPT ![b] = L] /\ pending' = pending
      BY <2>1, <2>3 DEF Drain
    <3>2. sync' = [sync EXCEPT ![b] = y]
      BY <2>1, <2>3 DEF Drain, SyncsTyped
    <3>3. ListsTyped(L)
      BY <1>1, ListSentTyped
    <3> HIDE DEF L
    <3>4. y \in Syncs
      BY <1>3, <2>2, SyncAwaited DEF Syncs
    <3> HIDE DEF y
    <3> QED BY <3>1, <3>2, <3>3, <3>4, OneSyncTyped
  <2>4. CASE ~s.again
    <3> DEFINE events == IF call.lost THEN {} ELSE s.waiting
    <3>1. lists' = [lists EXCEPT ![b] = left] /\ sync' = [sync EXCEPT ![b] = Nothing]
      BY <2>1, <2>4 DEF Drain
    <3>2. PICK e \in Scheduled(b, shown, events) : pending' = [pending EXCEPT ![b] = e]
      BY <2>1, <2>4 DEF Drain
    <3>3. events \in SUBSET Events
      BY <1>3, <2>2, SyncAwaited DEF Syncs
    <3>4. e \in Events \cup {Nothing}
      BY <3>2, <3>3, ScheduledTyped DEF SyncsTyped
    <3> HIDE DEF left
    <3> QED BY <1>1, <3>1, <3>2, <3>4, OneSyncTyped
  <2> QED BY <2>3, <2>4
<1> QED BY <1>2, <1>3

(* No step leaves a synchronization without its types. *)
LEMMA SyncsTypedStep ==
  ASSUME ItemInv, QuietInv, IdleInv, TypesInv, [ResourcesNext]_resourcesVars
  PROVE  SyncsTyped'
<1>1. SyncsTyped /\ HubTyped /\ up \in BOOLEAN /\ \A b \in Browsers : queue[b] \in Seq(Events)
  BY DEF TypesInv, HubTyped
<1>2. ASSUME UNCHANGED <<lists, pending, sync>> PROVE SyncsTyped'
  BY <1>1, <1>2 DEF SyncsTyped
<1>3. ASSUME NEW k \in DOMAIN calls, Serve(k) PROVE UNCHANGED <<lists, pending, sync>>
  BY <1>3, ServeDoes, Zenon DEF Commits, Commit, Answers, Answer, PublishChange,
     browserVars
<1>4. ASSUME NEW k \in DOMAIN calls, Receive(k) PROVE SyncsTyped'
  <2> DEFINE b == calls[k].by
  <2>1. UNCHANGED <<pending, sync>>
    BY <1>4, Zenon DEF Receive, ReceiveReply, DropReply, ReceiveError, Ignore, browserVars
  <2>2. lists' = lists \/ (b \in Browsers /\ SendList(b, "form"))
    BY <1>4, ResourcesAssumption DEF Receive, ReceiveReply, DropReply, ReceiveError,
       Ignore
  <2> HIDE DEF b
  <2>3. CASE b \in Browsers /\ SendList(b, "form")
    <3>1. \E l : lists' = [lists EXCEPT ![b] = l] /\ ListsTyped(l)
      BY <1>1, <2>3, SendTyped
    <3> QED BY <1>1, <2>1, <2>3, <3>1, OneSyncTyped
  <2> QED BY <1>2, <2>1, <2>2, <2>3
<1>5. ASSUME NEW b \in Browsers, Use(b) PROVE UNCHANGED <<lists, pending, sync>>
  BY <1>5, Zenon DEF Use, OpenForm, RemoveProfile, AddProfile, EditProfile,
     SaveProfilesOrder, Make
<1>6. ASSUME NEW b \in Browsers, Refresh(b) PROVE SyncsTyped'
  <2>1. CASE Reload(b)
    BY <1>2, <2>1, Zenon DEF Reload
  <2>2. CASE AddClient(b)
    BY <1>2, <2>2, Zenon DEF AddClient, browserVars
  <2>3. CASE Open(b)
    <3>1. Synchronize(b, {}) /\ pending' = pending
      BY <2>3 DEF Open
    <3> QED BY <1>1, <3>1, SynchronizeTyped, OneSyncTyped
  <2>4. CASE OnResourceChanged(b)
    <3>1. Head(queue[b]) \in Events
      BY <1>1, <2>4 DEF OnResourceChanged
    <3>2. PICK e \in Scheduled(b, view[b], {Head(queue[b])}) : pending' = [pending EXCEPT ![b] = e]
      BY <2>4 DEF OnResourceChanged
    <3>3. e \in Events \cup {Nothing}
      BY <1>1, <3>1, <3>2, ScheduledTyped DEF SyncsTyped
    <3>4. UNCHANGED <<lists, sync>>
      BY <2>4 DEF OnResourceChanged
    <3> QED BY <1>1, <3>2, <3>3, <3>4, OneSyncTyped
  <2>5. CASE RefreshTimer(b)
    <3>1. /\ pending' = [pending EXCEPT ![b] = Nothing] /\ pending[b] # Nothing
          /\ UNCHANGED <<lists, sync>> \/ Synchronize(b, {pending[b]})
      BY <2>5 DEF RefreshTimer
    <3>2. {pending[b]} \in SUBSET Events
      BY <1>1, <3>1 DEF SyncsTyped
    <3>3. Synchronize(b, {pending[b]}) =>
            /\ lists' = lists \/ \E l : lists' = [lists EXCEPT ![b] = l] /\ ListsTyped(l)
            /\ \E s \in Syncs \cup {Nothing} : sync' = [sync EXCEPT ![b] = s]
      BY <1>1, <3>2, SynchronizeTyped
    <3> QED BY <1>1, <3>1, <3>3, OneSyncTyped
  <2>6. ASSUME NEW n \in DOMAIN lists[b], ListProfiles(b, n) PROVE SyncsTyped'
    <3> DEFINE l == lists[b]
               c == [l[n] EXCEPT !.reply = server]
    <3>1. /\ lists' = [lists EXCEPT ![b] = [l EXCEPT ![n] = c]]
          /\ UNCHANGED <<pending, sync>>
      BY <2>6 DEF ListProfiles, browserVars, ItemInv, PerBrowser, ListsKnow, IsSeq
    <3>2. /\ ListTyped(l[n]) /\ ListsTyped(l)
          /\ l[n] = [by |-> l[n].by, reply |-> l[n].reply, lost |-> l[n].lost,
                     overtaken |-> l[n].overtaken]
      BY <1>1 DEF SyncsTyped, ListsTyped, ItemInv, ListsKnow, ListKnows
    <3>3. c.by = l[n].by /\ c.lost = l[n].lost /\ c.overtaken = l[n].overtaken
      BY <3>2
    <3>4. ListTyped(c)
      BY <3>2, <3>3 DEF ListTyped
    <3> HIDE DEF c
    <3>5. ListsTyped([l EXCEPT ![n] = c])
      BY <3>2, <3>4 DEF ListsTyped
    <3> QED BY <1>1, <3>1, <3>5, OneSyncTyped
  <2>7. ASSUME NEW n \in DOMAIN lists[b], ReceiveList(b, n) PROVE SyncsTyped'
    BY <1>1, <2>7, DrainTyped
  <2> QED BY <1>6, <2>1, <2>2, <2>3, <2>4, <2>5, <2>6, <2>7 DEF Refresh
<1>7. ASSUME Crash PROVE SyncsTyped'
  <2>1. UNCHANGED <<pending, sync>>
    BY <1>7 DEF Crash, browserVars
  <2>2. ASSUME NEW b \in Browsers, NEW n \in DOMAIN lists'[b] PROVE ListTyped(lists'[b][n])
    <3> DEFINE c == lists[b][n]
               lost == c.reply = Nothing
    <3>1. n \in DOMAIN lists[b] /\ lists'[b][n] = [c EXCEPT !.lost = lost]
      BY <1>7, <2>2 DEF Crash
    <3>2. /\ ListTyped(c)
          /\ c = [by |-> c.by, reply |-> c.reply, lost |-> c.lost, overtaken |-> c.overtaken]
      BY <1>1, <3>1 DEF SyncsTyped, ListsTyped, ItemInv, ListsKnow, ListKnows
    <3>3. lost \in BOOLEAN
      OBVIOUS
    <3> HIDE DEF c, lost
    <3> QED BY <3>1, <3>2, <3>3 DEF ListTyped
  <2> QED BY <1>1, <2>1, <2>2 DEF SyncsTyped, ListsTyped
<1>8. Boot \/ UNCHANGED resourcesVars => UNCHANGED <<lists, pending, sync>>
  BY Zenon DEF Boot, resourcesVars, browserVars
<1> QED BY <1>2, <1>3, <1>4, <1>5, <1>6, <1>7, <1>8, Zenon DEF ResourcesNext

(* No step leaves anything without its types. *)
LEMMA TypesInvStep ==
  ItemInv /\ OrderInv /\ QuietInv /\ IdleInv /\ TypesInv /\ [ResourcesNext]_resourcesVars => TypesInv'
<1> SUFFICES ASSUME ItemInv, OrderInv, QuietInv, IdleInv, TypesInv, [ResourcesNext]_resourcesVars
             PROVE  TypesInv'
  OBVIOUS
<1>1. HubTyped' /\ PagesTyped' /\ SyncsTyped'
  BY HubTypedStep, PagesTypedStep, SyncsTypedStep DEF TypesInv
<1>2. CallsTyped(calls')
  BY CallsTypedStep
<1>3. (CallsTyped(calls))'
  BY <1>2 DEF CallsTyped, CallTyped
<1> QED BY <1>1, <1>3 DEF TypesInv

(* What the pages, the calls, the queues and the server hold keeps to its types, *)
(* whatever was lost or came late.                                            *)
THEOREM ResourcesTypes == ResourcesSpec => []ResourcesTypeOK
<1>1. ResourcesInit => ItemInv /\ OrderInv /\ QuietInv /\ IdleInv /\ TypesInv
  BY ItemInvInit, OrderInvInit, QuietInvInit, IdleInvInit, TypesInvInit
<1>2. ItemInv /\ OrderInv /\ QuietInv /\ IdleInv /\ TypesInv /\ [ResourcesNext]_resourcesVars
        => (ItemInv /\ OrderInv /\ QuietInv /\ IdleInv /\ TypesInv)'
  BY ItemInvStep, OrderInvStep, QuietInvStep, IdleInvStep, TypesInvStep
<1>3. ItemInv /\ OrderInv /\ QuietInv /\ TypesInv => ResourcesTypeOK
  BY TypesFollow
<1> QED BY <1>1, <1>2, <1>3, PTL DEF ResourcesSpec
=============================================================================
