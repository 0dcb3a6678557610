--------------------------- MODULE CorePageProofs ---------------------------
(***************************************************************************)
(* Proofs about CorePage, for any number of changes, calls and lost          *)
(* websockets: the types, and that a page that no event is on its way to      *)
(* shows the core as it is.                                                 *)
(*                                                                         *)
(* They rest on what is on the way: the changes that are newer than what the  *)
(* page knows are all of them on the wire or yet unpublished, in their order  *)
(* and each once, and the last one tells of the core as it is (OnTheWire);    *)
(* a reply that tells of the last change does so, too (RepliesAreTrue).       *)
(***************************************************************************)
EXTENDS CorePage, SequenceTheorems, TLAPS

RequestType ==
  [op: {"start", "stop", "status"}, state: States \cup {Unknown}, at: 0 .. MaxChanges,
   phase: {"sent", "starting", "stopping", "answered", "over"}]

Types ==
  /\ status \in States /\ shown \in States
  /\ changes \in 0 .. MaxChanges /\ past \in 0 .. MaxChanges
  /\ unpublished \in Seq(Announced) /\ wire \in Seq(Announced)
  /\ open \in BOOLEAN /\ drops \in 0 .. MaxDrops /\ misled \in BOOLEAN
  /\ requests \in Seq(RequestType)

(* A reply that tells of the last change carries the state as it is. *)
ReplyIsTrue(r) ==
  r.phase = "answered" /\ r.state # Unknown =>
    /\ r.at <= changes
    /\ r.at = changes => r.state = status

RepliesAreTrue == \A k \in DOMAIN requests : ReplyIsTrue(requests[k])

(* What the page has not seen is on its way, in the order of the changes; and with
   its websocket closed, nothing is on the wire. *)
OnTheWire ==
  /\ Len(unpublished) <= 1
  /\ past + Len(wire) + Len(unpublished) = changes
  /\ ~open => wire = <<>>
  /\ \A i \in 1 .. Len(unpublished) :
       unpublished[i].no = changes /\ unpublished[i].state = status
  /\ \A i \in 1 .. Len(wire) :
       wire[i].no = past + i /\ (wire[i].no = changes => wire[i].state = status)

(* A page that has seen the last change shows it, unless it was misled since. *)
Seen == ~misled /\ past = changes => shown = status

CorePageInv == Types /\ RepliesAreTrue /\ OnTheWire /\ Seen

-----------------------------------------------------------------------------
(* States and requests are what they are made of. *)
LEMMA Values ==
  /\ \A s \in {"STOPPED", "STARTING", "RUNNING", "STOPPING", "CRASHED"},
        n \in 0 .. MaxChanges : State(s, n) \in States
  /\ Unknown \notin States
  /\ \A op \in {"start", "stop", "status"}, state \in States \cup {Unknown},
        n \in 0 .. MaxChanges, phase \in {"sent", "starting", "stopping", "answered", "over"} :
       [op |-> op, phase |-> phase, state |-> state, at |-> n] \in RequestType
  /\ 0 \in 0 .. MaxChanges
  BY CorePageAssumption DEF State, States, Unknown, RequestType

(* A page that is opened shows the core as it is. *)
LEMMA Init == CorePageInit => CorePageInv
<1>. SUFFICES ASSUME CorePageInit PROVE CorePageInv
  OBVIOUS
<1>1. /\ unpublished = <<>> /\ wire = <<>> /\ requests = <<>>
      /\ Len(unpublished) = 0 /\ Len(wire) = 0 /\ Len(requests) = 0
  BY EmptySeq DEF CorePageInit
<1>2. Types
  <2>1. /\ unpublished \in Seq(Announced) /\ wire \in Seq(Announced)
        /\ requests \in Seq(RequestType)
    BY <1>1, EmptySeq
  <2>2. status \in States /\ shown \in States
    BY Values DEF CorePageInit
  <2>3. open \in BOOLEAN /\ misled \in BOOLEAN
    BY Zenon DEF CorePageInit
  <2>. QED BY <2>1, <2>2, <2>3, CorePageAssumption DEF CorePageInit, Types
<1>3. RepliesAreTrue
  BY <1>1 DEF RepliesAreTrue
<1>4. OnTheWire
  BY <1>1 DEF CorePageInit, OnTheWire
<1>. QED BY <1>2, <1>3, <1>4 DEF CorePageInit, CorePageInv, Seen

(* A list of requests of which one was put in the place of another.            *)
LEMMA Put ==
  ASSUME NEW q \in Seq(RequestType), NEW k \in DOMAIN q, NEW r \in RequestType
  PROVE  /\ [q EXCEPT ![k] = r] \in Seq(RequestType)
         /\ DOMAIN [q EXCEPT ![k] = r] = DOMAIN q
         /\ \A j \in DOMAIN q : [q EXCEPT ![k] = r][j] = IF j = k THEN r ELSE q[j]
  BY ExceptSeq, LenProperties

(* The state is changed, and all that is on the way is still so. *)
LEMMA ChangeDoes ==
  ASSUME CorePageInv, NEW new \in States, Change(new),
         UNCHANGED <<wire, open, drops, pageVars>>
  PROVE  /\ status' = new /\ changes' = changes + 1 /\ changes' \in 0 .. MaxChanges
         /\ unpublished' \in Seq(Announced) /\ OnTheWire' /\ Seen'
<1>1. /\ unpublished \in Seq(Announced) /\ Len(unpublished) = 0
      /\ status' = new /\ changes' = changes + 1 /\ changes' \in 1 .. MaxChanges
      /\ unpublished' = Append(unpublished, [state |-> new, no |-> changes'])
      /\ [state |-> new, no |-> changes'] \in Announced
  BY CorePageAssumption DEF CorePageInv, Types, Change, CanChange, Announced
<1>2. /\ unpublished' \in Seq(Announced) /\ Len(unpublished') = 1
      /\ unpublished'[1].no = changes' /\ unpublished'[1].state = new
  BY <1>1, AppendProperties
<1>3. /\ past \in Nat /\ changes \in Nat /\ Len(wire) \in Nat
      /\ past + Len(wire) = changes
      /\ \A i \in 1 .. Len(wire) : wire[i].no = past + i
      /\ ~open => wire = <<>>
  BY <1>1, LenProperties DEF CorePageInv, Types, OnTheWire
<1>4. UNCHANGED <<wire, open, past, shown, misled>>
  BY DEF pageVars
<1>5. OnTheWire'
  <2>1. \A i \in 1 .. Len(wire) : wire[i].no = past + i /\ wire[i].no # changes'
    BY <1>1, <1>3
  <2>2. \A i \in 1 .. Len(unpublished') : i = 1
    BY <1>2
  <2>. QED BY <1>1, <1>2, <1>3, <1>4, <2>1, <2>2, SMTT(30) DEF OnTheWire
<1>6. Seen'
  BY <1>1, <1>3, <1>4 DEF Seen
<1>. QED BY <1>1, <1>2, <1>5, <1>6

(* Replies that were made before a change, or stay while nothing changes, are    *)
(* answers still; those that are made tell of the state as it is.               *)
LEMMA AnswersStay ==
  ASSUME CorePageInv,
         \/ UNCHANGED <<status, changes>>
         \/ changes' = changes + 1 /\ changes' \in 0 .. MaxChanges
  PROVE  \A r \in RequestType : ReplyIsTrue(r) => ReplyIsTrue(r)'
<1>1. changes \in Nat
  BY CorePageAssumption DEF CorePageInv, Types
<1>. QED BY <1>1, CorePageAssumption DEF ReplyIsTrue, RequestType

(* A request becomes another one. *)
TurnsInto(k, r) == requests' = [requests EXCEPT ![k] = r]

LEMMA RequestStays ==
  ASSUME CorePageInv, NEW k \in DOMAIN requests, NEW r \in RequestType,
         TurnsInto(k, r), ReplyIsTrue(r)',
         \/ UNCHANGED <<status, changes>>
         \/ changes' = changes + 1 /\ changes' \in 0 .. MaxChanges
  PROVE  requests' \in Seq(RequestType) /\ RepliesAreTrue'
<1>1. requests \in Seq(RequestType) /\ \A j \in DOMAIN requests : requests[j] \in RequestType
  BY LenProperties DEF CorePageInv, Types
<1>2. /\ requests' \in Seq(RequestType) /\ DOMAIN requests' = DOMAIN requests
      /\ \A j \in DOMAIN requests : requests'[j] = IF j = k THEN r ELSE requests[j]
  BY <1>1, Put DEF TurnsInto
<1>3. ASSUME NEW j \in DOMAIN requests, j # k PROVE ReplyIsTrue(requests[j])'
  <2>1. ReplyIsTrue(requests[j])
    BY DEF CorePageInv, RepliesAreTrue
  <2>2. requests'[j] = requests[j]
    BY <1>2, <1>3
  <2>3. requests[j] \in RequestType
    BY <1>1
  <2>. QED BY <2>1, <2>2, <2>3, AnswersStay DEF ReplyIsTrue
<1>4. ReplyIsTrue(requests[k])'
  BY <1>2 DEF ReplyIsTrue
<1>. QED BY <1>2, <1>3, <1>4 DEF RepliesAreTrue

-----------------------------------------------------------------------------
(* An event goes on the wire, or is lost with the websocket. *)
LEMMA PublishStep ==
  ASSUME CorePageInv, NEW n \in DOMAIN unpublished, PublishCoreState(n)
  PROVE  CorePageInv'
<1>0. /\ unpublished \in Seq(Announced) /\ wire \in Seq(Announced)
      /\ DOMAIN unpublished = 1 .. Len(unpublished)
      /\ Len(unpublished) \in Nat /\ Len(wire) \in Nat /\ past \in Nat /\ changes \in Nat
  BY LenProperties, CorePageAssumption DEF CorePageInv, Types
<1>1. /\ Len(unpublished) = 1 /\ n = 1 /\ unpublished[1] \in Announced
      /\ unpublished[1].no = changes /\ unpublished[1].state = status
      /\ past + Len(wire) + 1 = changes
  BY <1>0, ElementOfSeq DEF CorePageInv, OnTheWire
<1>2. unpublished' = <<>>
  <2>1. unpublished' = [m \in 1 .. 0 |-> unpublished[IF m < n THEN m ELSE m + 1]]
    BY <1>1 DEF PublishCoreState
  <2>. QED BY <2>1
<1>3. unpublished' \in Seq(Announced) /\ Len(unpublished') = 0
  BY <1>2, EmptySeq
<1>4. RepliesAreTrue' /\ requests' = requests
  BY DEF PublishCoreState, CorePageInv, RepliesAreTrue, ReplyIsTrue
<1>5. UNCHANGED <<status, changes, open, drops, requests, shown>>
  BY DEF PublishCoreState
<1>6. CASE open
  <2>1. wire' = Append(wire, unpublished[1]) /\ UNCHANGED <<past, misled>>
    BY <1>0, <1>1, <1>6 DEF PublishCoreState
  <2>2. /\ wire' \in Seq(Announced) /\ Len(wire') = Len(wire) + 1
        /\ wire'[Len(wire) + 1] = unpublished[1]
        /\ \A i \in 1 .. Len(wire) : wire'[i] = wire[i]
    BY <1>0, <1>1, <2>1, AppendProperties
  <2>3. ASSUME NEW i \in 1 .. Len(wire')
        PROVE  wire'[i].no = past + i /\ (wire'[i].no = changes => wire'[i].state = status)
    <3>1. CASE i = Len(wire) + 1
      BY <3>1, <1>0, <1>1, <2>2
    <3>2. CASE i \in 1 .. Len(wire)
      BY <3>2, <2>2 DEF CorePageInv, OnTheWire
    <3>. QED BY <3>1, <3>2, <1>0, <1>1, <2>2
  <2>4. OnTheWire'
    BY <1>0, <1>1, <1>3, <1>5, <1>6, <2>1, <2>2, <2>3 DEF OnTheWire
  <2>. QED BY <1>3, <1>4, <1>5, <2>1, <2>2, <2>4 DEF CorePageInv, Types, Seen
<1>7. CASE ~open
  <2>1. past' = changes /\ misled' /\ UNCHANGED wire /\ wire = <<>> /\ Len(wire) = 0
    BY <1>0, <1>1, <1>7, EmptySeq DEF PublishCoreState, CorePageInv, OnTheWire
  <2>2. OnTheWire'
    BY <1>0, <1>1, <1>3, <1>5, <1>7, <2>1 DEF OnTheWire
  <2>. QED BY <1>0, <1>1, <1>3, <1>4, <1>5, <2>1, <2>2 DEF CorePageInv, Types, Seen
<1>. QED BY <1>6, <1>7 DEF CorePageInv, Types

(* What the service does for others. *)
LEMMA ElsewhereStep ==
  ASSUME CorePageInv, Elsewhere
  PROVE  CorePageInv'
<1>1. PICK new \in States : Change(new)
  <2>1. changes < MaxChanges
    BY DEF Elsewhere, Change
  <2>2. /\ State("RUNNING", changes + 1) \in States
        /\ \A s \in {"STOPPED", "STARTING", "RUNNING", "STOPPING", "CRASHED"} : State(s, 0) \in States
    BY <2>1, Values, CorePageAssumption DEF CorePageInv, Types
  <2>. QED BY <2>2 DEF Elsewhere
<1>2. /\ status' = new /\ changes' = changes + 1 /\ changes' \in 0 .. MaxChanges
      /\ unpublished' \in Seq(Announced) /\ OnTheWire' /\ Seen'
  BY <1>1, ChangeDoes DEF Elsewhere
<1>3. requests' = requests /\ \A k \in DOMAIN requests : requests[k] \in RequestType /\ ReplyIsTrue(requests[k])
  BY LenProperties DEF Elsewhere, CorePageInv, Types, RepliesAreTrue
<1>4. RepliesAreTrue'
  BY <1>2, <1>3, AnswersStay DEF RepliesAreTrue, ReplyIsTrue
<1>. QED BY <1>2, <1>3, <1>4 DEF CorePageInv, Types, Elsewhere, pageVars

(* A request that was sent is no answer. *)
LEMMA AskStep ==
  ASSUME CorePageInv, NEW op \in {"start", "stop", "status"}, Ask(op)
  PROVE  CorePageInv'
<1>. DEFINE r == [op |-> op, phase |-> "sent", state |-> Unknown, at |-> 0]
<1>1. r \in RequestType /\ r.phase = "sent"
  BY Values
<1>2. /\ requests' = Append(requests, r)
      /\ UNCHANGED <<status, changes, unpublished, wire, open, drops, pageVars>>
  BY DEF Ask
<1>. HIDE DEF r
<1>3. /\ requests' \in Seq(RequestType)
      /\ \A k \in DOMAIN requests' : requests'[k] = r \/ (k \in DOMAIN requests /\ requests'[k] = requests[k])
  <2>1. /\ requests \in Seq(RequestType) /\ DOMAIN requests = 1 .. Len(requests)
        /\ Len(requests) \in Nat
    BY LenProperties DEF CorePageInv, Types
  <2>2. /\ requests' \in Seq(RequestType) /\ Len(requests') = Len(requests) + 1
        /\ requests'[Len(requests) + 1] = r
        /\ \A k \in 1 .. Len(requests) : requests'[k] = requests[k]
    BY <1>1, <1>2, <2>1, AppendProperties
  <2>3. DOMAIN requests' = 1 .. Len(requests) + 1
    BY <2>2, LenProperties
  <2>4. ASSUME NEW k \in 1 .. Len(requests) + 1, k \notin 1 .. Len(requests)
        PROVE  requests'[k] = r
    BY <2>1, <2>2, <2>4
  <2>. QED BY <2>1, <2>2, <2>3, <2>4
<1>4. RepliesAreTrue'
  BY <1>1, <1>2, <1>3 DEF CorePageInv, RepliesAreTrue, ReplyIsTrue
<1>. QED BY <1>2, <1>3, <1>4 DEF CorePageInv, Types, OnTheWire, Seen, pageVars

(* The request is served: the state changes, or not, and the request goes on.   *)
LEMMA RequestServed ==
  ASSUME CorePageInv, NEW k \in DOMAIN requests, NEW r \in RequestType,
         TurnsInto(k, r), ReplyIsTrue(r)',
         Stays \/ \E new \in States : Change(new),
         UNCHANGED <<wire, open, drops, pageVars>>
  PROVE  CorePageInv'
<1>1. CASE Stays
  <2>1. requests' \in Seq(RequestType) /\ RepliesAreTrue'
    BY <1>1, RequestStays DEF Stays
  <2>. QED BY <1>1, <2>1 DEF CorePageInv, Types, OnTheWire, Seen, Stays, pageVars
<1>2. ASSUME NEW new \in States, Change(new) PROVE CorePageInv'
  <2>1. /\ status' = new /\ changes' = changes + 1 /\ changes' \in 0 .. MaxChanges
        /\ unpublished' \in Seq(Announced) /\ OnTheWire' /\ Seen'
    BY <1>2, ChangeDoes
  <2>2. requests' \in Seq(RequestType) /\ RepliesAreTrue'
    BY <2>1, RequestStays
  <2>. QED BY <2>1, <2>2 DEF CorePageInv, Types, pageVars
<1>. QED BY <1>1, <1>2

(* What a request becomes when it goes on, and when it is replied to.             *)
LEMMA GoesOn ==
  ASSUME CorePageInv, NEW k \in DOMAIN requests,
         NEW phase \in {"sent", "starting", "stopping", "over"}, Proceeds(k, phase)
  PROVE  \E r \in RequestType :
           TurnsInto(k, r) /\ r.phase # "answered"
<1>. DEFINE r == [requests[k] EXCEPT !.phase = phase]
<1>1. requests[k] \in RequestType
  BY LenProperties DEF CorePageInv, Types
<1>2. r \in RequestType /\ r.phase = phase
  BY <1>1 DEF RequestType
<1>3. TurnsInto(k, r)
  BY DEF Proceeds, TurnsInto
<1>. QED BY <1>2, <1>3

LEMMA IsRepliedTo ==
  ASSUME CorePageInv, NEW k \in DOMAIN requests,
         NEW state \in States \cup {Unknown}, NEW at \in 0 .. MaxChanges, Replies(k, state, at)
  PROVE  \E r \in RequestType :
           TurnsInto(k, r) /\ r.state = state /\ r.at = at
<1>. DEFINE r == [op |-> requests[k].op, phase |-> "answered", state |-> state, at |-> at]
<1>1. requests[k] \in RequestType
  BY LenProperties DEF CorePageInv, Types
<1>2. r \in RequestType /\ r.state = state /\ r.at = at
  BY <1>1 DEF RequestType
<1>3. TurnsInto(k, r)
  BY DEF Replies, TurnsInto
<1>. QED BY <1>2, <1>3

(* A call goes on, is refused, or is replied to with the state as it has become. *)
LEMMA RequestsServed ==
  ASSUME CorePageInv, NEW k \in DOMAIN requests,
         Stays \/ \E new \in States : Change(new),
         UNCHANGED <<wire, open, drops, pageVars>>,
         \/ \E phase \in {"sent", "starting", "stopping", "over"} : Proceeds(k, phase)
         \/ Refuses(k) \/ Replies(k, status', changes')
  PROVE  CorePageInv'
<1>1. status' \in States /\ changes' \in 0 .. MaxChanges
  <2>1. CASE Stays
    BY <2>1 DEF CorePageInv, Types, Stays
  <2>2. ASSUME NEW new \in States, Change(new) PROVE status' \in States /\ changes' \in 0 .. MaxChanges
    BY <2>2, ChangeDoes
  <2>. QED BY <2>1, <2>2
<1>2. PICK r \in RequestType :
        /\ TurnsInto(k, r)
        /\ r.phase # "answered" \/ r.state = Unknown \/ (r.state = status' /\ r.at = changes')
  <2>1. CASE \E phase \in {"sent", "starting", "stopping", "over"} : Proceeds(k, phase)
    <3>1. PICK phase \in {"sent", "starting", "stopping", "over"} : Proceeds(k, phase)
      BY <2>1
    <3>2. \E r \in RequestType : TurnsInto(k, r) /\ r.phase # "answered"
      BY <3>1, GoesOn
    <3>. QED BY <3>2
  <2>2. CASE Refuses(k)
    <3>1. Replies(k, Unknown, 0) /\ 0 \in 0 .. MaxChanges
      BY <2>2, Values DEF Refuses
    <3>2. \E r \in RequestType :
            TurnsInto(k, r) /\ r.state = Unknown /\ r.at = 0
      BY <3>1, IsRepliedTo
    <3>. QED BY <3>2
  <2>3. ASSUME NEW state \in States, NEW at \in 0 .. MaxChanges, Replies(k, state, at)
        PROVE  \E r \in RequestType :
                 TurnsInto(k, r) /\ r.state = state /\ r.at = at
    BY <2>3, IsRepliedTo
  <2>. QED BY <1>1, <2>1, <2>2, <2>3
<1>3. ReplyIsTrue(r)'
  BY <1>1, <1>2, CorePageAssumption DEF ReplyIsTrue
<1>. QED BY <1>2, <1>3, RequestServed

(* StartCore, StopCore and GetCoreStatus serve a call. *)
LEMMA StartStep ==
  ASSUME CorePageInv, NEW k \in DOMAIN requests, StartCore(k)
  PROVE  CorePageInv'
<1>1. Stays \/ \E new \in States : Change(new)
  <2>1. \/ Stays \/ Change(State("STARTING", 0)) \/ Change(State("STOPPED", 0))
        \/ Change(State("RUNNING", changes + 1))
    BY DEF StartCore, Becomes
  <2>2. Change(State("RUNNING", changes + 1)) => State("RUNNING", changes + 1) \in States
    BY Values, CorePageAssumption DEF Change, CorePageInv, Types
  <2>. QED BY <2>1, <2>2, Values
<1>2. /\ UNCHANGED <<wire, open, drops, pageVars>>
      /\ \/ \E phase \in {"sent", "starting", "stopping", "over"} : Proceeds(k, phase)
         \/ Refuses(k) \/ Replies(k, status', changes')
  BY DEF StartCore
<1>. QED BY <1>1, <1>2, RequestsServed

LEMMA StopStep ==
  ASSUME CorePageInv, NEW k \in DOMAIN requests, StopCore(k)
  PROVE  CorePageInv'
<1>1. Stays \/ \E new \in States : Change(new)
  <2>1. \/ Stays \/ Change(State("STOPPING", 0)) \/ Change(State("STOPPED", 0))
        \/ Change(State("CRASHED", 0))
    BY DEF StopCore, Becomes
  <2>. QED BY <2>1, Values
<1>2. /\ UNCHANGED <<wire, open, drops, pageVars>>
      /\ \/ \E phase \in {"sent", "starting", "stopping", "over"} : Proceeds(k, phase)
         \/ Refuses(k) \/ Replies(k, status', changes')
  <2>1. Stays => status' = status /\ changes' = changes
    BY DEF Stays
  <2>. QED BY <2>1 DEF StopCore
<1>. QED BY <1>1, <1>2, RequestsServed

LEMMA StatusStep ==
  ASSUME CorePageInv, NEW k \in DOMAIN requests, GetCoreStatus(k)
  PROVE  CorePageInv'
<1>1. Stays /\ Replies(k, status', changes') /\ UNCHANGED <<wire, open, drops, pageVars>>
  BY DEF GetCoreStatus, Stays
<1>. QED BY <1>1, RequestsServed

-----------------------------------------------------------------------------
(* The oldest event on the wire is the first change that the page has not seen. *)
LEMMA EventStep ==
  ASSUME CorePageInv, OnKernelStateChanged
  PROVE  CorePageInv'
<1>1. /\ wire \in Seq(Announced) /\ wire # <<>> /\ Len(wire) \in Nat /\ Len(wire) >= 1
      /\ past \in Nat /\ changes \in Nat /\ Len(unpublished) \in Nat
  BY LenProperties, EmptySeq, CorePageAssumption DEF OnKernelStateChanged, CorePageInv,
     Types
<1>2. /\ wire' \in Seq(Announced) /\ Len(wire') = Len(wire) - 1
      /\ \A i \in 1 .. Len(wire') : wire'[i] = wire[i + 1]
      /\ Head(wire) = wire[1] /\ wire[1] \in Announced
  BY <1>1, HeadTailProperties, LenProperties DEF OnKernelStateChanged
<1>3. /\ wire[1].no = past + 1 /\ (past + 1 = changes => wire[1].state = status)
      /\ past' = past + 1 /\ shown' = wire[1].state /\ misled' \in BOOLEAN
      /\ UNCHANGED <<status, changes, unpublished, open, drops, requests>>
  <2>1. 1 \in 1 .. Len(wire)
    BY <1>1
  <2>. QED BY <1>1, <1>2, <2>1 DEF OnKernelStateChanged, ApplyCoreState, CorePageInv,
              OnTheWire
<1>4. RepliesAreTrue'
  BY <1>3 DEF CorePageInv, RepliesAreTrue, ReplyIsTrue
<1>5. ASSUME NEW i \in 1 .. Len(wire')
      PROVE  wire'[i].no = past' + i /\ (wire'[i].no = changes => wire'[i].state = status)
  <2>1. i + 1 \in 1 .. Len(wire)
    BY <1>1, <1>2
  <2>2. /\ wire[i + 1].no = past + (i + 1)
        /\ wire[i + 1].no = changes => wire[i + 1].state = status
    BY <2>1 DEF CorePageInv, OnTheWire
  <2>. QED BY <2>2, <1>1, <1>2, <1>3
<1>6. OnTheWire'
  <2>1. /\ Len(unpublished) <= 1 /\ past + Len(wire) + Len(unpublished) = changes
        /\ \A i \in 1 .. Len(unpublished) :
             unpublished[i].no = changes /\ unpublished[i].state = status
        /\ open'
    BY <1>1, <1>3 DEF CorePageInv, OnTheWire
  <2>2. past' + Len(wire') + Len(unpublished') = changes'
    <3>1. /\ past' = past + 1 /\ Len(wire') = Len(wire) - 1
          /\ changes' = changes /\ Len(unpublished') = Len(unpublished)
      BY <1>2, <1>3
    <3>2. past + Len(wire) + Len(unpublished) = changes
      BY <2>1
    <3>. QED BY <1>1, <3>1, <3>2
  <2>. QED BY <1>3, <1>5, <2>1, <2>2 DEF OnTheWire
<1>7. Seen'
  BY <1>3 DEF Seen
<1>8. past' \in 0 .. MaxChanges /\ shown' \in States
  BY <1>1, <1>2, <1>3 DEF CorePageInv, Types, Announced, OnTheWire
<1>. QED BY <1>2, <1>3, <1>4, <1>6, <1>7, <1>8 DEF CorePageInv, Types

(* A reply is as new as the events seen, or the page is misled. *)
LEMMA AnswerStep ==
  ASSUME CorePageInv, NEW k \in DOMAIN requests, ReceiveAnswer(k)
  PROVE  CorePageInv'
<1>. DEFINE reply == requests[k]
            over == [op |-> "status", phase |-> "over", state |-> Unknown, at |-> 0]
<1>1. /\ reply \in RequestType /\ reply.phase = "answered" /\ ReplyIsTrue(reply)
      /\ UNCHANGED <<past, status, changes, unpublished, wire, open, drops>>
  BY LenProperties DEF ReceiveAnswer, CorePageInv, Types, RepliesAreTrue
<1>2. OnTheWire'
  BY <1>1 DEF CorePageInv, OnTheWire
<1>3. CASE reply.state = Unknown
  <2>. DEFINE r == [reply EXCEPT !.op = "status", !.phase = "sent"]
  <2>1. r \in RequestType /\ r.phase = "sent"
    BY <1>1 DEF RequestType
  <2>2. TurnsInto(k, r) /\ UNCHANGED <<shown, misled>>
    BY <1>3 DEF ReceiveAnswer, TurnsInto
  <2>. HIDE DEF r
  <2>3. requests' \in Seq(RequestType) /\ RepliesAreTrue'
    BY <1>1, <2>1, <2>2, RequestStays DEF ReplyIsTrue
  <2>. QED BY <1>1, <1>2, <2>2, <2>3 DEF CorePageInv, Types, Seen
<1>4. CASE reply.state # Unknown
  <2>1. over \in RequestType /\ over.phase = "over"
    BY Values
  <2>2. /\ TurnsInto(k, over)
        /\ shown' = reply.state /\ misled' = (reply.at < past')
    BY <1>1, <1>4 DEF ReceiveAnswer, ApplyCoreState, TurnsInto
  <2>. HIDE DEF over
  <2>3. requests' \in Seq(RequestType) /\ RepliesAreTrue'
    BY <1>1, <2>1, <2>2, RequestStays DEF ReplyIsTrue
  <2>4. /\ reply.at <= changes /\ (reply.at = changes => reply.state = status)
        /\ reply.at \in Nat /\ changes \in Nat /\ past \in Nat
    BY <1>1, <1>4, CorePageAssumption DEF ReplyIsTrue, CorePageInv, Types, RequestType
  <2>5. misled' \in BOOLEAN /\ (~misled' => ~(reply.at < past'))
    <3>1. CASE reply.at < past'
      BY <3>1, <2>2, Zenon
    <3>2. CASE ~(reply.at < past')
      <4>1. misled' = (reply.at < past')
        BY <2>2
      <4>2. (reply.at < past') = FALSE
        BY <3>2
      <4>. QED BY <4>1, <4>2, <3>2
    <3>. QED BY <3>1, <3>2
  <2>6. shown' \in States
    BY <1>1, <1>4, <2>2 DEF RequestType
  <2>7. Seen'
    BY <1>1, <2>2, <2>4, <2>5 DEF Seen
  <2>. QED BY <1>1, <1>2, <2>3, <2>5, <2>6, <2>7 DEF CorePageInv, Types
<1>. QED BY <1>3, <1>4

(* The websocket is lost with what was on the wire, or opened again. *)
LEMMA LoseStep ==
  ASSUME CorePageInv, LoseWebSocket
  PROVE  CorePageInv'
<1>1. /\ wire \in Seq(Announced) /\ Len(wire) \in Nat /\ past \in Nat /\ changes \in Nat
      /\ Len(unpublished) \in Nat
  BY LenProperties, CorePageAssumption DEF CorePageInv, Types
<1>2. /\ wire' = <<>> /\ wire' \in Seq(Announced) /\ Len(wire') = 0 /\ ~open'
      /\ drops' \in 0 .. MaxDrops
      /\ UNCHANGED <<status, changes, unpublished, requests, shown>>
  BY EmptySeq, CorePageAssumption DEF LoseWebSocket, CorePageInv, Types
<1>6. open' \in BOOLEAN /\ Len(unpublished) <= 1
      /\ past + Len(wire) + Len(unpublished) = changes
      /\ \A j \in 1 .. Len(unpublished) :
           unpublished[j].no = changes /\ unpublished[j].state = status
  BY DEF LoseWebSocket, CorePageInv, OnTheWire
<1>3. RepliesAreTrue'
  BY <1>2 DEF CorePageInv, RepliesAreTrue, ReplyIsTrue
<1>4. CASE wire = <<>>
  <2>1. Len(wire) = 0 /\ UNCHANGED <<past, misled>>
    BY <1>4, EmptySeq DEF LoseWebSocket
  <2>2. OnTheWire'
    BY <1>1, <1>2, <1>6, <2>1 DEF OnTheWire
  <2>3. Types'
    BY <1>2, <1>6, <2>1 DEF CorePageInv, Types
  <2>. QED BY <1>2, <1>3, <2>1, <2>2, <2>3 DEF CorePageInv, Seen
<1>5. CASE wire # <<>>
  <2>1. /\ Len(wire) \in 1 .. Len(wire) /\ misled' /\ misled' \in BOOLEAN
        /\ past' = wire[Len(wire)].no
    BY <1>1, <1>5, EmptySeq DEF LoseWebSocket
  <2>2. past' = past + Len(wire) /\ past' \in 0 .. MaxChanges
    <3>1. /\ wire[Len(wire)].no = past + Len(wire)
          /\ past + Len(wire) + Len(unpublished) = changes
      BY <2>1 DEF CorePageInv, OnTheWire
    <3>. QED BY <1>1, <2>1, <3>1, CorePageAssumption DEF CorePageInv, Types
  <2>3. OnTheWire'
    BY <1>1, <1>2, <1>6, <2>2 DEF OnTheWire
  <2>4. Types'
    BY <1>2, <1>6, <2>1, <2>2 DEF CorePageInv, Types
  <2>. QED BY <1>2, <1>3, <2>1, <2>3, <2>4 DEF CorePageInv, Seen
<1>. QED BY <1>4, <1>5

LEMMA OpenStep ==
  ASSUME CorePageInv, OpenWebSocket
  PROVE  CorePageInv'
  BY DEF OpenWebSocket, CorePageInv, Types, RepliesAreTrue, ReplyIsTrue, OnTheWire, Seen,
     pageVars

(* The invariant is inductive, and holds. *)
LEMMA Step == CorePageInv /\ [CorePageNext]_corePageVars => CorePageInv'
<1>1. CASE CorePageInv /\ CorePageNext
  BY <1>1, PublishStep, ElsewhereStep, AskStep, StartStep, StopStep, StatusStep,
     EventStep, AnswerStep, LoseStep, OpenStep
  DEF CorePageNext
<1>2. CASE CorePageInv /\ UNCHANGED corePageVars
  BY <1>2 DEF corePageVars, pageVars, CorePageInv, Types, RepliesAreTrue, ReplyIsTrue,
     OnTheWire, Seen
<1>. QED BY <1>1, <1>2

LEMMA InvHolds == CorePageSpec => []CorePageInv
  BY Init, Step, PTL DEF CorePageSpec

(* The values every variable keeps to, whatever the page asks and loses. *)
THEOREM CorePageTypes == CorePageSpec => []CorePageTypeOK
<1>1. CorePageInv => CorePageTypeOK
  BY DEF CorePageInv, Types, RequestType, CorePageTypeOK
<1>. QED BY <1>1, InvHolds, PTL

(* The store of the page shows the core as it is when no event is on its way, but
   for a reply that events had overtaken or events lost with the websocket. *)
THEOREM PageShowsTheCore == CorePageSpec => []ShownIsTrue
<1>1. CorePageInv => ShownIsTrue
  <2>. SUFFICES ASSUME CorePageInv, unpublished = <<>>, wire = <<>>, ~misled PROVE shown = status
    BY DEF ShownIsTrue
  <2>1. Len(unpublished) = 0 /\ Len(wire) = 0 /\ past \in Nat
    BY EmptySeq, CorePageAssumption DEF CorePageInv, Types
  <2>. QED BY <2>1 DEF CorePageInv, OnTheWire, Seen
<1>. QED BY <1>1, InvHolds, PTL
=============================================================================
