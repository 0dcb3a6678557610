------------------------------ MODULE Sources ------------------------------
(***************************************************************************)
(* The sources of nodes and rules, bridge/runtime's subscriptions and rule   *)
(* sets: a list of each in one file, the content of each source in a file of *)
(* its own, refreshes that fetch the contents, and users who edit settings   *)
(* and contents.                                                            *)
(*                                                                         *)
(* Versions are numbers: what call n writes has version n + 1.  What a        *)
(* handler does up to its next write of a file is one step; a call that is   *)
(* refused, or fails before it has written anything, is left out.  Left out,  *)
(* too: orders and events, which Resources.tla has, the hub of rule sets, and *)
(* what changes with the format of a rule set.  A rule set whose file holds   *)
(* the default, no rules, counts as one without content.                      *)
(***************************************************************************)
EXTENDS Naturals, Sequences

CONSTANTS
  Subscriptions, RuleSets,  \* their ids
  MaxWrites                 \* how many calls and crashes there are, in all

ASSUME SourcesAssumption ==
  /\ Subscriptions \cap RuleSets = {} /\ Subscriptions \cup RuleSets # {}
  /\ MaxWrites \in Nat

VARIABLES
  listed,    \* listed[i]: the entry of i in the file of its list
  content,   \* content[i]: the version in the file of i, or None
  revision,  \* revision[i]: the version that moved the revision of i last
  writes,    \* the calls, in the order they got their mutex
  editor,    \* an editor that a user has left open
  torn       \* sources whose entry and file a failure or a script has parted

diskVars == <<listed, content>>
sourcesVars == <<diskVars, revision, writes, editor, torn>>

-----------------------------------------------------------------------------
Sources == Subscriptions \cup RuleSets
None == 0
First == 1
AllVersions == None .. MaxWrites + 1

(* settings: what the user sets; nodes: the version of the content that the     *)
(* proxies of a subscription, or the count of a rule set, were taken from.     *)
Entry(settings, nodes) == [settings |-> settings, nodes |-> nodes]
Unlisted == Entry(None, None)
Listed(i) == listed[i] # Unlisted
Kin(i) == IF i \in Subscriptions THEN Subscriptions ELSE RuleSets

-----------------------------------------------------------------------------
(* Calls *)

(* Mutant: the mutex is not held while the network is waited for. *)
HeldButForFetches == {"writing", "saving", "removing"}

(* The phases of a call that holds the mutex of its list. *)
Held == {"fetching", "writing", "saving", "removing"}
Free(kin) == \A n \in DOMAIN writes : writes[n].phase \in Held => writes[n].kin # kin

Version(n) == n + 1
NextVersion == Version(Len(writes) + 1)

(* todo: what it has to fetch; changed: what it has refreshed or edited;         *)
(* converted: of that, what a script has made of files; loaded: the list in     *)
(* memory; base: what its user saw; passed: see Passes.                        *)
Call(op, i, phase) ==
  [op |-> op, id |-> i, kin |-> Kin(i), phase |-> phase, todo |-> {}, changed |-> {},
   converted |-> {}, loaded |-> listed, base |-> None, passed |-> FALSE]

(* What a call that is over was about is forgotten. *)
AnySource == CHOOSE i \in Sources : TRUE
Finished == [op |-> "any", id |-> AnySource, kin |-> Kin(AnySource), phase |-> "over",
             todo |-> {}, changed |-> {}, converted |-> {},
             loaded |-> [i \in Sources |-> Unlisted],
             base |-> None, passed |-> FALSE]

Begin(call) ==
  /\ Len(writes) < MaxWrites /\ Free(call.kin)
  /\ writes' = Append(writes, call)

Is(n, phase) == writes[n].phase = phase
Turns(n, w) == writes' = [writes EXCEPT ![n] = w]
Ends(n) == Turns(n, Finished)

-----------------------------------------------------------------------------
(* Editors *)

Closed == [id |-> AnySource, revision |-> None, settings |-> None,
           content |-> None, passed |-> FALSE]
JustOpened(i) == [id |-> i, revision |-> revision[i], settings |-> listed[i].settings,
                  content |-> content[i], passed |-> FALSE]

(* A user's who has just looked, or the one that was left open. *)
Editors == {JustOpened(i) : i \in {j \in Sources : Listed(j)}} \cup ({editor} \ {Closed})

(* GetSubscriptionContent, GetRuleSetContent, and the lists: under the mutex.    *)
OpenEditor(i) ==
  /\ editor = Closed /\ Listed(i) /\ Free(Kin(i)) /\ Len(writes) < MaxWrites
  /\ editor' = JustOpened(i)
  /\ UNCHANGED <<diskVars, revision, writes, torn>>

(* CheckItem: the item is listed and its revision has not moved. *)
Accepted(e) == Listed(e.id) /\ e.revision = revision[e.id]

(* An editor that has made its call is closed; another user may have the same.   *)
Uses(e) == \/ UNCHANGED editor
           \/ e = editor /\ editor' = Closed

(* The open editor of one of ids is passed: it changed under its revision.      *)
Passes(ids) == editor' = [editor EXCEPT !.passed = @ \/ (editor # Closed /\ editor.id \in ids)]

Edit(op, e, phase, base) ==
  [Call(op, e.id, phase) EXCEPT !.changed = {e.id}, !.base = base, !.passed = e.passed]

-----------------------------------------------------------------------------
(* Settings *)

(* With the file, if there is one, that a failed delete has left.               *)
Create(i) ==
  /\ ~Listed(i)
  /\ Begin([Call("create", i, "saving") EXCEPT
              !.changed = {i}, !.loaded[i] = Entry(NextVersion, None)])
  /\ UNCHANGED <<diskVars, revision, editor, torn>>

CreateSubscription(i) == i \in Subscriptions /\ Create(i)
CreateRuleSet(i) == i \in RuleSets /\ Create(i)

(* Traffic, times, proxies and counts stay those of the entry.                  *)
EditSettings(e) ==
  /\ Accepted(e)
  /\ Begin([Edit("settings", e, "saving", e.settings) EXCEPT !.loaded[e.id].settings = NextVersion])
  /\ Uses(e)
  /\ UNCHANGED <<diskVars, revision, torn>>

UpdateSubscriptionConfig(e) == e.id \in Subscriptions /\ EditSettings(e)
UpdateRuleSetConfig(e) == e.id \in RuleSets /\ EditSettings(e)

Delete(e) ==
  /\ Accepted(e)
  /\ Begin([Edit("delete", e, "saving", e.settings) EXCEPT !.loaded[e.id] = Unlisted])
  /\ Uses(e)
  /\ UNCHANGED <<listed, revision, torn>>

(* Of a subscription the entry is removed before the file ...                  *)
DeleteSubscription(e) == e.id \in Subscriptions /\ Delete(e) /\ UNCHANGED content

(* ... whose removal may fail, which is not reported.                          *)
RemoveContent(n) ==
  /\ Is(n, "removing")
  /\ \/ content' = [content EXCEPT ![writes[n].id] = None]
     \/ UNCHANGED content
  /\ Ends(n)
  /\ UNCHANGED <<listed, revision, editor, torn>>

(* Of a rule set the file is removed, or its removal fails, before the entry.   *)
DeleteRuleSet(e) ==
  /\ e.id \in RuleSets /\ Delete(e)
  /\ \/ content' = [content EXCEPT ![e.id] = None]
     \/ UNCHANGED content

-----------------------------------------------------------------------------
(* Contents *)

EditContent(e) ==
  /\ Accepted(e)
  /\ Begin(Edit("content", e, "writing", e.content))
  /\ Uses(e)
  /\ UNCHANGED <<diskVars, revision, torn>>

SaveSubscriptionContent(e) == e.id \in Subscriptions /\ EditContent(e)

(* ClearRuleSetContent saves the default. *)
SaveRuleSetContent(e) == e.id \in RuleSets /\ EditContent(e)

Fetch(ids, kin) ==
  /\ ids # {}
  /\ Begin([Call("refresh", CHOOSE i \in ids : TRUE, "fetching") EXCEPT !.todo = ids, !.kin = kin])
  /\ UNCHANGED <<diskVars, revision, editor, torn>>

UpdateSubscription(i) == i \in Subscriptions /\ Listed(i) /\ Fetch({i}, Subscriptions)
UpdateAllSubscriptions == Fetch({i \in Subscriptions : Listed(i)}, Subscriptions)
UpdateRuleSet(i) == i \in RuleSets /\ Listed(i) /\ Fetch({i}, RuleSets)
UpdateAllRuleSets == Fetch({i \in RuleSets : Listed(i)}, RuleSets)

Fetching(n, i) ==
  /\ Is(n, "fetching") /\ i \in writes[n].todo
  /\ UNCHANGED <<diskVars, revision, editor, torn>>

(* Source i, with this entry in memory, is to be written to its file, or done.  *)
Downloaded(n, i, entry) ==
  Turns(n, [writes[n] EXCEPT !.phase = "writing", !.id = i, !.loaded[i] = entry])
Done(n, i, entry, ids) ==
  Turns(n, [writes[n] EXCEPT !.todo = @ \ {i}, !.loaded[i] = entry, !.changed = @ \cup ids])
Converted(n, i, entry) ==
  Turns(n, [writes[n] EXCEPT !.todo = @ \ {i}, !.loaded[i] = entry, !.changed = @ \cup {i},
                             !.converted = @ \cup {i}])

(* Disabled, no answer in time, or none that can be parsed. *)
FetchFails(n, i) == Fetching(n, i) /\ Done(n, i, writes[n].loaded[i], {})

(* updateSubscriptionAt.  The nodes are fetched, or, of a subscription edited by  *)
(* hand, read from its file; they are in the entry in memory before the script   *)
(* runs, and stay there if it fails.  What the script makes of them is in the     *)
(* entry, with any settings it changes, but in the file only of those that are    *)
(* fetched.                                                                   *)
FetchSubscription(n, i) ==
  LET current == writes[n].loaded[i].settings IN
  /\ i \in Subscriptions /\ Fetching(n, i)
  /\ \/ \E nodes \in {Version(n), content[i]} \ {None} : Done(n, i, Entry(current, nodes), {})
     \/ \E settings \in {current, Version(n)} :
          \/ Downloaded(n, i, Entry(settings, Version(n)))
          \/ content[i] # None /\ Done(n, i, Entry(settings, content[i]), {i})
          \/ Converted(n, i, Entry(settings, Version(n)))

(* updateRulesetAt: a rule set edited by hand is read from its file, if any.    *)
FetchRuleset(n, i) ==
  LET settings == writes[n].loaded[i].settings IN
  /\ i \in RuleSets /\ Fetching(n, i)
  /\ \/ Downloaded(n, i, Entry(settings, Version(n)))
     \/ Done(n, i, Entry(settings, content[i]), {i})

(* Mutant: the entry does not follow the content that was written. *)
WriteContentAlone(n) ==
  LET i == writes[n].id
      next == IF writes[n].op = "refresh" THEN "fetching" ELSE "saving" IN
  /\ Is(n, "writing")
  /\ content' = [content EXCEPT ![i] = Version(n)]
  /\ Turns(n, [writes[n] EXCEPT !.phase = next, !.todo = @ \ {i}, !.changed = @ \cup {i}])
  /\ UNCHANGED <<listed, revision, editor, torn>>

(* The file of the source is written: the save of a content, or one of a refresh. *)
WriteContent(n) ==
  LET i == writes[n].id
      next == IF writes[n].op = "refresh" THEN "fetching" ELSE "saving" IN
  /\ Is(n, "writing")
  /\ content' = [content EXCEPT ![i] = Version(n)]
  /\ Turns(n, [writes[n] EXCEPT !.phase = next, !.todo = @ \ {i}, !.changed = @ \cup {i},
                                !.loaded[i].nodes = Version(n)])
  /\ UNCHANGED <<listed, revision, editor, torn>>

(* A refresh goes on with the next source; its entry in memory stays changed.   *)
WriteContentFails(n) ==
  /\ Is(n, "writing")
  /\ Turns(n, IF writes[n].op = "refresh"
              THEN [writes[n] EXCEPT !.phase = "fetching", !.todo = @ \ {writes[n].id}]
              ELSE Finished)
  /\ UNCHANGED <<diskVars, revision, editor, torn>>

-----------------------------------------------------------------------------
(* The list *)

Fetched(n) == Is(n, "fetching") /\ writes[n].todo = {}
Saves(n) == \/ Is(n, "saving")
            \/ Fetched(n) /\ writes[n].changed # {}

(* Nothing was refreshed. *)
NothingChanged(n) ==
  /\ Fetched(n) /\ writes[n].changed = {}
  /\ Ends(n)
  /\ UNCHANGED <<diskVars, revision, editor, torn>>

(* The sources whose entry in memory was changed by a refresh that failed.      *)
HalfRefreshed(n) == {i \in writes[n].kin \ writes[n].changed : writes[n].loaded[i] # listed[i]}

Reset(n) == {i \in writes[n].changed : writes[n].loaded[i].settings # listed[i].settings}

(* Mutant: a content that was saved moves no revision. *)
MovedBySettings(n) == Reset(n)

(* Whose revision a save moves: a refresh moves that of a source whose settings  *)
(* its script has changed, and leaves the others for editors that are open.     *)
Moved(n) == IF writes[n].op = "refresh" THEN Reset(n) ELSE writes[n].changed

(* What a refresh has changed without moving the revision. *)
RefreshedQuietly(n) ==
  IF writes[n].op = "refresh" THEN (writes[n].changed \ Reset(n)) \cup HalfRefreshed(n) ELSE {}

(* saveSubscriptions, saveRulesets: the whole list, as it was loaded and changed. *)
SaveList(n) ==
  LET w == writes[n] IN
  /\ Saves(n)
  /\ listed' = [i \in Sources |-> IF i \in w.kin THEN w.loaded[i] ELSE listed[i]]
  /\ revision' = [i \in Sources |-> IF i \in Moved(n) THEN Version(n) ELSE revision[i]]
  /\ torn' = CASE w.op = "settings" -> torn
              [] w.op = "create" -> torn \cup {i \in w.changed : content[i] # None}
              [] OTHER -> (torn \ w.changed) \cup HalfRefreshed(n) \cup w.converted
  /\ Passes(RefreshedQuietly(n))
  /\ Turns(n, IF w.op = "delete" /\ w.id \in Subscriptions
              THEN [w EXCEPT !.phase = "removing"] ELSE Finished)
  /\ UNCHANGED content

(* The sources whose files call n has written or removed. *)
Written(n) ==
  LET w == writes[n] IN
  {i \in w.kin : content[i] = Version(n) \/ (w.op = "delete" /\ i \in w.changed \cap RuleSets)}

(* What is in the files stays there, without a revision and an announcement.    *)
SaveListFails(n) ==
  /\ Saves(n)
  /\ torn' = torn \cup Written(n)
  /\ Passes(Written(n))
  /\ Ends(n)
  /\ UNCHANGED <<diskVars, revision>>

(* The server dies, and with it the calls under way and the revisions that       *)
(* editors hold.                                                              *)
ServerDies ==
  /\ Len(writes) < MaxWrites
  /\ torn' = torn \cup UNION {Written(n) : n \in {m \in DOMAIN writes : writes[m].phase \in Held}}
  /\ writes' = [n \in 1 .. Len(writes) + 1 |-> Finished]
  /\ editor' = Closed
  /\ UNCHANGED <<diskVars, revision>>

-----------------------------------------------------------------------------
SourcesInit ==
  /\ listed = [i \in Sources |-> Entry(First, First)]
  /\ content = [i \in Sources |-> First]
  /\ revision = [i \in Sources |-> First]
  /\ writes = <<>>
  /\ editor = Closed
  /\ torn = {}

SourceCalls(i) ==
  \/ OpenEditor(i)
  \/ CreateSubscription(i) \/ CreateRuleSet(i)
  \/ UpdateSubscription(i) \/ UpdateRuleSet(i)

EditorCalls(e) ==
  \/ UpdateSubscriptionConfig(e) \/ UpdateRuleSetConfig(e)
  \/ DeleteSubscription(e) \/ DeleteRuleSet(e)
  \/ SaveSubscriptionContent(e) \/ SaveRuleSetContent(e)

WriteStep(n) ==
  \/ \E i \in Sources : FetchFails(n, i) \/ FetchSubscription(n, i) \/ FetchRuleset(n, i)
  \/ WriteContent(n) \/ WriteContentFails(n) \/ RemoveContent(n)
  \/ NothingChanged(n) \/ SaveList(n) \/ SaveListFails(n)

SourcesNext ==
  \/ \E i \in Sources : SourceCalls(i)
  \/ \E e \in Editors : EditorCalls(e)
  \/ \E n \in DOMAIN writes : WriteStep(n)
  \/ UpdateAllSubscriptions \/ UpdateAllRuleSets
  \/ ServerDies

(* Nobody has to call, and whoever calls may wait for the network for ever.     *)
SourcesSpec == SourcesInit /\ [][SourcesNext]_sourcesVars

-----------------------------------------------------------------------------
(* Properties *)

(* The values every variable keeps to.                                        *)
SourcesTypeOK ==
  LET entries == [Sources -> [settings: AllVersions, nodes: AllVersions]] IN
  /\ listed \in entries
  /\ content \in [Sources -> AllVersions] /\ revision \in [Sources -> AllVersions]
  /\ writes \in Seq([op: {"create", "settings", "delete", "content", "refresh", "any"},
                     id: Sources, kin: {Subscriptions, RuleSets},
                     phase: {"fetching", "writing", "saving", "removing", "over"},
                     todo: SUBSET Sources, changed: SUBSET Sources,
                     converted: SUBSET Sources, loaded: entries, base: AllVersions, passed: BOOLEAN])
  /\ editor \in [id: Sources, revision: AllVersions, settings: AllVersions,
                 content: AllVersions, passed: BOOLEAN]
  /\ torn \subseteq Sources

(* An edit that is accepted replaces what its user saw: the settings, or the     *)
(* content.  Except what a refresh has replaced under an editor that was open,  *)
(* or what a list that could not be saved has left behind.                     *)
SavesAreInformed ==
  [][\A n \in DOMAIN writes' \ DOMAIN writes :
       LET w == writes'[n] IN
       ~w.passed =>
         /\ w.op \in {"settings", "delete"} => w.base = listed[w.id].settings
         /\ w.op = "content" => w.base = content[w.id]]_sourcesVars

(* Whatever refreshes, edits and failures meet, what is in a list is not          *)
(* replaced by something older, nothing that was deleted comes back, and nothing  *)
(* that was added is lost.                                                     *)
NothingIsUndone ==
  [][\A i \in Sources :
       /\ Listed(i) /\ Listed(i)' =>
            /\ listed'[i].settings >= listed[i].settings
            /\ i \notin torn => listed'[i].nodes >= listed[i].nodes
       /\ Listed(i) # Listed(i)' =>
            \E n \in DOMAIN writes :
              /\ Is(n, "saving") /\ writes[n].id = i
              /\ writes[n].op = (IF Listed(i) THEN "delete" ELSE "create")]_sourcesVars

(* When no call is under way, the entry of a source, its proxies or its count,   *)
(* describes the file that the core is going to be given.  Not so once a step     *)
(* between writing the one and the other has failed, or the script of a           *)
(* subscription edited by hand has made other nodes for the entry of what is in   *)
(* the file: until the next edit of the content, or a refresh that goes through   *)
(* without a script.                                                          *)
SourcesAgree ==
  Free(Subscriptions) /\ Free(RuleSets) =>
    \A i \in Sources \ torn : Listed(i) => listed[i].nodes = content[i]
=============================================================================
