------------------------------ MODULE Generator ------------------------------
(***************************************************************************)
(* Service.Generate: from a profile and the lists of subscriptions and rule  *)
(* sets to the configuration of the core, while subscriptions are refreshed  *)
(* and deleted.  The list of subscriptions is read first and the file of each *)
(* when an outbound first needs it; all the rest depends on the profile only. *)
(*                                                                         *)
(* What names something else is kept: ids in the profile, tags in the         *)
(* configuration.  A node is its id and its tag, a version of a subscription  *)
(* the sequence of its nodes, a pattern the set of tags it matches.  Left     *)
(* out: the other fields, those out of their range (invalid), the order of    *)
(* checks that each refuse the profile, and a script that fails.             *)
(***************************************************************************)
EXTENDS HttpClients, FiniteSets

CONSTANTS
  Profiles,
  Nodes,     \* the nodes of each version of each subscription
  NoVersion  \* the version of what is not there: no entry, no file, not yet read

Tags(items) == {items[i].tag : i \in DOMAIN items}

Subs == DOMAIN Nodes
VersionsOf(s) == 1 .. Len(Nodes[s])

ASSUME GeneratorAssumption ==
  /\ NoVersion = 0
  /\ Subs \cap {"Built-in", "Subscription"} = {}
  /\ \A s \in Subs : /\ IsList(Nodes[s]) /\ Nodes[s] # <<>>
                     /\ \A v \in VersionsOf(s) : IsList(Nodes[s][v])

(* The JSON of a rule may name anything; what this one names is there.          *)
NamesWhatIsThere(raw, p) ==
  LET names(key, tags) == key \in DOMAIN raw => raw[key] \in tags
      lists(key, tags) == key \in DOMAIN raw => ToSet(raw[key]) \subseteq tags
      enabled == {i \in DOMAIN p.inbounds : p.inbounds[i].enable} IN
  /\ names("outbound", Tags(p.outbounds)) /\ names("server", Tags(p.dns.servers))
  /\ lists("inbound", {p.inbounds[i].tag : i \in enabled})
  /\ lists("rule_set", Tags(p.route.rule_set))

(* Profiles as the pages write them: the groups refer to something, the inbounds *)
(* have their settings, JSON names what is there, and what a mixin and a script   *)
(* put in has its type.                                                       *)
ASSUME ProfilesAssumption ==
  \A p \in Profiles :
    /\ IsList(p.outbounds) /\ IsList(p.inbounds)
    /\ IsList(p.route.rules) /\ IsList(p.route.rule_set)
    /\ IsList(p.dns.servers) /\ IsList(p.dns.rules)
    /\ \A i \in DOMAIN p.outbounds : LET refs == p.outbounds[i].outbounds IN
         IsList(refs) /\ \A j \in DOMAIN refs : refs[j].id # ""
    /\ \A i \in DOMAIN p.inbounds : p.inbounds[i].configured
    /\ WellTyped(p.mixin.config) /\ WellTyped(p.script)
    /\ \A rule \in ToSet(p.route.rules) \cup ToSet(p.dns.rules) : NamesWhatIsThere(rule.raw, p)

VARIABLES
  subscribes,    \* data/subscribes.yaml: the version of each subscription's entry
  contents,      \* data/subscribes/: the version of each file
  profile,
  stage,
  subscriptions, \* the list that was read
  entries,       \* the files that were read
  at,            \* the outbound, and its reference, that is next
  members,       \* what the group at hand has so far
  groups,        \* the outbounds of the profile that are done
  proxies,       \* the nodes that need an outbound
  builtIns,      \* direct and block, if a group has them
  beforeClients, \* the configuration before its HTTP clients
  config

diskOfSubscriptions == <<subscribes, contents>>
outboundVars == <<at, members, groups, proxies, builtIns>>
generatorVars == <<subscribes, contents, profile, stage, subscriptions, entries,
                   outboundVars, beforeClients, config>>

-----------------------------------------------------------------------------
(* References by id.  An id that is left empty names nothing. *)

Find(items, id) == SelectInSeq(items, LAMBDA item : item.id = id)
Missing(items, id) == id # "" /\ Find(items, id) = 0
TagOf(items, id) == IF id = "" THEN "" ELSE items[Find(items, id)].tag
Field(key, value) == IF value = "" THEN Empty ELSE key := value
Field2(key, seq) == IF seq = <<>> THEN Empty ELSE key := seq

(* The items of a list that are in a set, in their order. *)
Chosen(items, set) ==
  FoldLeft(LAMBDA chosen, item : IF item \in set THEN Append(chosen, item) ELSE chosen, <<>>, items)

(* resolveOutboundTag, resolveDNSServerTag *)
MissingOutbound(id) == Missing(profile.outbounds, id)
OutboundTag(id) == TagOf(profile.outbounds, id)
MissingServer(id) == Missing(profile.dns.servers, id)
ServerTag(id) == TagOf(profile.dns.servers, id)

(* Mutant: a disabled inbound can be named. *)
InboundUnknown(id) == id = "" \/ Find(profile.inbounds, id) = 0

(* resolveEnabledInboundTag *)
InboundMissing(id) ==
  LET index == Find(profile.inbounds, id) IN
  id = "" \/ index = 0 \/ ~profile.inbounds[index].enable

(* resolveRuleSetTag *)
RuleSetMissing(id) == id = "" \/ Find(profile.route.rule_set, id) = 0

-----------------------------------------------------------------------------
(* Subscriptions *)

(* Mutant: a file is read whenever it is needed. *)
ReadAgain(s) == contents[s]

(* A file is read once. *)
Read(s) == IF entries[s] # NoVersion THEN entries[s] ELSE contents[s]

(* subscriptionEntries *)
Readable(s) == s \in Subs /\ subscriptions[s] # NoVersion /\ Read(s) # NoVersion

Outbound == profile.outbounds[at[1]]
Ref == Outbound.outbounds[at[2]]
AtRef == stage = "outbounds" /\ at[1] <= Len(profile.outbounds) /\ at[2] <= Len(Outbound.outbounds)

IsBuiltIn == Ref.type = "Built-in" /\ Ref.id \in {"direct", "block"}
IsLocal == Ref.type = "Built-in" /\ ~IsBuiltIn
IsWhole == Ref.type = "Subscription"
IsNode == Ref.type \notin {"Built-in", "Subscription"}

TagsRead(s) == [i \in DOMAIN Nodes[s][Read(s)] |-> Nodes[s][Read(s)][i].tag]

(* resolveSubscriptionProxyTag: the tag that the list has for the node.        *)
NodeTag(s, id) == LET listed == Nodes[s][subscriptions[s]] IN listed[Find(listed, id)].tag
NodeListed(s, id) == id # "" /\ Find(Nodes[s][subscriptions[s]], id) # 0

Available(s, id) ==
  {tag \in ToSet(TagsRead(s)) \cap Outbound.match : tag = NodeTag(s, id)}

(* appendUniqueProxy, for each of tags *)
AppendUnique(s, tags) ==
  FoldLeft(LAMBDA items, tag :
             IF Contains(items, [sub |-> s, tag |-> tag]) THEN items
             ELSE Append(items, [sub |-> s, tag |-> tag]), proxies, tags)

RefResolves ==
  /\ IsLocal => ~MissingOutbound(Ref.id)
  /\ IsWhole => Readable(Ref.id)
  /\ IsNode => /\ Readable(Ref.type) /\ NodeListed(Ref.type, Ref.id)
               /\ Available(Ref.type, Ref.id) # {}

-----------------------------------------------------------------------------
(* The rest of the configuration *)

(* generateInbounds; one without its settings is left out. *)
Inbounds ==
  LET used == Chosen(profile.inbounds,
                     {inbound \in ToSet(profile.inbounds) : inbound.enable /\ inbound.configured})
  IN [i \in DOMAIN used |-> ("tag" := used[i].tag)]

(* Rules that are disabled, and the place where new ones go, are left out.      *)
Counts(rule) == rule.enable /\ rule.id # "InsertionPoint"

MatchFields(rule) ==
  LET tags(ids, items) == [i \in DOMAIN ids |-> TagOf(items, ids[i])] IN
  Field2("inbound", tags(rule.inbound, profile.inbounds))
    ++ Field2("rule_set", tags(rule.rule_set, profile.route.rule_set))

MatchResolves(rule) ==
  /\ \A i \in DOMAIN rule.inbound : ~InboundMissing(rule.inbound[i])
  /\ \A i \in DOMAIN rule.rule_set : ~RuleSetMissing(rule.rule_set[i])

(* The keys that a rule gives as JSON come before those of its form.            *)
RouteRule(rule) ==
  rule.raw ++ MatchFields(rule) ++
  (IF rule.action = "inline" THEN Empty ELSE "action" := rule.action) ++
  (IF rule.action \in {"route", "bypass"} THEN Field("outbound", OutboundTag(rule.outbound)) ELSE Empty) ++
  (IF rule.action = "resolve" THEN Field("server", ServerTag(rule.server)) ELSE Empty)

RouteRuleValid(rule) ==
  /\ ~rule.invalid /\ MatchResolves(rule)
  /\ rule.action \in {"route", "bypass"} => ~MissingOutbound(rule.outbound)
  /\ rule.action = "resolve" => ~MissingServer(rule.server)
  /\ LET item == RouteRule(rule) IN
     /\ Text(item, "action") # ""
     /\ item.action = "route" => Text(item, "outbound") # ""

RuleSet(item) ==
  ("tag" := item.tag) ++ ("type" := item.type) ++
  (IF item.type = "remote" THEN Field("download_detour", OutboundTag(item.detour)) ELSE Empty)

RuleSetValid(item) ==
  /\ item.type = "remote" => ~MissingOutbound(item.detour)
  /\ item.type = "inline" => ~item.invalid

Mapped(items, Op(_)) == [i \in DOMAIN items |-> Op(items[i])]
Rules(rules, Op(_)) == Mapped(Chosen(rules, {rule \in ToSet(rules) : Counts(rule)}), Op)

(* generateRoute *)
Route ==
  ("rules" := Rules(profile.route.rules, RouteRule)) ++
  ("rule_set" := Mapped(profile.route.rule_set, RuleSet)) ++
  Field("final", OutboundTag(profile.route.final)) ++
  Field("default_domain_resolver", ServerTag(profile.route.resolver))

RouteValid ==
  /\ ~MissingOutbound(profile.route.final) /\ ~MissingServer(profile.route.resolver)
  /\ \A rule \in ToSet(profile.route.rules) : Counts(rule) => RouteRuleValid(rule)
  /\ \A item \in ToSet(profile.route.rule_set) : RuleSetValid(item)

(* Of the types with addresses to look up. *)
Dials(server) ==
  server.type \in {"local", "tcp", "udp", "tls", "quic", "https", "h3", "dhcp"}

Server(server) ==
  ("tag" := server.tag) ++ ("type" := server.type) ++
  (IF Dials(server) THEN Field("detour", OutboundTag(server.detour))
                           ++ Field("domain_resolver", ServerTag(server.resolver))
   ELSE Empty)

ServerValid(server) ==
  Dials(server) => ~MissingOutbound(server.detour) /\ ~MissingServer(server.resolver)

HasFakeIP == \E i \in DOMAIN profile.dns.servers : profile.dns.servers[i].type = "fakeip"

(* A rule for fake addresses needs a server of them. *)
Serves(rule) == Counts(rule) /\ ("__is_fake_ip" \in DOMAIN rule.raw => HasFakeIP)

DNSRule(rule) ==
  Dropping(rule.raw, {"__is_fake_ip"}) ++ MatchFields(rule) ++
  (IF rule.action = "inline" THEN Empty ELSE "action" := rule.action) ++
  (IF rule.action \in {"route", "evaluate"} THEN Field("server", ServerTag(rule.server)) ELSE Empty)

DNSRuleValid(rule) ==
  /\ ~rule.invalid /\ MatchResolves(rule)
  /\ rule.action \in {"route", "evaluate"} => ~MissingServer(rule.server)
  /\ LET item == DNSRule(rule) IN
     /\ Text(item, "action") # ""
     /\ item.action \in {"route", "evaluate"} => Text(item, "server") # ""

(* generateDNS *)
DNS ==
  ("servers" := Mapped(profile.dns.servers, Server)) ++
  ("rules" := Mapped(Chosen(profile.dns.rules, {rule \in ToSet(profile.dns.rules) : Serves(rule)}), DNSRule)) ++
  Field("final", ServerTag(profile.dns.final))

DNSValid ==
  /\ ~MissingServer(profile.dns.final)
  /\ \A server \in ToSet(profile.dns.servers) : ServerValid(server)
  /\ \A rule \in ToSet(profile.dns.rules) : Serves(rule) => DNSRuleValid(rule)

(* The outbounds of the profile, the nodes they need, direct and block.         *)
OutboundItems ==
  groups \o Mapped(proxies, LAMBDA proxy : ("type" := "proxy") ++ ("tag" := proxy.tag))
         \o Mapped(builtIns, LAMBDA tag : ("type" := tag) ++ ("tag" := tag))

(* deepAssign: maps are merged, anything else of src replaces that of dst.      *)
Maps == {"route", "dns"}
DeepAssign(dst, src) ==
  [key \in Maps \cap DOMAIN dst \cap DOMAIN src |-> src[key] ++ dst[key]] ++ src ++ dst

(* applyMixin *)
Mixed(generated) ==
  IF profile.mixin.priority = "gui" THEN DeepAssign(profile.mixin.config, generated)
                                    ELSE DeepAssign(generated, profile.mixin.config)

-----------------------------------------------------------------------------
(* Actions *)

(* newConfigGenerator reads the list. *)
Load ==
  /\ stage = "load"
  /\ stage' = "outbounds" /\ subscriptions' = subscribes
  /\ UNCHANGED <<diskOfSubscriptions, profile, entries, outboundVars, beforeClients, config>>

NextRef == at' = <<at[1], at[2] + 1>>

OutboundStep == UNCHANGED <<diskOfSubscriptions, profile, stage, subscriptions, beforeClients, config>>

AddBuiltIn ==
  /\ AtRef /\ IsBuiltIn
  /\ members' = Append(members, Ref.id)
  /\ builtIns' = IF Contains(builtIns, Ref.id) THEN builtIns ELSE Append(builtIns, Ref.id)
  /\ NextRef /\ OutboundStep /\ UNCHANGED <<entries, groups, proxies>>

AddLocal ==
  /\ AtRef /\ IsLocal /\ RefResolves
  /\ members' = Append(members, OutboundTag(Ref.id))
  /\ NextRef /\ OutboundStep /\ UNCHANGED <<entries, groups, proxies, builtIns>>

AddTags(s, tags) ==
  /\ entries' = [entries EXCEPT ![s] = Read(s)]
  /\ members' = members \o tags
  /\ proxies' = AppendUnique(s, tags)
  /\ NextRef /\ OutboundStep /\ UNCHANGED <<groups, builtIns>>

AddSubscription ==
  /\ AtRef /\ IsWhole /\ RefResolves
  /\ AddTags(Ref.id, Chosen(TagsRead(Ref.id), Outbound.match))

AddNode ==
  /\ AtRef /\ IsNode /\ RefResolves
  /\ AddTags(Ref.type, <<CHOOSE tag \in Available(Ref.type, Ref.id) : TRUE>>)

(* An outbound that is no group, or whose references are done.                  *)
AddOutbound ==
  /\ stage = "outbounds" /\ at[1] <= Len(profile.outbounds) /\ at[2] > Len(Outbound.outbounds)
  /\ groups' = Append(groups, ("type" := Outbound.type) ++ ("tag" := Outbound.tag)
                                ++ Field("dial", Outbound.dial) ++ ("outbounds" := members))
  /\ members' = <<>> /\ at' = <<at[1] + 1, 1>>
  /\ OutboundStep /\ UNCHANGED <<entries, proxies, builtIns>>

OutboundsDone == stage = "outbounds" /\ at[1] > Len(profile.outbounds)

FromProfile == UNCHANGED <<diskOfSubscriptions, profile, subscriptions, entries, outboundVars>>

(* GenerateConfig *)
GenerateConfig ==
  /\ OutboundsDone /\ RouteValid /\ DNSValid
  /\ config' = ("inbounds" := Inbounds) ++ ("outbounds" := OutboundItems)
                 ++ ("route" := Route) ++ ("dns" := DNS)
  /\ stage' = "generated"
  /\ FromProfile /\ UNCHANGED beforeClients

(* The mixin, and the script, which may change anything. *)
ApplyMixinAndScript ==
  /\ stage = "generated"
  /\ beforeClients' = DeepAssign(Mixed(config), profile.script)
  /\ stage' = "mixed"
  /\ FromProfile /\ UNCHANGED config

NormalizeClients ==
  /\ stage = "mixed" /\ ~NormalizeRefused(beforeClients)
  /\ config' = NormalizeRuleSetHTTPClients(beforeClients)
  /\ stage' = "done"
  /\ FromProfile /\ UNCHANGED beforeClients

Refused ==
  \/ AtRef /\ ~RefResolves
  \/ OutboundsDone /\ ~(RouteValid /\ DNSValid)
  \/ stage = "mixed" /\ NormalizeRefused(beforeClients)

Refuse ==
  /\ Refused
  /\ stage' = "refused"
  /\ FromProfile /\ UNCHANGED <<beforeClients, config>>

(* A refresh of a subscription, or an edit of its nodes, writes the file ...     *)
WriteFile(s) ==
  /\ subscribes[s] # NoVersion
  /\ \E version \in VersionsOf(s) \ {contents[s]} :
       contents' = [contents EXCEPT ![s] = version]
  /\ UNCHANGED subscribes

(* ... and then the list: with the nodes of the file; or, if a refresh failed     *)
(* halfway or a script converts a file edited by hand, with others.              *)
SaveEntry(s) ==
  /\ subscribes[s] # NoVersion
  /\ \E version \in VersionsOf(s) \ {subscribes[s]} :
       subscribes' = [subscribes EXCEPT ![s] = version]
  /\ UNCHANGED contents

(* Of a subscription that is deleted the entry is removed before the file.       *)
RemoveEntry(s) ==
  /\ subscribes[s] # NoVersion
  /\ subscribes' = [subscribes EXCEPT ![s] = NoVersion]
  /\ UNCHANGED contents

RemoveFile(s) ==
  /\ subscribes[s] = NoVersion /\ contents[s] # NoVersion
  /\ contents' = [contents EXCEPT ![s] = NoVersion]
  /\ UNCHANGED subscribes

(* What becomes of one that the profile does not name makes no difference.       *)
Named(s) ==
  \E i \in DOMAIN profile.outbounds : \E ref \in ToSet(profile.outbounds[i].outbounds) :
    s \in {ref.type, ref.id}

ChangeOf(s) ==
  /\ stage \in {"load", "outbounds"} /\ Named(s)
  /\ WriteFile(s) \/ SaveEntry(s) \/ RemoveEntry(s) \/ RemoveFile(s)
  /\ UNCHANGED <<profile, stage, subscriptions, entries, outboundVars, beforeClients, config>>

GeneratorInit ==
  /\ profile \in Profiles
  /\ stage = "load"
  /\ subscribes = [s \in Subs |-> 1] /\ contents = [s \in Subs |-> 1]
  /\ subscriptions = [s \in Subs |-> NoVersion] /\ entries = [s \in Subs |-> NoVersion]
  /\ at = <<1, 1>> /\ members = <<>> /\ groups = <<>> /\ proxies = <<>> /\ builtIns = <<>>
  /\ beforeClients = Empty /\ config = Empty

GeneratorNext ==
  \/ Load \/ AddBuiltIn \/ AddLocal \/ AddSubscription \/ AddNode \/ AddOutbound
  \/ GenerateConfig \/ ApplyMixinAndScript \/ NormalizeClients \/ Refuse
  \/ \E s \in Subs : ChangeOf(s)

GeneratorSpec == GeneratorInit /\ [][GeneratorNext]_generatorVars

-----------------------------------------------------------------------------
(* Properties *)

(* Versions are those of the subscriptions, and a node that several groups have   *)
(* gets one outbound.                                                         *)
GeneratorTypeOK ==
  /\ stage \in {"load", "outbounds", "generated", "mixed", "done", "refused"}
  /\ \A s \in Subs :
       {subscribes[s], contents[s], subscriptions[s], entries[s]} \subseteq VersionsOf(s) \cup {NoVersion}
  /\ at[1] = Len(groups) + 1
  /\ \A i, j \in DOMAIN proxies : proxies[i] = proxies[j] => i = j
  /\ ToSet(builtIns) \subseteq {"direct", "block"}

(* Whatever a profile names by id, in a rule, a group, a server or a default, is *)
(* in the configuration under the tag that is used for it: nothing that is       *)
(* disabled, filtered out or deleted leaves a tag behind.  (The inbounds have    *)
(* their settings.)                                                           *)
NoDangling ==
  stage = "generated" =>
    LET outbounds == Tags(config.outbounds)
        inbounds == Tags(config.inbounds)
        ruleSets == Tags(config.route.rule_set)
        servers == Tags(config.dns.servers)
        names(item, key, tags) == key \in DOMAIN item => item[key] \in tags
        lists(item, key, tags) == ToSet(Items(item, key)) \subseteq tags
        matches(rule) == lists(rule, "inbound", inbounds) /\ lists(rule, "rule_set", ruleSets) IN
    /\ \A i \in DOMAIN config.outbounds : lists(config.outbounds[i], "outbounds", outbounds)
    /\ names(config.route, "final", outbounds)
    /\ names(config.route, "default_domain_resolver", servers)
    /\ names(config.dns, "final", servers)
    /\ \A i \in DOMAIN config.route.rule_set :
         names(config.route.rule_set[i], "download_detour", outbounds)
    /\ \A i \in DOMAIN config.route.rules : LET rule == config.route.rules[i] IN
         matches(rule) /\ names(rule, "outbound", outbounds) /\ names(rule, "server", servers)
    /\ \A i \in DOMAIN config.dns.servers : LET server == config.dns.servers[i] IN
         names(server, "detour", outbounds) /\ names(server, "domain_resolver", servers)
    /\ \A i \in DOMAIN config.dns.rules : LET rule == config.dns.rules[i] IN
         matches(rule) /\ names(rule, "server", servers)

(* The groups of one configuration agree on what a subscription has, although   *)
(* its file may be replaced between one group and the next.                    *)
OneRead ==
  stage = "generated" =>
    \A i \in DOMAIN profile.outbounds, s \in Subs : LET outbound == profile.outbounds[i] IN
      {<<ref.type, ref.id>> : ref \in ToSet(outbound.outbounds)} = {<<"Subscription", s>>}
        => ToSet(groups[i].outbounds)
             = {node.tag : node \in ToSet(Nodes[s][entries[s]])} \cap outbound.match

(* A group has the very nodes it names by id, in a file that is as the list that  *)
(* was read has it.  Nothing is said of a subscription that has changed since    *)
(* the list was read, or whose entry and file a failure or a script has parted:  *)
(* its groups may have other nodes.  And the groups agree.                      *)
NodesAreMeant ==
  /\ OneRead
  /\ stage = "generated" =>
       \A i \in DOMAIN profile.outbounds : LET outbound == profile.outbounds[i] IN
         \A j \in DOMAIN outbound.outbounds :
           LET s == outbound.outbounds[j].type
               id == outbound.outbounds[j].id IN
           (s \in Subs /\ subscribes[s] = subscriptions[s] /\ contents[s] = subscribes[s])
             => \E node \in ToSet(Nodes[s][contents[s]]) :
                  node.id = id /\ node.tag \in ToSet(groups[i].outbounds)

(* A rule set is downloaded through the outbound, or with the settings of the    *)
(* direct outbound, that its detour, its client or the default meant before the  *)
(* clients were put in.                                                       *)
SameDownloads ==
  \A i \in Remote(beforeClients) :
    DownloadsThrough(config, config.route.rule_set[i])
      = DownloadsThrough(beforeClients, beforeClients.route.rule_set[i])

(* The core accepts it: no rule set has a detour of the old form, there is a      *)
(* client for each, and none that was put in dials through a direct outbound.    *)
AcceptedByCore ==
  /\ \A i \in Remote(config) : LET item == config.route.rule_set[i] IN
       /\ "download_detour" \notin DOMAIN item
       /\ HasClient(item) \/ Text(config.route, "default_http_client") # ""
  /\ LET given == {i \in Remote(beforeClients) : HasClient(beforeClients.route.rule_set[i])}
         made == {config.route.rule_set[i].http_client : i \in
                    {j \in Remote(config) \ given : HasClient(config.route.rule_set[j])}}
         default == IF Clients(beforeClients) = <<>> THEN ToSet(Clients(config)) ELSE {} IN
     \A client \in made \cup default : Text(client, "detour") # "" =>
       \A outbound \in Outbounds(config, client.detour) : outbound.type # "direct"

(* Putting in the HTTP clients changes no download, gives what the core accepts,  *)
(* and adds nothing to a configuration that has its clients.                    *)
ClientsFit ==
  stage = "done" =>
    /\ SameDownloads /\ AcceptedByCore
    /\ ~NormalizeRefused(config) /\ NormalizeRuleSetHTTPClients(config) = config
=============================================================================
