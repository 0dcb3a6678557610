----------------------------- MODULE MCGenerator -----------------------------
(***************************************************************************)
(* Profiles for Generator, in three families: outbounds while subscriptions  *)
(* change; rules and servers; rule sets with mixins and scripts.             *)
(***************************************************************************)
EXTENDS Generator

ruleSetDefaultHTTPClientTag == "webui-rule-set-default"

MCItoa == [n \in 0 .. 2 |-> ToString(n)]
MCDefaultTags ==
  [n \in 1 .. 3 |-> ruleSetDefaultHTTPClientTag \o (IF n = 1 THEN "" ELSE "-" \o ToString(n))]

Node(id, tag) == [id |-> id, tag |-> tag]

(* Of the first a node goes, and the other is renamed by hand to its name.       *)
MCNodes ==
  [first |-> << <<Node("a", "A"), Node("b", "B")>>, <<Node("b", "A")>> >>,
   second |-> << <<Node("c", "C"), Node("d", "A")>> >>]

AllTags == {"A", "B", "C"}

Ref_(type, id) == [type |-> type, id |-> id]
Group(name, refs, match) ==
  [id |-> name, tag |-> name, type |-> "selector", outbounds |-> refs, match |-> match, dial |-> ""]
DirectOutbound == [id |-> "plain", tag |-> "plain", type |-> "direct", outbounds |-> <<>>,
                   match |-> {}, dial |-> "settings"]

In(id, enable) == [id |-> id, tag |-> id, enable |-> enable, configured |-> TRUE]

NoMixin == [priority |-> "mixin", config |-> Empty]
NoRoute == [final |-> "", resolver |-> "", rules |-> <<>>, rule_set |-> <<>>]
NoDNS == [final |-> "", servers |-> <<>>, rules |-> <<>>]

Profile(outbounds, inbounds, route, dns, mixin, script) ==
  [outbounds |-> outbounds, inbounds |-> inbounds, route |-> route, dns |-> dns,
   mixin |-> mixin, script |-> script]

-----------------------------------------------------------------------------
Refs == {Ref_("Built-in", "direct"), Ref_("Built-in", "plain"), Ref_("Built-in", "gone"),
         Ref_("Subscription", "first"), Ref_("Subscription", "second"),
         Ref_("first", "a"), Ref_("first", "b"), Ref_("second", "c"), Ref_("first", "gone")}

(* One of each kind, with what they share with the others. *)
SomeRefs == {Ref_("Built-in", "direct"), Ref_("Subscription", "first"), Ref_("first", "a"),
             Ref_("second", "c")}

LastRefs == {Ref_("Subscription", "first"), Ref_("first", "b")}

WithTwoGroups(r, m, q, p) ==
  Profile(<<Group("one", <<r>>, m), Group("two", <<q, p>>, AllTags), DirectOutbound>>, <<>>,
          [NoRoute EXCEPT !.final = "one"], NoDNS, NoMixin, Empty)

(* A group of each kind, with a match or without, beside one that shares nodes    *)
(* with it; pairs of groups.                                                  *)
WithGroups ==
  {WithTwoGroups(r, m, Ref_("Subscription", "first"), Ref_("first", "b")) :
     r \in Refs, m \in {AllTags, {"B"}}}
  \cup {WithTwoGroups(r, AllTags, q, p) : r \in SomeRefs, q \in SomeRefs, p \in LastRefs}

-----------------------------------------------------------------------------
Rule(action) == [id |-> "rule", enable |-> TRUE, action |-> action, inbound |-> <<>>,
                 rule_set |-> <<>>, outbound |-> "", server |-> "", raw |-> Empty, invalid |-> FALSE]

RouteRules ==
  {[Rule(action) EXCEPT !.inbound = i, !.outbound = o] :
     action \in {"route", "bypass", "reject"}, i \in {<<>>, <<"in">>, <<"in", "other">>},
     o \in {"", "plain", "gone"}}
  \cup {[Rule("resolve") EXCEPT !.server = v] : v \in {"", "local", "gone"}}
  \cup {[Rule("inline") EXCEPT !.raw = r] :
          r \in {Empty, "action" := "sniff", "action" := "route", ("action" := "route") ++ ("outbound" := "plain")}}
  \cup {[Rule("reject") EXCEPT !.rule_set = <<r>>, !.enable = e] : r \in {"set", "gone"}, e \in BOOLEAN}
  \cup {[Rule("reject") EXCEPT !.id = "InsertionPoint", !.inbound = <<"gone">>],
        [Rule("sniff") EXCEPT !.invalid = TRUE]}

DNSRules ==
  {[Rule(action) EXCEPT !.server = v, !.inbound = i] :
     action \in {"route", "reject"}, v \in {"", "local", "gone"}, i \in {<<>>, <<"other">>}}
  \cup {[Rule("route") EXCEPT !.server = "fake", !.raw = "__is_fake_ip" := TRUE],
        [Rule("inline") EXCEPT !.raw = "action" := "evaluate"],
        [Rule("reject") EXCEPT !.rule_set = <<"set">>]}

Server_(id, type, detour, resolver) ==
  [id |-> id, tag |-> id, type |-> type, detour |-> detour, resolver |-> resolver]

Servers ==
  {<<Server_("local", "https", detour, resolver)>> \o rest :
     detour \in {"", "one", "gone"}, resolver \in {"", "local", "gone"},
     rest \in {<<>>, <<Server_("fake", "fakeip", "", "")>>}}

InlineSet == [id |-> "set", tag |-> "set", type |-> "inline", detour |-> "", invalid |-> FALSE]

WithRule(enable, rule, servers, dnsRule) ==
  Profile(<<Group("one", <<Ref_("Built-in", "block")>>, AllTags), DirectOutbound>>,
          <<In("in", TRUE), In("other", enable)>>,
          [final |-> "one", resolver |-> "local", rules |-> <<rule>>, rule_set |-> <<InlineSet>>],
          [final |-> "local", servers |-> servers, rules |-> <<dnsRule>>], NoMixin, Empty)

(* Route rules with one server; servers with one rule; DNS rules with and       *)
(* without the server that only some of them can name.                        *)
WithRules ==
  {WithRule(e, rule, <<Server_("local", "udp", "", "")>>, Rule("reject")) :
     e \in BOOLEAN, rule \in RouteRules}
  \cup {WithRule(TRUE, Rule("reject"), servers, Rule("reject")) : servers \in Servers}
  \cup {WithRule(e, Rule("reject"), servers, rule) :
          e \in BOOLEAN, servers \in {s \in Servers : s[1].detour = "one" /\ s[1].resolver = "local"},
          rule \in DNSRules}

-----------------------------------------------------------------------------
Remote_(id, detour) ==
  [id |-> id, tag |-> id, type |-> "remote", detour |-> detour, invalid |-> FALSE]

RemoteSets == {<<Remote_("first", d)>> \o rest :
                 d \in {"", "one", "plain", "gone"}, rest \in {<<>>, <<Remote_("second", "")>>, <<InlineSet>>}}

Client(tag, how, value) == Field("tag", tag) ++ Field(how, value)

Changes ==
  {Empty,
   "http_clients" := <<Client("own", "detour", "one")>>,
   "http_clients" := <<Client("", "detour", "one")>>,
   "http_clients" := <<Client("", "detour", "one"), Client(ruleSetDefaultHTTPClientTag, "dial", "own")>>,
   "http_clients" := <<Client("own", "detour", "one"), Client("own", "dial", "own")>>,
   ("http_clients" := <<Client("own", "detour", "gone"), Client("last", "dial", "own")>>)
     ++ ("route" := ("default_http_client" := "last")),
   "route" := ("default_http_client" := "gone"),
   "route" := ("final" := "plain"),
   "route" := ("final" := "end"),
   ("endpoints" := <<"tag" := "end">>) ++ ("route" := ("final" := "end")),
   "route" := ("rule_set" := <<("tag" := "set") ++ ("type" := "remote")
                                 ++ ("http_client" := ("shared" := "own"))>>),
   "route" := ("rule_set" := <<("tag" := "set") ++ ("type" := "remote") ++ ("download_detour" := "plain")
                                 ++ ("http_client" := Client("", "detour", "one"))>>),
   "outbounds" := <<>>,
   ("outbounds" := <<>>) ++ ("route" := ("final" := "direct")),
   "outbounds" := <<"type" := "vless", ("type" := "direct") ++ ("tag" := "plain")>>}

Scripts == {Empty, "route" := ("final" := "one"), "http_clients" := <<Client("own", "detour", "one")>>}

WithRemote(final, sets, priority, mixin, script) ==
  Profile(<<Group("one", <<Ref_("Built-in", "direct")>>, AllTags), DirectOutbound>>, <<>>,
          [NoRoute EXCEPT !.final = final, !.rule_set = sets], NoDNS,
          [priority |-> priority, config |-> mixin], script)

(* Rule sets that nothing changes; mixins over rule sets; mixins and scripts.    *)
WithRemoteSets ==
  {WithRemote(final, sets, "mixin", Empty, Empty) : final \in {"", "plain"}, sets \in RemoteSets}
  \cup {WithRemote("plain", sets, priority, mixin, Empty) :
          sets \in {s \in RemoteSets : s[1].detour \in {"", "one"}},
          priority \in {"mixin", "gui"}, mixin \in Changes}
  \cup {WithRemote(final, <<Remote_("first", "")>>, priority, mixin, script) :
          final \in {"", "plain"}, priority \in {"mixin", "gui"}, mixin \in Changes,
          script \in Scripts}

MCProfiles == WithGroups \cup WithRules \cup WithRemoteSets
=============================================================================
