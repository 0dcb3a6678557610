----------------------------- MODULE HttpClients -----------------------------
(***************************************************************************)
(* normalizeRuleSetHTTPClients: how a generated configuration says through   *)
(* which outbound each remote rule set is downloaded.  The profile names an   *)
(* outbound (download_detour) or leaves it to the default one; the core wants *)
(* HTTP clients, which a mixin or a script may have given.                   *)
(*                                                                         *)
(* A map of the configuration is a function whose domain is the keys it has. *)
(* An HTTP client is a map with "tag" and "detour", or "dial" for the network *)
(* settings of a direct outbound; the http_client of a rule set is one, or   *)
(* the name, "shared", of one; null or an empty name is none.  Left out:       *)
(* values of a wrong type, which are refused.                               *)
(***************************************************************************)
EXTENDS Integers, Sequences, SequencesExt

CONSTANTS
  Itoa,        \* strconv.Itoa, of the indexes there are
  DefaultTags  \* the names of nextTag: webui-rule-set-default, the same with -2, ...

IsList(s) == s \in Seq(ToSet(s))

ASSUME NamesAssumption ==
  /\ 0 \in DOMAIN Itoa /\ Itoa[0] # ""
  /\ IsList(DefaultTags)
  /\ \A n \in DOMAIN DefaultTags : DefaultTags[n] # ""
  /\ \A m, n \in DOMAIN DefaultTags : DefaultTags[m] = DefaultTags[n] => m = n

(* What :> and @@ are in TLC, which has no definitions of them to prove from.  *)
key := value == [k \in {key} |-> value]
first ++ second ==
  [k \in DOMAIN first \cup DOMAIN second |-> IF k \in DOMAIN first THEN first[k] ELSE second[k]]

Empty == [key \in {} |-> key]
Text(map, key) == IF key \in DOMAIN map THEN map[key] ELSE ""
Items(map, key) == IF key \in DOMAIN map THEN map[key] ELSE <<>>
Set(map, key, value) == (key := value) ++ map
Dropping(map, keys) == [key \in DOMAIN map \ keys |-> map[key]]

-----------------------------------------------------------------------------
(* Outbounds by their tags; the index is the tag of one that has none *)

IndexedTag(items, i) == IF Text(items[i], "tag") = "" THEN Itoa[i - 1] ELSE items[i].tag
Tagged(items, tag) == {i \in DOMAIN items : IndexedTag(items, i) = tag}

(* The core makes this outbound when there is none and no default.             *)
DirectIsImplied(config) == Items(config, "outbounds") = <<>> /\ Text(config.route, "final") = ""

ThroughEndpoint == [type |-> "endpoint"]

(* outboundTags.  Of two with one tag the later counts, an outbound before an   *)
(* endpoint.                                                                  *)
Outbounds(config, tag) ==
  LET outbounds == Items(config, "outbounds")
      found == Tagged(outbounds, tag) IN
  IF tag = "direct" /\ DirectIsImplied(config) THEN {[type |-> "direct"]}
  ELSE IF found # {} THEN {outbounds[Max(found)]}
  ELSE IF Tagged(Items(config, "endpoints"), tag) # {} THEN {ThroughEndpoint}
  ELSE {}

Known(config, tag) == Outbounds(config, tag) # {}

(* forOutbound: the core rejects a detour to a direct outbound.                *)
ForOutbound(config, tag) ==
  LET outbound == CHOOSE o \in Outbounds(config, tag) : TRUE IN
  IF outbound.type = "direct" THEN "dial" := Text(outbound, "dial") ELSE "detour" := tag

-----------------------------------------------------------------------------
(* Clients *)

Clients(config) == Items(config, "http_clients")

(* The last of that name, 0 if there is none. *)
SharedClient(config, tag) == SelectLastInSeq(Clients(config), LAMBDA c : Text(c, "tag") = tag)

ValidDetour(config, client) == LET tag == Text(client, "detour") IN tag = "" \/ Known(config, tag)
ValidShared(config, tag) ==
  LET index == SharedClient(config, tag) IN
  index # 0 /\ ValidDetour(config, Clients(config)[index])
ValidClient(config, client) ==
  IF "shared" \in DOMAIN client THEN ValidShared(config, client.shared)
                                ELSE ValidDetour(config, client)

(* A configuration, or a part of one, whose values have their types (as         *)
(* httpClientArray and httpClientString demand), with names left for a client.  *)
IsMap(m) == m = [key \in DOMAIN m |-> m[key]]
IsRuleSet(item) ==
  /\ IsMap(item) /\ "type" \in DOMAIN item
  /\ ("http_client" \in DOMAIN item /\ "shared" \in DOMAIN item.http_client)
       => item.http_client.shared # ""
WellTyped(config) ==
  /\ IsMap(config)
  /\ IsList(Items(config, "outbounds"))
  /\ IsList(Clients(config)) /\ Len(Clients(config)) < Len(DefaultTags)
  /\ "route" \in DOMAIN config =>
       /\ IsMap(config.route) /\ IsList(Items(config.route, "rule_set"))
       /\ \A item \in ToSet(Items(config.route, "rule_set")) : IsRuleSet(item)

IsRemote(item) == item.type = "remote"
Remote(config) == {i \in DOMAIN Items(config.route, "rule_set") : IsRemote(config.route.rule_set[i])}
HasClient(item) == "http_client" \in DOMAIN item
NeedsDefault(config) ==
  \E i \in Remote(config) : LET item == config.route.rule_set[i] IN
     ~HasClient(item) /\ Text(item, "download_detour") = ""

(* The client of its own that a remote rule set gets. *)
WithClient(config, item) ==
  LET detour == Text(item, "download_detour")
      bare == Dropping(item, {"download_detour"}) IN
  IF ~IsRemote(item) THEN item
  ELSE IF HasClient(item) \/ detour = "" THEN bare
  ELSE Set(bare, "http_client", ForOutbound(config, detour))

InvalidClient(config, item) ==
  IF HasClient(item) THEN ~ValidClient(config, item.http_client)
  ELSE LET detour == Text(item, "download_detour") IN detour # "" /\ ~Known(config, detour)

-----------------------------------------------------------------------------
(* The default client *)

NextTag(config) ==
  DefaultTags[Min({n \in 1 .. Len(Clients(config)) + 1 : SharedClient(config, DefaultTags[n]) = 0})]

(* Mutant: the first outbound, whatever the default is. *)
FirstOutbound(config) ==
  IF Items(config, "outbounds") # <<>> THEN IndexedTag(config.outbounds, 1) ELSE ""

(* The default outbound's tag; "" if the core has to imply one.                *)
DefaultOutbound(config) ==
  IF Text(config.route, "final") # "" THEN config.route.final
  ELSE IF Items(config, "outbounds") # <<>> THEN IndexedTag(config.outbounds, 1)
  ELSE ""

(* ensureDefault: the configured default, or else the first client, or a new    *)
(* one through the default outbound.                                          *)
EnsureDefault(config) ==
  LET clients == Clients(config)
      default == DefaultOutbound(config)
      tag == IF clients # <<>> /\ Text(clients[1], "tag") # "" THEN clients[1].tag
             ELSE NextTag(config)
      client == IF default = "" THEN "dial" := "" ELSE ForOutbound(config, default)
      named == IF clients # <<>> THEN ReplaceAt(clients, 1, Set(clients[1], "tag", tag))
               ELSE <<Set(client, "tag", tag)>> IN
  IF Text(config.route, "default_http_client") # "" THEN config
  ELSE [Set(config, "http_clients", named) EXCEPT
          !.route = Set(config.route, "default_http_client", tag)]

(* A default that is configured is started by the core even if it is not needed. *)
InvalidDefault(config) ==
  LET default == Text(config.route, "default_http_client")
      first == IF Clients(config) = <<>> THEN "" ELSE Text(Clients(config)[1], "tag") IN
  IF default # "" THEN ~ValidShared(config, default)
  ELSE IF first # "" THEN ~ValidShared(config, first)
  ELSE /\ NeedsDefault(config)
       /\ IF Clients(config) # <<>> THEN ~ValidDetour(config, Clients(config)[1])
          ELSE DefaultOutbound(config) # "" /\ ~Known(config, DefaultOutbound(config))

-----------------------------------------------------------------------------
(* normalizeRuleSetHTTPClients *)

NormalizeRefused(config) ==
  /\ Remote(config) # {}
  /\ \/ \E i \in Remote(config) : InvalidClient(config, config.route.rule_set[i])
     \/ InvalidDefault(config)

NormalizeRuleSetHTTPClients(config) ==
  LET ruleSets == Items(config.route, "rule_set")
      cleaned == [config EXCEPT !.route =
                    Set(@, "rule_set", [i \in DOMAIN ruleSets |-> WithClient(config, ruleSets[i])])] IN
  IF Remote(config) = {} THEN config
  ELSE IF NeedsDefault(config) THEN EnsureDefault(cleaned)
  ELSE cleaned

-----------------------------------------------------------------------------
(* The core: through what a rule set is downloaded *)

Direct(dial) == [through |-> "", dial |-> dial]

(* A direct outbound is what it dials with. *)
Reaches(config, tag) ==
  LET direct == {outbound \in Outbounds(config, tag) : outbound.type = "direct"} IN
  IF direct = {} THEN [through |-> tag, dial |-> ""]
  ELSE Direct(Text(CHOOSE outbound \in direct : TRUE, "dial"))

ReachesBy(config, client) ==
  IF Text(client, "detour") # "" THEN Reaches(config, client.detour)
  ELSE Direct(Text(client, "dial"))

ReachesByShared(config, tag) == ReachesBy(config, Clients(config)[SharedClient(config, tag)])

(* The default client, the first client, the default outbound, the first one.   *)
ReachesByDefault(config) ==
  LET default == Text(config.route, "default_http_client")
      first == IF Clients(config) = <<>> THEN "" ELSE Text(Clients(config)[1], "tag")
      final == Text(config.route, "final") IN
  IF default # "" THEN ReachesByShared(config, default)
  ELSE IF first # "" THEN ReachesByShared(config, first)
  ELSE IF Clients(config) # <<>> THEN ReachesBy(config, Clients(config)[1])
  ELSE IF final # "" THEN Reaches(config, final)
  ELSE IF Items(config, "outbounds") # <<>> THEN Reaches(config, IndexedTag(config.outbounds, 1))
  ELSE Direct("")

(* The client that a rule set names comes before its detour. *)
DownloadsThrough(config, item) ==
  LET detour == Text(item, "download_detour") IN
  IF HasClient(item)
  THEN IF "shared" \in DOMAIN item.http_client THEN ReachesByShared(config, item.http_client.shared)
       ELSE ReachesBy(config, item.http_client)
  ELSE IF detour # "" THEN Reaches(config, detour)
  ELSE ReachesByDefault(config)
=============================================================================
