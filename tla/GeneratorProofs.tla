--------------------------- MODULE GeneratorProofs ---------------------------
(***************************************************************************)
(* Proofs about HttpClients and Generator, for any profiles, subscriptions   *)
(* and nodes.  The first part is about one function, what                   *)
(* normalizeRuleSetHTTPClients makes of any configuration: PutsIn says what   *)
(* it changes, and the rest is proved from that.  The second is about the    *)
(* generation, while subscriptions are refreshed and deleted: GeneratorInv    *)
(* says what the groups have to be at each reference, and what is generated   *)
(* from them names nothing that is not there.                               *)
(*                                                                         *)
(* The lemmas about lists are by SetInduction, as the library's induction     *)
(* theorems, and its facts about FoldLeft, cannot be cited here.            *)
(***************************************************************************)
EXTENDS Generator, FiniteSetTheorems, SequenceTheorems, WellFoundedInduction, TLAPS

-----------------------------------------------------------------------------
(* Numbers and lists *)

(* Induction over the natural numbers, for a set: were numbers left out, the *)
(* initial segments up to them would have a smallest one, as the strict      *)
(* subsets of finite sets are well-founded.                                  *)
LEMMA SetInduction ==
  ASSUME NEW S, 0 \in S, \A n \in Nat : n \in S => n + 1 \in S
  PROVE  Nat \subseteq S
<1> DEFINE Out == Nat \ S
           T == {0 .. k : k \in Out}
           R == StrictSubsetOrdering(Nat)
           Fin == FiniteSubsetsOf(Nat)
<1>1. SUFFICES ASSUME Out # {} PROVE FALSE
  OBVIOUS
<1>2. IsWellFoundedOn(R, Fin)
  BY FS_StrictSubsetOrderingWellFounded
<1>3. T \subseteq Fin
  <2>1. SUFFICES ASSUME NEW k \in Out PROVE 0 .. k \in Fin
    OBVIOUS
  <2>2. k \in Nat /\ 0 .. k \subseteq Nat
    OBVIOUS
  <2>3. IsFiniteSet(0 .. k)
    BY <2>2, FS_Interval
  <2> QED BY <2>2, <2>3 DEF FiniteSubsetsOf
<1>4. PICK x \in T : \A y \in T : ~(<<y, x>> \in R)
  <2>1. T # {}
    BY <1>1
  <2> HIDE DEF T, R, Fin
  <2> QED BY <1>2, <1>3, <2>1, WFMin
<1>5. PICK k \in Out : x = 0 .. k
  OBVIOUS
<1>6. k # 0 /\ k - 1 \in Nat /\ k - 1 \in Out
  OBVIOUS
<1>7. (0 .. k - 1) \in T
  BY <1>6
<1>8. (0 .. k - 1) \subseteq Nat /\ (0 .. k) \subseteq Nat /\ (0 .. k - 1) \subseteq (0 .. k)
      /\ k \in 0 .. k /\ k \notin 0 .. k - 1
  BY <1>6
<1>9. <<0 .. k - 1, x>> \in R
  BY <1>8, <1>5 DEF StrictSubsetOrdering
<1> QED BY <1>4, <1>7, <1>9

(* The Min of a set of numbers is in it and is the least.                    *)
LEMMA HasMin ==
  ASSUME NEW S \in SUBSET Nat, S # {}
  PROVE  Min(S) \in S /\ \A y \in S : Min(S) <= y
<1> DEFINE Below == {n \in Nat : \A m \in S : n < m}
<1>1. \E x \in S : \A y \in S : x <= y
  <2>1. SUFFICES ASSUME ~ \E x \in S : \A y \in S : x <= y PROVE FALSE
    OBVIOUS
  <2>2. 0 \in Below
    BY <2>1
  <2>3. \A n \in Nat : n \in Below => n + 1 \in Below
    BY <2>1
  <2>4. Nat \subseteq Below
    <3> HIDE DEF Below
    <3> QED BY <2>2, <2>3, SetInduction
  <2>5. PICK m \in S : TRUE
    OBVIOUS
  <2>6. m \in Below
    BY <2>4, <2>5
  <2> QED BY <2>5, <2>6
<1> QED BY <1>1 DEF Min

(* The same of Max, for a set of numbers up to n.                            *)
LEMMA HasMax ==
  ASSUME NEW n \in Nat, NEW S \in SUBSET (1 .. n), S # {}
  PROVE  Max(S) \in S /\ \A y \in S : Max(S) >= y
<1> DEFINE T == {n + 1 - x : x \in S}
<1>1. T \in SUBSET Nat /\ T # {}
  <2>1. \A x \in S : n + 1 - x \in Nat
    OBVIOUS
  <2>2. \E x \in S : TRUE
    OBVIOUS
  <2> QED BY <2>1, <2>2
<1>2. Min(T) \in T /\ \A y \in T : Min(T) <= y
  <2> HIDE DEF T
  <2> QED BY <1>1, HasMin
<1>3. \E x \in S : \A y \in S : x >= y
  <2>1. PICK x \in S : Min(T) = n + 1 - x
    BY <1>2
  <2>2. \A y \in S : n + 1 - x <= n + 1 - y
    BY <1>2, <2>1
  <2>3. \A y \in S : x \in Int /\ y \in Int
    OBVIOUS
  <2>4. \A y \in S : x >= y
    BY <2>2, <2>3
  <2> QED BY <2>4
<1> QED BY <1>3 DEF Max

(* A list has a length and is indexed by 1 .. Len(s).                        *)
LEMMA ListShape ==
  ASSUME NEW s, IsList(s)
  PROVE  Len(s) \in Nat /\ DOMAIN s = 1 .. Len(s)
  BY DEF IsList

(* The list of one item.                                                     *)
LEMMA OneItem ==
  ASSUME NEW x
  PROVE  IsList(<<x>>) /\ ToSet(<<x>>) = {x}
<1>1. <<x>> \in Seq({x}) /\ DOMAIN <<x>> = {1} /\ <<x>>[1] = x
  OBVIOUS
<1> QED BY <1>1 DEF IsList, ToSet

(* What is made of a list item by item is a list of the same length.         *)
LEMMA MappedItems ==
  ASSUME NEW s, IsList(s), NEW f, f = [i \in DOMAIN s |-> f[i]]
  PROVE  IsList(f) /\ Len(f) = Len(s)
<1> DEFINE n == Len(s)
<1>1. n \in Nat /\ DOMAIN s = 1 .. n
  BY DEF IsList
<1>2. DOMAIN f = 1 .. n /\ \A i \in 1 .. n : f[i] \in ToSet(f)
  BY <1>1 DEF ToSet
<1>3. f \in [1 .. n -> ToSet(f)]
  <2> HIDE DEF n
  <2>1. f = [i \in 1 .. n |-> f[i]]
    BY <1>1
  <2> QED BY <1>2, <2>1
<1>4. f \in Seq(ToSet(f)) /\ Len(f) = n
  <2> HIDE DEF n
  <2> QED BY <1>1, <1>3, IsASeq, LenProperties
<1> QED BY <1>4 DEF IsList

(* The empty list.                                                           *)
LEMMA EmptyList == IsList(<<>>) /\ ToSet(<<>>) = {}
  BY DEF IsList, ToSet

-----------------------------------------------------------------------------
(* Maps *)

LEMMA TextOfSet ==
  ASSUME NEW map, NEW k, NEW value, NEW key
  PROVE  Text(Set(map, k, value), key) = IF key = k THEN value ELSE Text(map, key)
  BY DEF Text, Set, :=, ++

(* What ++ gives is a map.                                                   *)
LEMMA MergedMap == ASSUME NEW f, NEW g PROVE IsMap(f ++ g)
  BY DEF IsMap, ++

(* Keys that are dropped change no other one.                                *)
LEMMA TextDropping ==
  ASSUME NEW map, NEW keys, NEW key, key \notin keys
  PROVE  Text(Dropping(map, keys), key) = Text(map, key)
  BY DEF Text, Dropping

-----------------------------------------------------------------------------
(* Clients and their names *)

(* The clients of one name.                                                  *)
NamedSo(clients, tag) == {i \in 1 .. Len(clients) : Text(clients[i], "tag") = tag}

(* SharedClient is the last client of the name.                              *)
LEMMA SharedIs ==
  ASSUME NEW c, NEW tag
  PROVE  SharedClient(c, tag) = IF NamedSo(Clients(c), tag) # {} THEN Max(NamedSo(Clients(c), tag)) ELSE 0
  BY DEF SharedClient, SelectLastInSeq, NamedSo

(* It is none exactly if no client has the name, and otherwise one that has  *)
(* it.                                                                       *)
LEMMA SharedIsThere ==
  ASSUME NEW c, IsList(Clients(c)), NEW tag
  PROVE  /\ SharedClient(c, tag) = 0 <=> NamedSo(Clients(c), tag) = {}
         /\ SharedClient(c, tag) # 0 => SharedClient(c, tag) \in NamedSo(Clients(c), tag)
<1> DEFINE S == NamedSo(Clients(c), tag)
<1>1. Len(Clients(c)) \in Nat
  BY ListShape
<1>2. S \in SUBSET (1 .. Len(Clients(c)))
  BY DEF NamedSo
<1>3. S # {} => Max(S) \in S
  <2> HIDE DEF S
  <2> QED BY <1>1, <1>2, HasMax
<1>4. \A x \in S : x # 0
  BY <1>1 DEF NamedSo
<1> QED BY <1>3, <1>4, SharedIs

(* It depends on the names of the clients only.                              *)
LEMMA SameNamesSameShared ==
  ASSUME NEW c, NEW n, NEW tag, NamedSo(Clients(n), tag) = NamedSo(Clients(c), tag)
  PROVE  SharedClient(n, tag) = SharedClient(c, tag)
  BY SharedIs

(* There is a name that no client has. *)
LEMMA NextTagIsNew ==
  ASSUME NEW c, IsList(Clients(c)), Len(Clients(c)) < Len(DefaultTags)
  PROVE  NamedSo(Clients(c), NextTag(c)) = {} /\ NextTag(c) # ""
<1> DEFINE n == Len(Clients(c))
           free == {k \in 1 .. n + 1 : SharedClient(c, DefaultTags[k]) = 0}
<1>1. n \in Nat /\ DOMAIN DefaultTags = 1 .. Len(DefaultTags) /\ Len(DefaultTags) \in Nat
  BY ListShape, NamesAssumption
<1>2. \A k \in 1 .. n + 1 : k \in DOMAIN DefaultTags
  BY <1>1
<1>3. free # {}
  <2>1. SUFFICES ASSUME free = {} PROVE FALSE
    OBVIOUS
  <2> DEFINE f == [k \in 1 .. n + 1 |-> SharedClient(c, DefaultTags[k])]
  <2>2. \A k \in 1 .. n + 1 : f[k] \in 1 .. n /\ Text(Clients(c)[f[k]], "tag") = DefaultTags[k]
    <3>1. TAKE k \in 1 .. n + 1
    <3>2. SharedClient(c, DefaultTags[k]) # 0
      BY <2>1
    <3>3. SharedClient(c, DefaultTags[k]) \in NamedSo(Clients(c), DefaultTags[k])
      BY <3>2, SharedIsThere
    <3> QED BY <3>3 DEF NamedSo
  <2>3. \A j, k \in 1 .. n + 1 : f[j] = f[k] => j = k
    BY <1>2, <2>2, NamesAssumption
  <2>4. f \in [1 .. n + 1 -> 1 .. n]
    BY <2>2
  <2> HIDE DEF f, n
  <2>5. IsFiniteSet(1 .. n + 1) /\ Cardinality(1 .. n + 1) = n + 1
    <3>1. n + 1 \in Int /\ 1 \in Int /\ ~(1 > n + 1) /\ (n + 1) - 1 + 1 = n + 1
      BY <1>1
    <3> QED BY <3>1, FS_Interval
  <2>6. IsFiniteSet(1 .. n) /\ Cardinality(1 .. n) = n
    <3>1. n \in Int /\ 1 \in Int /\ n - 1 + 1 = n /\ (1 > n => n = 0)
      BY <1>1
    <3> QED BY <3>1, FS_Interval
  <2>7. Cardinality(1 .. n) < Cardinality(1 .. n + 1)
    BY <1>1, <2>5, <2>6
  <2>8. \E j, k \in 1 .. n + 1 : j # k /\ f[j] = f[k]
    BY <2>4, <2>5, <2>6, <2>7, FS_PigeonHole
  <2> QED BY <2>3, <2>8
<1>4. free \in SUBSET Nat
  BY <1>1
<1>5. Min(free) \in free
  <2> HIDE DEF free
  <2> QED BY <1>3, <1>4, HasMin
<1>6. NextTag(c) = DefaultTags[Min(free)]
  BY DEF NextTag
<1>7. Min(free) \in 1 .. n + 1 /\ SharedClient(c, DefaultTags[Min(free)]) = 0
  BY <1>5
<1> HIDE DEF free, n
<1>8. NextTag(c) # ""
  BY <1>2, <1>6, <1>7, NamesAssumption
<1> QED BY <1>6, <1>7, <1>8, SharedIsThere

-----------------------------------------------------------------------------
(* Configurations with the same outbounds *)

(* Two configurations have the same outbounds, endpoints and default         *)
(* outbound.                                                                 *)
SameOutbounds(c, n) ==
  /\ Items(n, "outbounds") = Items(c, "outbounds")
  /\ Items(n, "endpoints") = Items(c, "endpoints")
  /\ Text(n.route, "final") = Text(c.route, "final")

(* Then a tag means the same in both.                                        *)
LEMMA OutboundsSame ==
  ASSUME NEW c, NEW n, SameOutbounds(c, n), NEW tag
  PROVE  /\ Outbounds(n, tag) = Outbounds(c, tag)
         /\ Known(n, tag) = Known(c, tag)
         /\ Reaches(n, tag) = Reaches(c, tag)
         /\ ForOutbound(n, tag) = ForOutbound(c, tag)
<1>1. Outbounds(n, tag) = Outbounds(c, tag)
  BY DEF SameOutbounds, Outbounds, DirectIsImplied
<1> QED BY <1>1 DEF Known, Reaches, ForOutbound

(* ... and so does a client.                                                 *)
LEMMA ClientsSame ==
  ASSUME NEW c, NEW n, SameOutbounds(c, n), NEW client, NEW client2,
         Text(client2, "detour") = Text(client, "detour"), Text(client2, "dial") = Text(client, "dial")
  PROVE  /\ ReachesBy(n, client2) = ReachesBy(c, client)
         /\ ValidDetour(n, client2) <=> ValidDetour(c, client)
<1>1. ValidDetour(n, client2) <=> ValidDetour(c, client)
  BY OutboundsSame DEF ValidDetour
<1>2. CASE Text(client, "detour") = ""
  BY <1>1, <1>2 DEF ReachesBy
<1>3. CASE Text(client, "detour") # ""
  <2>1. client.detour = Text(client, "detour") \/ Text(client, "detour") = ""
    BY DEF Text
  <2>2. client2.detour = Text(client2, "detour") \/ Text(client2, "detour") = ""
    BY DEF Text
  <2> QED BY <1>1, <1>3, <2>1, <2>2, OutboundsSame DEF ReachesBy
<1> QED BY <1>2, <1>3

(* What is through an outbound: a client for it reaches what the outbound does.  *)
LEMMA ForOutboundIs ==
  ASSUME NEW c, NEW tag, tag # "", Known(c, tag)
  PROVE  /\ ReachesBy(c, ForOutbound(c, tag)) = Reaches(c, tag)
         /\ ValidDetour(c, ForOutbound(c, tag))
         /\ "shared" \notin DOMAIN ForOutbound(c, tag)
         /\ Text(ForOutbound(c, tag), "detour") \in {"", tag}
         /\ Text(ForOutbound(c, tag), "detour") = tag => \A o \in Outbounds(c, tag) : o.type # "direct"
<1>1. PICK o : Outbounds(c, tag) = {o}
  <2>1. Outbounds(c, tag) # {}
    BY DEF Known
  <2> QED BY <2>1 DEF Outbounds
<1>2. (CHOOSE x \in Outbounds(c, tag) : TRUE) = o
  BY <1>1
<1>3. CASE o.type = "direct"
  <2>1. ForOutbound(c, tag) = ("dial" := Text(o, "dial"))
    BY <1>2, <1>3 DEF ForOutbound
  <2>2. /\ Text(ForOutbound(c, tag), "detour") = ""
        /\ Text(ForOutbound(c, tag), "dial") = Text(o, "dial")
        /\ "shared" \notin DOMAIN ForOutbound(c, tag)
    BY <2>1 DEF Text, :=
  <2>3. {x \in Outbounds(c, tag) : x.type = "direct"} = {o}
    BY <1>1, <1>3
  <2>4. Reaches(c, tag) = Direct(Text(o, "dial"))
    <3>1. (CHOOSE x \in {o} : TRUE) = o
      OBVIOUS
    <3> QED BY <2>3, <3>1 DEF Reaches
  <2> QED BY <2>2, <2>4 DEF ReachesBy, ValidDetour
<1>4. CASE o.type # "direct"
  <2>1. ForOutbound(c, tag) = ("detour" := tag)
    BY <1>2, <1>4 DEF ForOutbound
  <2>2. /\ Text(ForOutbound(c, tag), "detour") = tag /\ ForOutbound(c, tag).detour = tag
        /\ "shared" \notin DOMAIN ForOutbound(c, tag)
    BY <2>1 DEF Text, :=
  <2> QED BY <1>1, <1>4, <2>2 DEF ReachesBy, ValidDetour
<1> QED BY <1>3, <1>4

-----------------------------------------------------------------------------
(* Rule sets *)

(* The outbound that the profile names for a rule set.                       *)
DetourOf(item) == Text(item, "download_detour")

(* What becomes of a remote rule set. *)
HasItsClient(c, item, w) ==
  /\ IsMap(w) /\ "type" \in DOMAIN w /\ w.type = item.type
  /\ "download_detour" \notin DOMAIN w
  /\ HasClient(item) => HasClient(w) /\ w.http_client = item.http_client
  /\ (~HasClient(item) /\ DetourOf(item) = "") => ~HasClient(w)
  /\ (~HasClient(item) /\ DetourOf(item) # "")
       => HasClient(w) /\ w.http_client = ForOutbound(c, DetourOf(item))

(* WithClient does that.                                                     *)
LEMMA WithClientIs ==
  ASSUME NEW c, NEW item, IsRuleSet(item), IsRemote(item)
  PROVE  HasItsClient(c, item, WithClient(c, item))
<1> DEFINE w == WithClient(c, item)
           bare == Dropping(item, {"download_detour"})
           client == ForOutbound(c, DetourOf(item))
<1>1. w = IF HasClient(item) \/ DetourOf(item) = "" THEN bare ELSE Set(bare, "http_client", client)
  BY DEF WithClient, DetourOf
<1>2. /\ IsMap(bare) /\ "type" \in DOMAIN bare /\ bare.type = item.type
      /\ "download_detour" \notin DOMAIN bare
      /\ HasClient(bare) <=> HasClient(item)
      /\ HasClient(item) => bare.http_client = item.http_client
  <2>1. DOMAIN bare = DOMAIN item \ {"download_detour"} /\ \A key \in DOMAIN bare : bare[key] = item[key]
    BY DEF Dropping
  <2>2. IsMap(bare)
    BY DEF IsMap, Dropping
  <2> HIDE DEF bare
  <2> QED BY <2>1, <2>2 DEF IsRuleSet, HasClient
<1>3. ASSUME NEW map, "type" \in DOMAIN map, "download_detour" \notin DOMAIN map
      PROVE  /\ IsMap(Set(map, "http_client", client))
             /\ "type" \in DOMAIN Set(map, "http_client", client)
             /\ Set(map, "http_client", client).type = map.type
             /\ "download_detour" \notin DOMAIN Set(map, "http_client", client)
             /\ HasClient(Set(map, "http_client", client))
             /\ Set(map, "http_client", client).http_client = client
  <2> HIDE DEF client
  <2> QED BY <1>3 DEF IsMap, Set, :=, ++, HasClient
<1> HIDE DEF w, bare, client
<1> SUFFICES HasItsClient(c, item, w)
  BY DEF w
<1>4. CASE HasClient(item) \/ DetourOf(item) = ""
  BY <1>1, <1>2, <1>4 DEF HasItsClient
<1>5. CASE ~(HasClient(item) \/ DetourOf(item) = "")
  <2>1. w = Set(bare, "http_client", client)
    BY <1>1, <1>5
  <2> QED BY <1>2, <1>3, <1>5, <2>1 DEF client, HasItsClient
<1> QED BY <1>4, <1>5

(* A rule set that has its client is left alone. *)
LEMMA WithClientAgain ==
  ASSUME NEW n, NEW w, IsMap(w), "download_detour" \notin DOMAIN w
  PROVE  WithClient(n, w) = w
<1>1. Dropping(w, {"download_detour"}) = w
  <2>1. DOMAIN w \ {"download_detour"} = DOMAIN w
    OBVIOUS
  <2> QED BY <2>1 DEF Dropping, IsMap
<1>2. Text(w, "download_detour") = ""
  BY DEF Text
<1> QED BY <1>1, <1>2 DEF WithClient

(* The rule sets of a configuration, and with their clients.                 *)
RuleSetsOf(c) == Items(c.route, "rule_set")
WithClients(c) == [i \in DOMAIN RuleSetsOf(c) |-> WithClient(c, RuleSetsOf(c)[i])]

(* A remote rule set is one of the rule sets of the configuration.           *)
LEMMA RemoteIs ==
  ASSUME NEW c, WellTyped(c), "route" \in DOMAIN c, NEW i \in Remote(c)
  PROVE  /\ i \in DOMAIN RuleSetsOf(c) /\ RuleSetsOf(c) = c.route.rule_set
         /\ IsRuleSet(c.route.rule_set[i]) /\ IsRemote(c.route.rule_set[i])
<1>1. i \in DOMAIN RuleSetsOf(c) /\ IsRemote(c.route.rule_set[i])
  BY DEF Remote, RuleSetsOf
<1>2. RuleSetsOf(c) = c.route.rule_set
  <2>1. DOMAIN <<>> = {}
    OBVIOUS
  <2> QED BY <1>1, <2>1 DEF RuleSetsOf, Items
<1>3. RuleSetsOf(c)[i] \in ToSet(RuleSetsOf(c))
  BY <1>1 DEF ToSet
<1> QED BY <1>1, <1>2, <1>3 DEF WellTyped, RuleSetsOf

-----------------------------------------------------------------------------
(* What the clients that are put in have to be *)

(* The first client, if it has a name, can be used by that name.             *)
ValidFirst(n) ==
  (Clients(n) # <<>> /\ Text(Clients(n)[1], "tag") # "") => ValidShared(n, Text(Clients(n)[1], "tag"))

(* A client does not dial through a direct outbound.                         *)
Dialed(n, client) ==
  Text(client, "detour") # "" => \A o \in Outbounds(n, client.detour) : o.type # "direct"

(* All that the later lemmas need to know of what normalization makes of c:  *)
(* the outbounds stay, the rule sets have their clients, a name that could   *)
(* be used can still be, and is through the same outbound, the default can   *)
(* be used, a rule set that needs it has one, through what the default was   *)
(* before, and a client that was made dials through no direct outbound.      *)
PutsIn(c, n) ==
  /\ SameOutbounds(c, n)
  /\ IsMap(n) /\ "route" \in DOMAIN n /\ IsMap(n.route)
  /\ "rule_set" \in DOMAIN n.route /\ n.route.rule_set = WithClients(c)
  /\ \A tag : (tag # "" /\ ValidShared(c, tag)) =>
       ValidShared(n, tag) /\ ReachesByShared(n, tag) = ReachesByShared(c, tag)
  /\ LET default == Text(n.route, "default_http_client") IN
     /\ default # "" => ValidShared(n, default)
     /\ default = "" => ValidFirst(n)
     /\ NeedsDefault(c) => default # "" /\ ReachesByDefault(n) = ReachesByDefault(c)
  /\ Clients(c) = <<>> => \A client \in ToSet(Clients(n)) : Dialed(n, client)

(* SameDownloads and AcceptedByCore, for any two configurations.             *)
DownloadsAlike(c, n) ==
  \A i \in Remote(c) :
    DownloadsThrough(n, n.route.rule_set[i]) = DownloadsThrough(c, c.route.rule_set[i])

Fitting(c, n) ==
  /\ \A i \in Remote(n) : LET item == n.route.rule_set[i] IN
       /\ "download_detour" \notin DOMAIN item
       /\ HasClient(item) \/ Text(n.route, "default_http_client") # ""
  /\ LET given == {i \in Remote(c) : HasClient(c.route.rule_set[i])}
         made == {n.route.rule_set[i].http_client : i \in
                    {j \in Remote(n) \ given : HasClient(n.route.rule_set[j])}}
         default == IF Clients(c) = <<>> THEN ToSet(Clients(n)) ELSE {} IN
     \A client \in made \cup default : Dialed(n, client)

(* A remote rule set and what became of it.                                  *)
LEMMA PutInItems ==
  ASSUME NEW c, WellTyped(c), "route" \in DOMAIN c, NEW n, PutsIn(c, n),
         ~NormalizeRefused(c), NEW i \in Remote(c)
  PROVE  /\ i \in DOMAIN n.route.rule_set
         /\ n.route.rule_set[i] = WithClient(c, c.route.rule_set[i])
         /\ IsRuleSet(c.route.rule_set[i]) /\ IsRemote(c.route.rule_set[i])
         /\ ~InvalidClient(c, c.route.rule_set[i])
<1>1. n.route.rule_set = WithClients(c)
  BY DEF PutsIn
<1>2. /\ i \in DOMAIN RuleSetsOf(c) /\ RuleSetsOf(c) = c.route.rule_set
      /\ IsRuleSet(c.route.rule_set[i]) /\ IsRemote(c.route.rule_set[i])
  BY RemoteIs
<1>3. ~InvalidClient(c, c.route.rule_set[i])
  BY DEF NormalizeRefused
<1> QED BY <1>1, <1>2, <1>3 DEF WithClients

(* The same rule sets are remote.                                            *)
LEMMA SameRemotes ==
  ASSUME NEW c, WellTyped(c), "route" \in DOMAIN c, NEW n, PutsIn(c, n)
  PROVE  Remote(n) = Remote(c)
<1>1. n.route.rule_set = WithClients(c) /\ Items(n.route, "rule_set") = WithClients(c)
  BY DEF PutsIn, Items
<1>2. DOMAIN WithClients(c) = DOMAIN RuleSetsOf(c)
  BY DEF WithClients
<1>3. ASSUME NEW i \in DOMAIN RuleSetsOf(c)
      PROVE  IsRemote(WithClients(c)[i]) <=> IsRemote(c.route.rule_set[i])
  <2>1. RuleSetsOf(c) = c.route.rule_set
    <3>1. DOMAIN <<>> = {}
      OBVIOUS
    <3> QED BY <1>3, <3>1 DEF RuleSetsOf, Items
  <2>2. WithClients(c)[i] = WithClient(c, c.route.rule_set[i])
    BY <2>1 DEF WithClients
  <2>3. IsRuleSet(c.route.rule_set[i])
    BY <2>1, <1>3 DEF WellTyped, RuleSetsOf, ToSet
  <2>4. CASE IsRemote(c.route.rule_set[i])
    <3>1. HasItsClient(c, c.route.rule_set[i], WithClient(c, c.route.rule_set[i]))
      BY <2>3, <2>4, WithClientIs
    <3> QED BY <2>2, <2>4, <3>1 DEF HasItsClient, IsRemote
  <2>5. CASE ~IsRemote(c.route.rule_set[i])
    BY <2>2, <2>5 DEF WithClient
  <2> QED BY <2>4, <2>5
<1> QED BY <1>1, <1>2, <1>3 DEF Remote, RuleSetsOf

(* Each is downloaded through what it was downloaded through.                *)
LEMMA DownloadsStay ==
  ASSUME NEW c, WellTyped(c), "route" \in DOMAIN c, NEW n, PutsIn(c, n),
         ~NormalizeRefused(c)
  PROVE  DownloadsAlike(c, n)
<1> SUFFICES ASSUME NEW i \in Remote(c)
             PROVE  DownloadsThrough(n, n.route.rule_set[i]) = DownloadsThrough(c, c.route.rule_set[i])
  BY DEF DownloadsAlike
<1> DEFINE item == c.route.rule_set[i]
           w == n.route.rule_set[i]
<1>1. /\ w = WithClient(c, item) /\ IsRuleSet(item) /\ IsRemote(item)
      /\ ~InvalidClient(c, item)
  BY PutInItems
<1>2. SameOutbounds(c, n)
  BY DEF PutsIn
<1>3. /\ "download_detour" \notin DOMAIN w
      /\ HasClient(item) => HasClient(w) /\ w.http_client = item.http_client
      /\ ~HasClient(item) /\ DetourOf(item) = "" => ~HasClient(w)
      /\ ~HasClient(item) /\ DetourOf(item) # ""
           => HasClient(w) /\ w.http_client = ForOutbound(c, DetourOf(item))
  <2> HIDE DEF item, w
  <2>1. HasItsClient(c, item, w)
    BY <1>1, WithClientIs
  <2> QED BY <2>1 DEF HasItsClient
<1>4. ASSUME NEW client PROVE ReachesBy(n, client) = ReachesBy(c, client)
  BY <1>2, ClientsSame
<1>5. CASE HasClient(item) /\ "shared" \in DOMAIN item.http_client
  <2>1. item.http_client.shared # "" /\ ValidShared(c, item.http_client.shared)
    BY <1>1, <1>5 DEF IsRuleSet, HasClient, InvalidClient, ValidClient
  <2>2. ReachesByShared(n, item.http_client.shared) = ReachesByShared(c, item.http_client.shared)
    BY <2>1 DEF PutsIn
  <2> QED BY <1>3, <1>5, <2>2 DEF DownloadsThrough
<1>6. CASE HasClient(item) /\ "shared" \notin DOMAIN item.http_client
  <2> HIDE DEF item, w
  <2>1. DownloadsThrough(n, w) = ReachesBy(n, item.http_client)
    BY <1>3, <1>6 DEF DownloadsThrough
  <2>2. DownloadsThrough(c, item) = ReachesBy(c, item.http_client)
    BY <1>6 DEF DownloadsThrough
  <2> QED BY <1>4, <2>1, <2>2 DEF item, w
<1>7. CASE ~HasClient(item) /\ DetourOf(item) # ""
  <2> HIDE DEF item, w
  <2>1. Known(c, DetourOf(item))
    BY <1>1, <1>7 DEF InvalidClient, DetourOf
  <2>2. /\ ReachesBy(c, ForOutbound(c, DetourOf(item))) = Reaches(c, DetourOf(item))
        /\ "shared" \notin DOMAIN ForOutbound(c, DetourOf(item))
    BY <1>7, <2>1, ForOutboundIs
  <2>3. DownloadsThrough(n, w) = ReachesBy(n, ForOutbound(c, DetourOf(item)))
    BY <1>3, <1>7, <2>2 DEF DownloadsThrough
  <2>4. DownloadsThrough(c, item) = Reaches(c, DetourOf(item))
    BY <1>7 DEF DownloadsThrough, DetourOf
  <2> QED BY <1>4, <2>2, <2>3, <2>4 DEF item, w
<1>8. CASE ~HasClient(item) /\ DetourOf(item) = ""
  <2>1. NeedsDefault(c)
    BY <1>8 DEF NeedsDefault, DetourOf
  <2>2. ReachesByDefault(n) = ReachesByDefault(c)
    BY <2>1 DEF PutsIn
  <2> HIDE DEF item, w
  <2>3. DownloadsThrough(n, w) = ReachesByDefault(n)
    <3>1. Text(w, "download_detour") = ""
      BY <1>3 DEF Text
    <3> QED BY <1>3, <1>8, <3>1 DEF DownloadsThrough
  <2>4. DownloadsThrough(c, item) = ReachesByDefault(c)
    BY <1>8 DEF DownloadsThrough, DetourOf
  <2> QED BY <2>2, <2>3, <2>4 DEF item, w
<1> QED BY <1>5, <1>6, <1>7, <1>8

(* The core accepts what has been put in.                                    *)
LEMMA AcceptedThen ==
  ASSUME NEW c, WellTyped(c), "route" \in DOMAIN c, NEW n, PutsIn(c, n),
         ~NormalizeRefused(c)
  PROVE  Fitting(c, n)
<1>1. Remote(n) = Remote(c) /\ SameOutbounds(c, n)
  BY SameRemotes DEF PutsIn
<1>2. ASSUME NEW i \in Remote(c)
      PROVE  LET item == c.route.rule_set[i]
                 w == n.route.rule_set[i] IN
             /\ "download_detour" \notin DOMAIN w
             /\ HasClient(w) \/ Text(n.route, "default_http_client") # ""
             /\ ~HasClient(item) /\ HasClient(w) => Dialed(n, w.http_client)
  <2> DEFINE item == c.route.rule_set[i]
             w == n.route.rule_set[i]
  <2>1. /\ w = WithClient(c, item) /\ IsRuleSet(item) /\ IsRemote(item)
        /\ ~InvalidClient(c, item)
    BY PutInItems
  <2>2. ~HasClient(item) /\ DetourOf(item) = "" => Text(n.route, "default_http_client") # ""
    <3>1. ~HasClient(item) /\ DetourOf(item) = "" => NeedsDefault(c)
      BY DEF NeedsDefault, DetourOf
    <3> QED BY <3>1 DEF PutsIn
  <2> HIDE DEF item, w
  <2>3. /\ "download_detour" \notin DOMAIN w
        /\ HasClient(item) => HasClient(w)
        /\ ~HasClient(item) /\ DetourOf(item) = "" => ~HasClient(w)
        /\ ~HasClient(item) /\ DetourOf(item) # ""
             => HasClient(w) /\ w.http_client = ForOutbound(c, DetourOf(item))
    <3>1. HasItsClient(c, item, w)
      BY <2>1, WithClientIs
    <3> QED BY <3>1 DEF HasItsClient
  <2>4. ASSUME ~HasClient(item), HasClient(w) PROVE Dialed(n, w.http_client)
    <3> DEFINE tag == DetourOf(item)
    <3>1. tag # "" /\ w.http_client = ForOutbound(c, tag) /\ Known(c, tag)
      BY <2>1, <2>3, <2>4 DEF InvalidClient, DetourOf
    <3> HIDE DEF tag
    <3>2. /\ Text(ForOutbound(c, tag), "detour") \in {"", tag}
          /\ Text(ForOutbound(c, tag), "detour") = tag => \A o \in Outbounds(c, tag) : o.type # "direct"
      BY <3>1, ForOutboundIs
    <3>3. Outbounds(n, tag) = Outbounds(c, tag)
      BY <1>1, OutboundsSame
    <3>4. Text(ForOutbound(c, tag), "detour") # "" => ForOutbound(c, tag).detour = tag
      BY <3>2 DEF Text
    <3> QED BY <3>1, <3>2, <3>3, <3>4 DEF Dialed
  <2>5. HasClient(w) \/ Text(n.route, "default_http_client") # ""
    BY <2>2, <2>3
  <2> QED BY <2>3, <2>4, <2>5 DEF item, w
<1>3. Clients(c) = <<>> => \A client \in ToSet(Clients(n)) : Dialed(n, client)
  BY DEF PutsIn
<1>4. \A i \in Remote(n) : /\ "download_detour" \notin DOMAIN n.route.rule_set[i]
                           /\ HasClient(n.route.rule_set[i]) \/ Text(n.route, "default_http_client") # ""
  BY <1>1, <1>2
<1>5. \A i \in Remote(n) : ~HasClient(c.route.rule_set[i]) /\ HasClient(n.route.rule_set[i])
                             => Dialed(n, n.route.rule_set[i].http_client)
  BY <1>1, <1>2
<1> QED BY <1>1, <1>3, <1>4, <1>5 DEF Fitting

(* Nothing is left to do, and nothing refused, the second time.              *)
LEMMA NothingMore ==
  ASSUME NEW c, WellTyped(c), "route" \in DOMAIN c, NEW n, PutsIn(c, n),
         ~NormalizeRefused(c)
  PROVE  ~NormalizeRefused(n) /\ NormalizeRuleSetHTTPClients(n) = n
<1> DEFINE default == Text(n.route, "default_http_client")
<1>1. Remote(n) = Remote(c) /\ SameOutbounds(c, n)
  BY SameRemotes DEF PutsIn
<1>2. ASSUME NEW i \in Remote(c)
      PROVE  LET item == c.route.rule_set[i]
                 w == n.route.rule_set[i] IN
             /\ WithClient(n, w) = w
             /\ ~InvalidClient(n, w)
             /\ HasClient(w) \/ (~HasClient(item) /\ DetourOf(item) = "")
  <2> DEFINE item == c.route.rule_set[i]
             w == n.route.rule_set[i]
  <2>1. /\ w = WithClient(c, item) /\ IsRuleSet(item) /\ IsRemote(item)
        /\ ~InvalidClient(c, item)
    BY PutInItems
  <2> HIDE DEF item, w
  <2>2. /\ IsMap(w) /\ "download_detour" \notin DOMAIN w
        /\ HasClient(item) => HasClient(w) /\ w.http_client = item.http_client
        /\ ~HasClient(item) /\ DetourOf(item) = "" => ~HasClient(w)
        /\ ~HasClient(item) /\ DetourOf(item) # ""
             => HasClient(w) /\ w.http_client = ForOutbound(c, DetourOf(item))
    <3>1. HasItsClient(c, item, w)
      BY <2>1, WithClientIs
    <3> QED BY <3>1 DEF HasItsClient
  <2>3. WithClient(n, w) = w
    BY <2>2, WithClientAgain
  <2>4. \A client : ValidDetour(n, client) <=> ValidDetour(c, client)
    BY <1>1, ClientsSame
  <2>5. ~InvalidClient(n, w)
    <3>1. CASE HasClient(item)
      <4>1. ValidClient(c, item.http_client)
        BY <2>1, <3>1 DEF InvalidClient
      <4>2. ValidClient(n, item.http_client)
        <5>1. CASE "shared" \in DOMAIN item.http_client
          <6>1. item.http_client.shared # "" /\ ValidShared(c, item.http_client.shared)
            BY <2>1, <3>1, <4>1, <5>1 DEF IsRuleSet, HasClient, ValidClient
          <6>2. ValidShared(n, item.http_client.shared)
            BY <6>1 DEF PutsIn
          <6> QED BY <5>1, <6>2 DEF ValidClient
        <5>2. CASE "shared" \notin DOMAIN item.http_client
          BY <2>4, <4>1, <5>2 DEF ValidClient
        <5> QED BY <5>1, <5>2
      <4> QED BY <2>2, <3>1, <4>2 DEF InvalidClient
    <3>2. CASE ~HasClient(item) /\ DetourOf(item) = ""
      <4>1. Text(w, "download_detour") = ""
        BY <2>2 DEF Text
      <4> QED BY <2>2, <3>2, <4>1 DEF InvalidClient
    <3>3. CASE ~HasClient(item) /\ DetourOf(item) # ""
      <4>1. Known(c, DetourOf(item))
        BY <2>1, <3>3 DEF InvalidClient, DetourOf
      <4>2. /\ ValidDetour(c, ForOutbound(c, DetourOf(item)))
            /\ "shared" \notin DOMAIN ForOutbound(c, DetourOf(item))
        BY <3>3, <4>1, ForOutboundIs
      <4>3. ValidClient(n, ForOutbound(c, DetourOf(item)))
        BY <2>4, <4>2 DEF ValidClient
      <4> QED BY <2>2, <3>3, <4>3 DEF InvalidClient
    <3> QED BY <3>1, <3>2, <3>3
  <2>6. HasClient(w) \/ (~HasClient(item) /\ DetourOf(item) = "")
    BY <2>2
  <2> QED BY <2>3, <2>5, <2>6 DEF item, w
<1>3. NeedsDefault(n) => NeedsDefault(c)
  <2>1. SUFFICES ASSUME NEW i \in Remote(c), ~HasClient(n.route.rule_set[i]) PROVE NeedsDefault(c)
    BY <1>1 DEF NeedsDefault
  <2> QED BY <1>2, <2>1 DEF NeedsDefault, DetourOf
<1>4. /\ default # "" => ValidShared(n, default)
      /\ default = "" => ValidFirst(n)
      /\ NeedsDefault(c) => default # ""
  BY DEF PutsIn
<1>5. ~InvalidDefault(n)
  <2>1. CASE default # ""
    BY <1>4, <2>1 DEF InvalidDefault
  <2>2. CASE default = ""
    BY <1>3, <1>4, <2>2 DEF InvalidDefault, ValidFirst
  <2> QED BY <2>1, <2>2
<1>6. ~NormalizeRefused(n)
  BY <1>1, <1>2, <1>5 DEF NormalizeRefused
<1>7. n.route.rule_set = WithClients(n)
  <2>1. /\ Items(n.route, "rule_set") = n.route.rule_set
        /\ DOMAIN n.route.rule_set = DOMAIN RuleSetsOf(c)
    BY DEF PutsIn, Items, WithClients
  <2>2. \A i \in DOMAIN n.route.rule_set : WithClient(n, n.route.rule_set[i]) = n.route.rule_set[i]
    <3>1. TAKE i \in DOMAIN n.route.rule_set
    <3>2. CASE i \in Remote(n)
      BY <1>1, <1>2, <3>2
    <3>3. CASE i \notin Remote(n)
      <4>1. ~IsRemote(n.route.rule_set[i])
        BY <2>1, <3>3 DEF Remote
      <4> QED BY <4>1 DEF WithClient
    <3> QED BY <3>2, <3>3
  <2>3. n.route.rule_set = [i \in DOMAIN n.route.rule_set |-> n.route.rule_set[i]]
    BY DEF PutsIn, WithClients
  <2> QED BY <2>1, <2>2, <2>3 DEF WithClients, RuleSetsOf
<1>8. [n EXCEPT !.route = Set(@, "rule_set", WithClients(n))] = n
  <2>1. /\ IsMap(n) /\ "route" \in DOMAIN n /\ IsMap(n.route)
        /\ "rule_set" \in DOMAIN n.route
    BY DEF PutsIn
  <2>2. Set(n.route, "rule_set", WithClients(n)) = n.route
    BY <1>7, <2>1 DEF Set, :=, ++, IsMap
  <2> QED BY <2>1, <2>2 DEF IsMap
<1>9. NeedsDefault(n) => EnsureDefault(n) = n
  BY <1>3, <1>4 DEF EnsureDefault
<1> QED BY <1>6, <1>8, <1>9 DEF NormalizeRuleSetHTTPClients, WithClients, RuleSetsOf

-----------------------------------------------------------------------------
(* The clients that are put in *)

(* The rule sets with their clients, before a default is put in; the         *)
(* default's name and that of the first client.                              *)
Cleaned(c) == [c EXCEPT !.route = Set(@, "rule_set", WithClients(c))]
DefaultOf(c) == Text(c.route, "default_http_client")
FirstTag(c) == IF Clients(c) = <<>> THEN "" ELSE Text(Clients(c)[1], "tag")

(* They change nothing else.                                                 *)
LEMMA CleanedIs ==
  ASSUME NEW c, WellTyped(c), "route" \in DOMAIN c
  PROVE  /\ SameOutbounds(c, Cleaned(c)) /\ Clients(Cleaned(c)) = Clients(c)
         /\ IsMap(Cleaned(c)) /\ "route" \in DOMAIN Cleaned(c) /\ IsMap(Cleaned(c).route)
         /\ "rule_set" \in DOMAIN Cleaned(c).route
         /\ Cleaned(c).route.rule_set = WithClients(c)
         /\ DefaultOf(Cleaned(c)) = DefaultOf(c)
<1> DEFINE k == Cleaned(c)
           route == Set(c.route, "rule_set", WithClients(c))
<1>1. /\ DOMAIN k = DOMAIN c /\ k.route = route
      /\ \A key \in DOMAIN c : key # "route" => k[key] = c[key]
      /\ IsMap(k)
  BY DEF Cleaned, WellTyped, IsMap
<1>2. /\ "rule_set" \in DOMAIN route /\ route.rule_set = WithClients(c) /\ IsMap(route)
      /\ DOMAIN route = DOMAIN c.route \cup {"rule_set"}
      /\ \A key \in DOMAIN c.route : key # "rule_set" => route[key] = c.route[key]
  <2> HIDE DEF WithClients
  <2> QED BY DEF Set, :=, ++, IsMap
<1> HIDE DEF k, route
<1>3. Items(k, "outbounds") = Items(c, "outbounds") /\ Items(k, "endpoints") = Items(c, "endpoints")
      /\ Items(k, "http_clients") = Items(c, "http_clients")
  BY <1>1 DEF Items
<1>4. Text(route, "final") = Text(c.route, "final")
      /\ Text(route, "default_http_client") = Text(c.route, "default_http_client")
  BY <1>2 DEF Text
<1>5. /\ SameOutbounds(c, k) /\ Clients(k) = Clients(c) /\ DefaultOf(k) = DefaultOf(c)
  BY <1>1, <1>3, <1>4 DEF SameOutbounds, Clients, DefaultOf
<1> QED BY <1>1, <1>2, <1>5 DEF k

(* What it means that a configuration with a remote rule set is not refused. *)
LEMMA NotRefused ==
  ASSUME NEW c, Remote(c) # {}, ~NormalizeRefused(c)
  PROVE  /\ DefaultOf(c) # "" => ValidShared(c, DefaultOf(c))
         /\ DefaultOf(c) = "" /\ FirstTag(c) # "" => ValidShared(c, FirstTag(c))
         /\ DefaultOf(c) = "" /\ FirstTag(c) = "" /\ NeedsDefault(c) =>
              IF Clients(c) # <<>> THEN ValidDetour(c, Clients(c)[1])
              ELSE DefaultOutbound(c) = "" \/ Known(c, DefaultOutbound(c))
  BY DEF NormalizeRefused, InvalidDefault, DefaultOf, FirstTag

(* With the same outbounds and clients, a name is through the same outbound. *)
LEMMA SharedStays ==
  ASSUME NEW c, NEW n, SameOutbounds(c, n), Clients(n) = Clients(c), NEW tag
  PROVE  /\ ReachesByShared(n, tag) = ReachesByShared(c, tag)
         /\ ValidShared(n, tag) <=> ValidShared(c, tag)
<1>1. SharedClient(n, tag) = SharedClient(c, tag)
  BY SharedIs
<1>2. \A client : /\ ReachesBy(n, client) = ReachesBy(c, client)
                  /\ ValidDetour(n, client) <=> ValidDetour(c, client)
  BY ClientsSame
<1> QED BY <1>1, <1>2 DEF ReachesByShared, ValidShared

(* No default has to be put in. *)
LEMMA CleanedPutsIn ==
  ASSUME NEW c, WellTyped(c), "route" \in DOMAIN c, Remote(c) # {}, ~NormalizeRefused(c),
         ~NeedsDefault(c) \/ DefaultOf(c) # ""
  PROVE  PutsIn(c, Cleaned(c))
<1> DEFINE n == Cleaned(c)
<1>1. /\ SameOutbounds(c, n) /\ Clients(n) = Clients(c)
      /\ IsMap(n) /\ "route" \in DOMAIN n /\ IsMap(n.route)
      /\ "rule_set" \in DOMAIN n.route /\ n.route.rule_set = WithClients(c)
      /\ DefaultOf(n) = DefaultOf(c)
  BY CleanedIs
<1> HIDE DEF n
<1>2. \A tag : /\ ReachesByShared(n, tag) = ReachesByShared(c, tag)
               /\ ValidShared(n, tag) <=> ValidShared(c, tag)
  BY <1>1, SharedStays
<1>3. DefaultOf(n) # "" => ValidShared(n, DefaultOf(n)) /\ ReachesByDefault(n) = ReachesByDefault(c)
  <2>1. SUFFICES ASSUME DefaultOf(n) # ""
                 PROVE  /\ ValidShared(n, DefaultOf(n))
                        /\ ReachesByDefault(n) = ReachesByDefault(c)
    OBVIOUS
  <2>2. ValidShared(n, DefaultOf(n))
    BY <1>1, <1>2, <2>1, NotRefused
  <2>3. ReachesByDefault(n) = ReachesByShared(n, DefaultOf(n))
    BY <2>1 DEF ReachesByDefault, DefaultOf
  <2>4. ReachesByDefault(c) = ReachesByShared(c, DefaultOf(c))
    BY <1>1, <2>1 DEF ReachesByDefault, DefaultOf
  <2> QED BY <1>1, <1>2, <2>2, <2>3, <2>4
<1>4. DefaultOf(n) = "" => ValidFirst(n)
  BY <1>1, <1>2, NotRefused DEF FirstTag, ValidFirst
<1>5. NeedsDefault(c) => DefaultOf(n) # ""
  BY <1>1
<1>6. Clients(c) = <<>> => ToSet(Clients(n)) = {}
  BY <1>1, EmptyList
<1>7. PutsIn(c, n)
  BY <1>1, <1>2, <1>3, <1>4, <1>5, <1>6 DEF PutsIn, DefaultOf
<1> QED BY <1>7 DEF n

(* A default of the name tag is put in, with the clients. *)
WithDefault(k, clients, tag) ==
  [Set(k, "http_clients", clients) EXCEPT !.route = Set(k.route, "default_http_client", tag)]

(* What is made of c has the clients and the default named.                  *)
HasDefault(c, n, clients, tag) ==
  /\ SameOutbounds(c, n) /\ Clients(n) = clients
  /\ IsMap(n) /\ "route" \in DOMAIN n /\ IsMap(n.route)
  /\ "rule_set" \in DOMAIN n.route /\ n.route.rule_set = WithClients(c)
  /\ DefaultOf(n) = tag

(* WithDefault does that.                                                    *)
LEMMA WithDefaultIs ==
  ASSUME NEW c, WellTyped(c), "route" \in DOMAIN c, NEW clients, NEW tag
  PROVE  HasDefault(c, WithDefault(Cleaned(c), clients, tag), clients, tag)
<1> DEFINE k == Cleaned(c)
           route == Set(k.route, "default_http_client", tag)
           m == Set(k, "http_clients", clients)
           n == WithDefault(Cleaned(c), clients, tag)
<1>1. /\ SameOutbounds(c, k)
      /\ "route" \in DOMAIN k /\ "rule_set" \in DOMAIN k.route
      /\ k.route.rule_set = WithClients(c)
  BY CleanedIs
<1> HIDE DEF k
<1>2. /\ DOMAIN route = DOMAIN k.route \cup {"default_http_client"} /\ IsMap(route)
      /\ route.default_http_client = tag
      /\ \A key \in DOMAIN k.route : key # "default_http_client" => route[key] = k.route[key]
  BY DEF Set, :=, ++, IsMap
<1>3. /\ DOMAIN m = DOMAIN k \cup {"http_clients"} /\ IsMap(m) /\ m.http_clients = clients
      /\ \A key \in DOMAIN k : key # "http_clients" => m[key] = k[key]
  BY DEF Set, :=, ++, IsMap
<1>4. n = [m EXCEPT !.route = route]
  BY DEF WithDefault, k, route, m
<1> HIDE DEF route, m, n
<1>5. /\ DOMAIN n = DOMAIN k \cup {"http_clients"} /\ IsMap(n) /\ n.http_clients = clients
      /\ n.route = route
      /\ \A key \in DOMAIN k : key \notin {"http_clients", "route"} => n[key] = k[key]
  BY <1>1, <1>3, <1>4 DEF IsMap
<1>6. Items(n, "outbounds") = Items(k, "outbounds") /\ Items(n, "endpoints") = Items(k, "endpoints")
      /\ Items(n, "http_clients") = clients
  BY <1>5 DEF Items
<1>7. Text(route, "final") = Text(k.route, "final") /\ Text(route, "default_http_client") = tag
      /\ "rule_set" \in DOMAIN route /\ route.rule_set = WithClients(c)
  <2> HIDE DEF WithClients
  <2> QED BY <1>1, <1>2 DEF Text
<1>8. HasDefault(c, n, clients, tag)
  BY <1>1, <1>2, <1>5, <1>6, <1>7 DEF HasDefault, SameOutbounds, Clients, DefaultOf
<1> QED BY <1>8 DEF n

(* What ensureDefault puts in, in terms of the configuration before the rule sets *)
(* got theirs.                                                                *)
DefaultName(c) == IF FirstTag(c) # "" THEN FirstTag(c) ELSE NextTag(c)
DefaultClient(c) == IF DefaultOutbound(c) = "" THEN "dial" := "" ELSE ForOutbound(c, DefaultOutbound(c))
DefaultClients(c) ==
  IF Clients(c) # <<>> THEN ReplaceAt(Clients(c), 1, Set(Clients(c)[1], "tag", DefaultName(c)))
                       ELSE <<Set(DefaultClient(c), "tag", DefaultName(c))>>

(* ensureDefault puts in these clients under this name.                      *)
LEMMA EnsureDefaultIs ==
  ASSUME NEW c, WellTyped(c), "route" \in DOMAIN c, DefaultOf(c) = ""
  PROVE  EnsureDefault(Cleaned(c)) = WithDefault(Cleaned(c), DefaultClients(c), DefaultName(c))
<1> DEFINE k == Cleaned(c)
           clients == Clients(c)
<1>1. SameOutbounds(c, k) /\ Clients(k) = clients /\ DefaultOf(k) = ""
  BY CleanedIs
<1> HIDE DEF k
<1>2. DefaultOutbound(k) = DefaultOutbound(c)
  <2>1. /\ Text(k.route, "final") = Text(c.route, "final")
        /\ Items(k, "outbounds") = Items(c, "outbounds")
    BY <1>1 DEF SameOutbounds
  <2>2. Text(k.route, "final") # "" => k.route.final = Text(k.route, "final")
    BY DEF Text
  <2>3. Text(c.route, "final") # "" => c.route.final = Text(c.route, "final")
    BY DEF Text
  <2>4. Items(k, "outbounds") # <<>> => k.outbounds = Items(k, "outbounds")
    BY DEF Items
  <2>5. Items(c, "outbounds") # <<>> => c.outbounds = Items(c, "outbounds")
    BY DEF Items
  <2> QED BY <2>1, <2>2, <2>3, <2>4, <2>5 DEF DefaultOutbound
<1>3. ForOutbound(k, DefaultOutbound(c)) = ForOutbound(c, DefaultOutbound(c))
  BY <1>1, OutboundsSame
<1>4. NextTag(k) = NextTag(c)
  <2>1. \A tag : SharedClient(k, tag) = SharedClient(c, tag)
    BY <1>1, SharedIs
  <2> QED BY <1>1, <2>1 DEF NextTag
<1>5. clients # <<>> /\ Text(clients[1], "tag") # "" => clients[1].tag = FirstTag(c)
  BY DEF Text, FirstTag
<1>6. (clients # <<>> /\ Text(clients[1], "tag") # "") <=> FirstTag(c) # ""
  BY DEF FirstTag
<1>7. Text(k.route, "default_http_client") = ""
  BY <1>1 DEF DefaultOf
<1>8. (IF clients # <<>> /\ Text(clients[1], "tag") # "" THEN clients[1].tag ELSE NextTag(k))
        = DefaultName(c)
  BY <1>4, <1>5, <1>6 DEF DefaultName
<1> QED BY <1>1, <1>2, <1>3, <1>7, <1>8 DEF EnsureDefault, WithDefault, DefaultClients,
           DefaultClient, k

(* A configuration has no client, or no default one.                         *)
NoClients(c) == Clients(c) = <<>>
NoDefault(c) == DefaultOf(c) = ""

(* A client that is given a name reaches what it did.                        *)
LEMMA Retagged ==
  ASSUME NEW client, NEW tag
  PROVE  LET named == Set(client, "tag", tag) IN
         /\ Text(named, "tag") = tag
         /\ Text(named, "detour") = Text(client, "detour")
         /\ Text(named, "dial") = Text(client, "dial")
  BY TextOfSet

(* The first of the clients becomes the default.                             *)
LEMMA FirstIsDefault ==
  ASSUME NEW c, WellTyped(c), "route" \in DOMAIN c, Remote(c) # {}, ~NormalizeRefused(c),
         NeedsDefault(c), NoDefault(c), ~NoClients(c)
  PROVE  PutsIn(c, EnsureDefault(Cleaned(c)))
<1> DEFINE clients == Clients(c)
           first == FirstTag(c)
           tag == DefaultName(c)
           named == ReplaceAt(clients, 1, Set(clients[1], "tag", tag))
           n == EnsureDefault(Cleaned(c))
<1>1. n = WithDefault(Cleaned(c), named, tag)
  BY EnsureDefaultIs DEF DefaultClients, NoClients, NoDefault
<1>2. /\ SameOutbounds(c, n) /\ Clients(n) = named
      /\ IsMap(n) /\ "route" \in DOMAIN n /\ IsMap(n.route)
      /\ "rule_set" \in DOMAIN n.route /\ n.route.rule_set = WithClients(c)
      /\ DefaultOf(n) = tag
  <2> HIDE DEF n, named, tag
  <2>1. HasDefault(c, n, named, tag)
    BY <1>1, WithDefaultIs
  <2> QED BY <2>1 DEF HasDefault
<1>3. /\ IsList(clients) /\ DOMAIN clients = 1 .. Len(clients) /\ Len(clients) \in Nat
      /\ 1 \in DOMAIN clients
  <2>1. IsList(clients) /\ Len(clients) \in Nat /\ DOMAIN clients = 1 .. Len(clients)
    BY ListShape DEF WellTyped
  <2>2. Len(clients) # 0
    <3>1. clients \in Seq(ToSet(clients))
      BY <2>1 DEF IsList
    <3> HIDE DEF clients
    <3>2. clients # <<>>
      BY DEF clients, NoClients
    <3> QED BY <3>1, <3>2, EmptySeq
  <2>3. 1 \in 1 .. Len(clients)
    BY <2>1, <2>2
  <2> QED BY <2>1, <2>3
<1>4. first = Text(clients[1], "tag")
  BY DEF FirstTag, NoClients
<1>5. first = "" => NamedSo(clients, tag) = {} /\ tag # ""
  BY NextTagIsNew DEF WellTyped, DefaultName
<1>6. tag # ""
  BY <1>5 DEF DefaultName
<1>7. /\ first # "" => ValidShared(c, first)
      /\ first = "" => ValidDetour(c, clients[1])
  BY NotRefused DEF NoClients, NoDefault
<1>8. ReachesByDefault(c) = IF first # "" THEN ReachesByShared(c, first) ELSE ReachesBy(c, clients[1])
  BY DEF ReachesByDefault, DefaultOf, FirstTag, NoClients, NoDefault
<1>9. ReachesByDefault(n) = ReachesByShared(n, tag)
  <2>1. Text(n.route, "default_http_client") = tag
    BY <1>2 DEF DefaultOf
  <2> HIDE DEF n, tag
  <2> QED BY <1>6, <2>1 DEF ReachesByDefault
<1>10. DOMAIN named = DOMAIN clients /\ Len(named) = Len(clients) /\ IsList(named)
  <2>1. DOMAIN named = DOMAIN clients /\ named = [i \in DOMAIN clients |-> named[i]]
    BY <1>3 DEF ReplaceAt
  <2> HIDE DEF named, clients
  <2> QED BY <1>3, <2>1, MappedItems
<1>11. \A i \in 1 .. Len(clients) :
         /\ Text(named[i], "detour") = Text(clients[i], "detour")
         /\ Text(named[i], "dial") = Text(clients[i], "dial")
         /\ Text(named[i], "tag") = IF i = 1 THEN tag ELSE Text(clients[i], "tag")
  <2>1. \A i \in 1 .. Len(clients) : named[i] = IF i = 1 THEN Set(clients[1], "tag", tag) ELSE clients[i]
    BY <1>3 DEF ReplaceAt
  <2> HIDE DEF named, clients, tag
  <2> QED BY <2>1, TextOfSet
<1> HIDE DEF named, clients, tag, first, n
<1>12. tag = IF first # "" THEN first ELSE NextTag(c)
  BY DEF tag, first, DefaultName
<1>13. ASSUME NEW name, name # "", NamedSo(clients, name) # {} PROVE NamedSo(named, name) = NamedSo(clients, name)
  <2>1. \A i \in 1 .. Len(clients) : Text(named[i], "tag") = name <=> Text(clients[i], "tag") = name
    <3>1. TAKE i \in 1 .. Len(clients)
    <3>2. CASE first # ""
      BY <1>4, <1>11, <1>12, <3>2
    <3>3. CASE first = "" /\ i # 1
      BY <1>11, <3>3
    <3>4. CASE first = "" /\ i = 1
      <4>1. name # tag
        BY <1>5, <1>13, <3>4
      <4> QED BY <1>4, <1>11, <1>13, <3>4, <4>1
    <3> QED BY <3>2, <3>3, <3>4
  <2> QED BY <1>10, <2>1 DEF NamedSo
<1>14. ASSUME NEW name, name # "", ValidShared(c, name)
       PROVE  ValidShared(n, name) /\ ReachesByShared(n, name) = ReachesByShared(c, name)
  <2> DEFINE i == SharedClient(c, name)
  <2>1. i # 0 /\ ValidDetour(c, clients[i])
    BY <1>14 DEF ValidShared, clients
  <2>2. i \in NamedSo(clients, name)
    BY <1>3, <2>1, SharedIsThere DEF clients
  <2>3. SharedClient(n, name) = i
    <3>1. NamedSo(named, name) = NamedSo(clients, name)
      BY <1>13, <1>14, <2>2
    <3> QED BY <1>2, <3>1, SameNamesSameShared DEF clients
  <2>4. i \in 1 .. Len(clients)
    BY <2>2 DEF NamedSo
  <2> HIDE DEF i
  <2>5. ReachesBy(n, named[i]) = ReachesBy(c, clients[i]) /\ (ValidDetour(n, named[i]) <=> ValidDetour(c, clients[i]))
    BY <1>2, <1>11, <2>4, ClientsSame
  <2>6. ReachesByShared(n, name) = ReachesBy(n, named[i])
    BY <1>2, <2>3 DEF ReachesByShared
  <2>7. ReachesByShared(c, name) = ReachesBy(c, clients[i])
    BY DEF ReachesByShared, clients, i
  <2>8. ValidShared(n, name)
    BY <1>2, <2>1, <2>3, <2>5 DEF ValidShared
  <2> QED BY <2>5, <2>6, <2>7, <2>8
<1>15. ValidShared(n, tag) /\ ReachesByDefault(n) = ReachesByDefault(c)
  <2>1. CASE first # ""
    BY <1>7, <1>8, <1>9, <1>12, <1>14, <2>1
  <2>2. CASE first = ""
    <3>1. NamedSo(named, tag) = {1}
      <4>1. \A i \in 1 .. Len(clients) : Text(named[i], "tag") = tag <=> i = 1
        BY <1>5, <1>11, <2>2 DEF NamedSo
      <4> QED BY <1>3, <1>10, <4>1 DEF NamedSo
    <3>2. SharedClient(n, tag) = 1
      BY <1>2, <1>10, <3>1, SharedIsThere
    <3>3. ReachesBy(n, named[1]) = ReachesBy(c, clients[1]) /\ (ValidDetour(n, named[1]) <=> ValidDetour(c, clients[1]))
      BY <1>2, <1>3, <1>11, ClientsSame
    <3>4. ReachesByShared(n, tag) = ReachesBy(n, named[1])
      BY <1>2, <3>2 DEF ReachesByShared
    <3>5. ValidShared(n, tag)
      <4>1. ValidDetour(n, named[1])
        BY <1>7, <2>2, <3>3
      <4> QED BY <1>2, <3>2, <4>1 DEF ValidShared
    <3> QED BY <1>8, <1>9, <2>2, <3>3, <3>4, <3>5
  <2> QED BY <2>1, <2>2
<1>16. PutsIn(c, n)
  BY <1>2, <1>6, <1>14, <1>15 DEF PutsIn, DefaultOf, NoClients
<1> QED BY <1>16 DEF n

(* A new client becomes the default, through the default outbound.           *)
LEMMA NewIsDefault ==
  ASSUME NEW c, WellTyped(c), "route" \in DOMAIN c, Remote(c) # {}, ~NormalizeRefused(c),
         NeedsDefault(c), NoDefault(c), NoClients(c)
  PROVE  PutsIn(c, EnsureDefault(Cleaned(c)))
<1> DEFINE default == DefaultOutbound(c)
           tag == DefaultName(c)
           client == DefaultClient(c)
           made == Set(client, "tag", tag)
           n == EnsureDefault(Cleaned(c))
<1>1. n = WithDefault(Cleaned(c), <<made>>, tag)
  BY EnsureDefaultIs DEF DefaultClients, NoClients, NoDefault
<1>2. /\ SameOutbounds(c, n) /\ Clients(n) = <<made>>
      /\ IsMap(n) /\ "route" \in DOMAIN n /\ IsMap(n.route)
      /\ "rule_set" \in DOMAIN n.route /\ n.route.rule_set = WithClients(c)
      /\ DefaultOf(n) = tag
  <2> HIDE DEF n, made, tag
  <2>1. HasDefault(c, n, <<made>>, tag)
    BY <1>1, WithDefaultIs
  <2> QED BY <2>1 DEF HasDefault
<1>3. tag # ""
  BY NextTagIsNew DEF WellTyped, DefaultName
<1>4. ASSUME NEW name PROVE ~ValidShared(c, name)
  <2>1. NamedSo(Clients(c), name) = {}
    <3>1. Len(<<>>) = 0 /\ 1 .. 0 = {}
      OBVIOUS
    <3> QED BY <3>1 DEF NamedSo, NoClients
  <2> QED BY <2>1, SharedIs DEF ValidShared
<1>5. default = "" \/ Known(c, default)
  BY NotRefused DEF FirstTag, NoClients, NoDefault
<1>6. /\ Text(made, "tag") = tag /\ Text(made, "detour") = Text(client, "detour")
      /\ Text(made, "dial") = Text(client, "dial")
  <2> HIDE DEF client, tag
  <2> QED BY Retagged
<1>7. /\ ReachesBy(c, client) = IF default = "" THEN Direct("") ELSE Reaches(c, default)
      /\ ValidDetour(c, client) /\ Dialed(c, client)
  <2>1. CASE default = ""
    <3>1. Text("dial" := "", "detour") = "" /\ Text("dial" := "", "dial") = ""
      BY DEF Text, :=
    <3> QED BY <2>1, <3>1 DEF ReachesBy, ValidDetour, Dialed, DefaultClient
  <2>2. CASE default # ""
    <3> HIDE DEF default
    <3>1. /\ ReachesBy(c, ForOutbound(c, default)) = Reaches(c, default)
          /\ ValidDetour(c, ForOutbound(c, default))
          /\ Text(ForOutbound(c, default), "detour") \in {"", default}
          /\ Text(ForOutbound(c, default), "detour") = default => \A o \in Outbounds(c, default) : o.type # "direct"
      BY <1>5, <2>2, ForOutboundIs
    <3>2. Text(ForOutbound(c, default), "detour") # "" => ForOutbound(c, default).detour = default
      BY <3>1 DEF Text
    <3>3. client = ForOutbound(c, default)
      BY <2>2 DEF DefaultClient, default
    <3> QED BY <2>2, <3>1, <3>2, <3>3 DEF Dialed
  <2> QED BY <2>1, <2>2
<1>8. ReachesByDefault(c) = IF default = "" THEN Direct("") ELSE Reaches(c, default)
  <2>1. Text(c.route, "default_http_client") = "" /\ NoClients(c)
    BY DEF DefaultOf, NoDefault
  <2>2. CASE Text(c.route, "final") # ""
    <3>1. c.route.final = Text(c.route, "final")
      BY <2>2 DEF Text
    <3> QED BY <2>1, <2>2, <3>1 DEF ReachesByDefault, DefaultOutbound, NoClients
  <2>3. CASE Text(c.route, "final") = "" /\ Items(c, "outbounds") # <<>>
    <3>1. IndexedTag(c.outbounds, 1) # ""
      <4>1. CASE Text(c.outbounds[1], "tag") = ""
        <5>1. 1 - 1 = 0
          OBVIOUS
        <5>2. IndexedTag(c.outbounds, 1) = Itoa[0]
          BY <4>1, <5>1 DEF IndexedTag
        <5> QED BY <5>2, NamesAssumption
      <4>2. CASE Text(c.outbounds[1], "tag") # ""
        BY <4>2 DEF IndexedTag, Text
      <4> QED BY <4>1, <4>2
    <3> QED BY <2>1, <2>3, <3>1 DEF ReachesByDefault, DefaultOutbound, NoClients
  <2>4. CASE Text(c.route, "final") = "" /\ Items(c, "outbounds") = <<>>
    BY <2>1, <2>4 DEF ReachesByDefault, DefaultOutbound, NoClients
  <2> QED BY <2>2, <2>3, <2>4
<1> HIDE DEF default, tag, client, made, n
<1>9. /\ ReachesBy(n, made) = ReachesBy(c, client)
      /\ ValidDetour(n, made) <=> ValidDetour(c, client)
  BY <1>2, <1>6, ClientsSame
<1>10. SharedClient(n, tag) = 1
  <2>1. IsList(Clients(n)) /\ Len(Clients(n)) = 1 /\ Clients(n)[1] = made
    <3>1. Len(<<made>>) = 1 /\ <<made>>[1] = made
      OBVIOUS
    <3> QED BY <1>2, <3>1, OneItem
  <2>2. NamedSo(Clients(n), tag) = {1}
    <3>1. 1 .. 1 = {1}
      OBVIOUS
    <3> QED BY <1>6, <2>1, <3>1 DEF NamedSo
  <2> QED BY <2>1, <2>2, SharedIsThere
<1>11. ReachesByShared(n, tag) = ReachesBy(n, made) /\ ValidShared(n, tag)
  <2>1. Clients(n)[1] = made
    BY <1>2
  <2>2. ValidDetour(n, made)
    BY <1>7, <1>9
  <2> QED BY <1>10, <2>1, <2>2 DEF ReachesByShared, ValidShared
<1>12. ReachesByDefault(n) = ReachesByShared(n, tag)
  BY <1>2, <1>3 DEF ReachesByDefault, DefaultOf
<1>13. \A item \in ToSet(Clients(n)) : Dialed(n, item)
  <2>1. ToSet(Clients(n)) = {made}
    BY <1>2, OneItem
  <2>2. Dialed(n, made)
    <3>1. CASE Text(client, "detour") = ""
      BY <1>6, <3>1 DEF Dialed
    <3>2. CASE Text(client, "detour") # ""
      <4>1. made.detour = Text(made, "detour") /\ client.detour = Text(client, "detour")
        BY <1>6, <3>2 DEF Text
      <4>2. Outbounds(n, client.detour) = Outbounds(c, client.detour)
        BY <1>2, OutboundsSame
      <4> QED BY <1>6, <1>7, <4>1, <4>2 DEF Dialed
    <3> QED BY <3>1, <3>2
  <2> QED BY <2>1, <2>2
<1>14. PutsIn(c, n)
  BY <1>2, <1>3, <1>4, <1>7, <1>8, <1>9, <1>11, <1>12, <1>13 DEF PutsIn, DefaultOf,
     NoClients
<1> QED BY <1>14 DEF n

(* Whatever the case, PutsIn says what normalization does.                   *)
LEMMA NormalizedPutsIn ==
  ASSUME NEW c, WellTyped(c), "route" \in DOMAIN c, Remote(c) # {}, ~NormalizeRefused(c)
  PROVE  PutsIn(c, NormalizeRuleSetHTTPClients(c))
<1>1. NormalizeRuleSetHTTPClients(c) = IF NeedsDefault(c) THEN EnsureDefault(Cleaned(c)) ELSE Cleaned(c)
  BY DEF NormalizeRuleSetHTTPClients, Cleaned, WithClients, RuleSetsOf
<1>2. CASE ~NeedsDefault(c)
  BY <1>1, <1>2, CleanedPutsIn
<1>3. CASE NeedsDefault(c) /\ DefaultOf(c) # ""
  <2>1. DefaultOf(Cleaned(c)) = DefaultOf(c)
    BY CleanedIs
  <2>2. EnsureDefault(Cleaned(c)) = Cleaned(c)
    BY <1>3, <2>1 DEF EnsureDefault, DefaultOf
  <2> QED BY <1>1, <1>3, <2>2, CleanedPutsIn
<1>4. CASE NeedsDefault(c) /\ DefaultOf(c) = "" /\ Clients(c) # <<>>
  BY <1>1, <1>4, FirstIsDefault DEF NoClients, NoDefault
<1>5. CASE NeedsDefault(c) /\ DefaultOf(c) = "" /\ Clients(c) = <<>>
  BY <1>1, <1>5, NewIsDefault DEF NoClients, NoDefault
<1> QED BY <1>2, <1>3, <1>4, <1>5

(* normalizeRuleSetHTTPClients, for every configuration whose values have    *)
(* their types and that it does not refuse: each remote rule set is          *)
(* downloaded through what it was downloaded through before, the core        *)
(* accepts the result, and doing it once more is neither refused nor changes *)
(* anything.                                                                 *)
THEOREM NormalizationFits ==
  ASSUME NEW c, WellTyped(c), "route" \in DOMAIN c, ~NormalizeRefused(c)
  PROVE  LET n == NormalizeRuleSetHTTPClients(c) IN
         DownloadsAlike(c, n) /\ Fitting(c, n) /\ ~NormalizeRefused(n) /\ NormalizeRuleSetHTTPClients(n) = n
<1> DEFINE n == NormalizeRuleSetHTTPClients(c)
<1>1. CASE Remote(c) = {}
  <2>1. n = c
    BY <1>1 DEF NormalizeRuleSetHTTPClients
  <2>2. Clients(c) = <<>> => ToSet(Clients(c)) = {}
    BY EmptyList
  <2> HIDE DEF n
  <2>3. DownloadsAlike(c, n) /\ Fitting(c, n) /\ ~NormalizeRefused(n)
    BY <1>1, <2>1, <2>2 DEF DownloadsAlike, Fitting, NormalizeRefused
  <2> QED BY <2>1, <2>3 DEF n
<1>2. CASE Remote(c) # {}
  <2>1. PutsIn(c, n)
    BY <1>2, NormalizedPutsIn
  <2> HIDE DEF n
  <2>2. /\ DownloadsAlike(c, n) /\ Fitting(c, n) /\ ~NormalizeRefused(n)
        /\ NormalizeRuleSetHTTPClients(n) = n
    BY <2>1, DownloadsStay, AcceptedThen, NothingMore
  <2> QED BY <2>2 DEF n
<1> QED BY <1>1, <1>2

-----------------------------------------------------------------------------
(* Generator: lists *)

(* A fold over the subsets of 1 .. n that takes up the greatest index last:  *)
(* what the definition of FoldLeft chooses.                                  *)
FoldOf(g, n, V, base, next) ==
  /\ g \in [SUBSET (1 .. n) -> V]
  /\ \A s \in SUBSET (1 .. n) : g[s] = IF s = {} THEN base ELSE next[Max(s)][g[s \ {Max(s)}]]

(* There is one, by induction over the greatest index that is taken up.      *)
LEMMA FoldExists ==
  ASSUME NEW n \in Nat, NEW V, NEW base \in V, NEW next \in [1 .. n -> [V -> V]]
  PROVE  \E g : FoldOf(g, n, V, base, next)
<1> DEFINE Sets(k) == {s \in SUBSET (1 .. n) : \A i \in s : i <= k}
           Folds(k, g) == /\ g \in [Sets(k) -> V]
                          /\ \A s \in Sets(k) : g[s] = IF s = {} THEN base ELSE next[Max(s)][g[s \ {Max(s)}]]
           Good == {k \in Nat : \E g : Folds(k, g)}
<1>1. 0 \in Good
  <2>1. Sets(0) = {{}}
    OBVIOUS
  <2>2. Folds(0, [s \in Sets(0) |-> base])
    BY <2>1
  <2> QED BY <2>2
<1>2. \A k \in Nat : k \in Good => k + 1 \in Good
  <2>1. SUFFICES ASSUME NEW k \in Nat, k \in Good PROVE k + 1 \in Good
    OBVIOUS
  <2>2. PICK g : Folds(k, g)
    BY <2>1
  <2> DEFINE h == [s \in Sets(k + 1) |-> IF k + 1 \in s THEN next[k + 1][g[s \ {k + 1}]] ELSE g[s]]
  <2>3. \A s \in Sets(k + 1) : k + 1 \in s =>
          s # {} /\ Max(s) = k + 1 /\ s \ {k + 1} \in Sets(k) /\ k + 1 \in 1 .. n
    <3>1. SUFFICES ASSUME NEW s \in Sets(k + 1), k + 1 \in s
                   PROVE s # {} /\ Max(s) = k + 1 /\ s \ {k + 1} \in Sets(k) /\ k + 1 \in 1 .. n
      OBVIOUS
    <3>2. Max(s) \in s /\ \A y \in s : Max(s) >= y
      BY <3>1, HasMax
    <3>3. /\ s # {} /\ Max(s) \in 1 .. n /\ Max(s) <= k + 1 /\ Max(s) >= k + 1
          /\ k + 1 \in 1 .. n
      BY <3>1, <3>2
    <3>4. Max(s) = k + 1
      BY <3>3
    <3>5. s \ {k + 1} \in SUBSET (1 .. n) /\ \A i \in s \ {k + 1} : i <= k
      <4>1. \A i \in s \ {k + 1} : i \in 1 .. n /\ i <= k + 1 /\ i # k + 1
        BY <3>1
      <4> QED BY <4>1
    <3> QED BY <3>3, <3>4, <3>5
  <2>4. \A s \in Sets(k + 1) : k + 1 \notin s => s \in Sets(k)
    OBVIOUS
  <2>5. Sets(k) \subseteq Sets(k + 1)
    OBVIOUS
  <2>6. \A s \in Sets(k) : k + 1 \notin s /\ s \ {Max(s)} \in Sets(k) /\ (s # {} => Max(s) \in 1 .. n)
    <3>1. \A s \in Sets(k) : s # {} => Max(s) \in s
      BY HasMax
    <3>2. \A s \in Sets(k) : k + 1 \notin s
      OBVIOUS
    <3>3. \A s \in Sets(k) : s \ {Max(s)} \in Sets(k)
      <4>1. TAKE s \in Sets(k)
      <4>2. \A x : s \ {x} \in Sets(k)
        OBVIOUS
      <4> HIDE DEF Sets
      <4> QED BY <4>2
    <3> QED BY <3>1, <3>2, <3>3
  <2> HIDE DEF Sets
  <2>7. h \in [Sets(k + 1) -> V]
    BY <2>2, <2>3, <2>4
  <2>8. ASSUME NEW s \in Sets(k + 1)
        PROVE  h[s] = IF s = {} THEN base ELSE next[Max(s)][h[s \ {Max(s)}]]
    <3>1. CASE k + 1 \in s
      <4>1. s \ {k + 1} \in Sets(k) /\ k + 1 \notin s \ {k + 1}
        BY <3>1, <2>3
      <4>2. h[s \ {k + 1}] = g[s \ {k + 1}]
        BY <4>1, <2>5
      <4> QED BY <3>1, <2>3, <4>2
    <3>2. CASE k + 1 \notin s
      <4>1. s \in Sets(k) /\ h[s] = g[s]
        BY <3>2, <2>4
      <4>2. h[s \ {Max(s)}] = g[s \ {Max(s)}]
        BY <4>1, <2>5, <2>6
      <4> QED BY <4>1, <4>2, <2>2
    <3> QED BY <3>1, <3>2
  <2>9. Folds(k + 1, h)
    BY <2>7, <2>8
  <2>10. k + 1 \in Nat /\ \E f : Folds(k + 1, f)
    <3> HIDE DEF Folds, h
    <3> QED BY <2>9
  <2> HIDE DEF Folds
  <2> QED BY <2>10
<1>3. n \in Good
  <2>1. Nat \subseteq Good
    <3> HIDE DEF Good
    <3> QED BY <1>1, <1>2, SetInduction
  <2> QED BY <2>1
<1>4. Sets(n) = SUBSET (1 .. n)
  OBVIOUS
<1>5. PICK g : Folds(n, g)
  BY <1>3
<1>6. /\ g \in [SUBSET (1 .. n) -> V]
      /\ \A s \in SUBSET (1 .. n) : g[s] = IF s = {} THEN base ELSE next[Max(s)][g[s \ {Max(s)}]]
  <2> HIDE DEF Sets
  <2> QED BY <1>4, <1>5
<1> QED BY <1>6 DEF FoldOf

(* A list and what it has after an Append.                                   *)
LEMMA AppendList ==
  ASSUME NEW s, IsList(s), NEW x
  PROVE  /\ IsList(Append(s, x))
         /\ ToSet(Append(s, x)) = ToSet(s) \cup {x}
<1> DEFINE T == ToSet(s) \cup {x}
<1>1. s \in Seq(T) /\ x \in T
  BY SeqMonotonic DEF IsList
<1>2. Append(s, x) \in Seq(T) /\ Len(Append(s, x)) = Len(s) + 1
      /\ (\A i \in 1 .. Len(s) : Append(s, x)[i] = s[i]) /\ Append(s, x)[Len(s) + 1] = x
  <2> HIDE DEF T
  <2> QED BY <1>1, AppendProperties
<1>3. DOMAIN s = 1 .. Len(s) /\ DOMAIN Append(s, x) = 1 .. Len(s) + 1 /\ Len(s) \in Nat
  BY <1>1, <1>2
<1>4. ToSet(Append(s, x)) = T
  <2>1. ASSUME NEW e \in ToSet(Append(s, x)) PROVE e \in T
    <3>1. PICK i \in 1 .. Len(s) + 1 : e = Append(s, x)[i]
      BY <1>3 DEF ToSet
    <3>2. CASE i = Len(s) + 1
      BY <3>1, <3>2, <1>2
    <3>3. CASE i \in 1 .. Len(s)
      BY <3>1, <3>3, <1>2, <1>3 DEF ToSet
    <3> QED BY <3>1, <3>2, <3>3, <1>3
  <2>2. ASSUME NEW e \in T PROVE e \in ToSet(Append(s, x))
    <3>1. CASE e = x
      <4>1. Len(s) + 1 \in 1 .. Len(s) + 1
        BY <1>3
      <4> QED BY <3>1, <4>1, <1>2, <1>3 DEF ToSet
    <3>2. CASE e \in ToSet(s)
      <4>1. PICK i \in 1 .. Len(s) : e = s[i]
        BY <3>2, <1>3 DEF ToSet
      <4>2. i \in 1 .. Len(s) + 1 /\ e = Append(s, x)[i]
        BY <4>1, <1>2, <1>3
      <4> QED BY <4>2, <1>3 DEF ToSet
    <3> QED BY <3>1, <3>2
  <2> QED BY <2>1, <2>2
<1> QED BY <1>2, <1>4 DEF IsList

(* The indexes up to k, without k, are those up to k - 1.                    *)
LEMMA PrefixOf ==
  ASSUME NEW n \in Nat, NEW k \in 1 .. n
  PROVE  /\ 1 .. k \in SUBSET (1 .. n) /\ 1 .. k # {} /\ Max(1 .. k) = k
         /\ (1 .. k) \ {k} = 1 .. k - 1
         /\ k - 1 \in Nat /\ 1 .. k - 1 \in SUBSET (1 .. n)
<1>1. 1 .. k \in SUBSET (1 .. n) /\ k \in 1 .. k /\ (1 .. k) \ {k} = 1 .. k - 1 /\ k - 1 \in Nat
      /\ 1 .. k - 1 \in SUBSET (1 .. n)
  OBVIOUS
<1>2. Max(1 .. k) \in 1 .. k /\ \A y \in 1 .. k : Max(1 .. k) >= y
  BY <1>1, HasMax
<1>3. Max(1 .. k) = k
  BY <1>1, <1>2
<1> QED BY <1>1, <1>3

(* h shows the list that Chosen makes of the first k items, for each k.      *)
AddsChosen(h, s, keep) ==
  /\ Chosen(s, keep) = h[1 .. Len(s)]
  /\ h[{}] = <<>>
  /\ \A k \in 1 .. Len(s) :
       h[1 .. k] = IF s[k] \in keep THEN Append(h[1 .. k - 1], s[k]) ELSE h[1 .. k - 1]

(* Chosen goes through the list item by item.                                *)
LEMMA ChosenSteps ==
  ASSUME NEW s, IsList(s), NEW keep
  PROVE  \E h : AddsChosen(h, s, keep)
<1> DEFINE D == DOMAIN s
           n == Len(s)
           V == Seq(ToSet(s))
           Fixed(g) == g = [t \in SUBSET D |->
                                   IF t = {} THEN <<>>
                                   ELSE LET x == Max(t) IN
                                     IF s[x] \in keep THEN Append(g[t \ {x}], s[x])
                                                       ELSE g[t \ {x}]]
           iter == CHOOSE iter : Fixed(iter)
           next == [k \in 1 .. n |-> [v \in V |-> IF s[k] \in keep THEN Append(v, s[k]) ELSE v]]
<1>1. Chosen(s, keep) = iter[D]
  BY DEF Chosen, FoldLeft, MapThenFoldSet
<1>2. n \in Nat /\ D = 1 .. n /\ \A k \in 1 .. n : s[k] \in ToSet(s)
  BY DEF IsList, ToSet
<1>3. next \in [1 .. n -> [V -> V]] /\ <<>> \in V
  BY <1>2
<1>4. \A k \in 1 .. n : \A v \in V : next[k][v] = IF s[k] \in keep THEN Append(v, s[k]) ELSE v
  OBVIOUS
<1>5. \E g : Fixed(g)
  <2> HIDE DEF next, V, n
  <2>1. PICK g : FoldOf(g, n, V, <<>>, next)
    BY <1>2, <1>3, FoldExists
  <2>2. ASSUME NEW t \in SUBSET (1 .. n), t # {}
        PROVE  next[Max(t)][g[t \ {Max(t)}]]
                 = IF s[Max(t)] \in keep THEN Append(g[t \ {Max(t)}], s[Max(t)]) ELSE g[t \ {Max(t)}]
    <3>1. Max(t) \in 1 .. n
      BY <1>2, <2>2, HasMax
    <3>2. g[t \ {Max(t)}] \in V
      BY <2>1 DEF FoldOf
    <3> QED BY <3>1, <3>2, <1>4
  <2>3. Fixed(g)
    BY <2>1, <2>2, <1>2 DEF FoldOf
  <2> HIDE DEF Fixed
  <2> QED BY <2>3
<1>6. Fixed(iter)
  <2> HIDE DEF Fixed
  <2> QED BY <1>5
<1> HIDE DEF iter
<1>7. iter[{}] = <<>>
  BY <1>6
<1>8. \A k \in 1 .. n : iter[1 .. k] = IF s[k] \in keep THEN Append(iter[1 .. k - 1], s[k]) ELSE iter[1 .. k - 1]
  <2> TAKE k \in 1 .. n
  <2>1. /\ 1 .. k \in SUBSET D /\ 1 .. k # {} /\ Max(1 .. k) = k
        /\ (1 .. k) \ {k} = 1 .. k - 1
    BY <1>2, PrefixOf
  <2> HIDE DEF n, D
  <2> QED BY <2>1, <1>6
<1> QED BY <1>1, <1>2, <1>7, <1>8 DEF AddsChosen

(* Chosen gives a list that has the items of s that are in the set, and no   *)
(* other.                                                                    *)
LEMMA ChosenList ==
  ASSUME NEW s, IsList(s), NEW keep
  PROVE  IsList(Chosen(s, keep)) /\ ToSet(Chosen(s, keep)) = ToSet(s) \cap keep
<1> DEFINE n == Len(s)
<1>0. PICK h : AddsChosen(h, s, keep)
  BY ChosenSteps
<1>1. /\ Chosen(s, keep) = h[1 .. n]
      /\ h[{}] = <<>>
      /\ \A k \in 1 .. n :
           h[1 .. k] = IF s[k] \in keep THEN Append(h[1 .. k - 1], s[k]) ELSE h[1 .. k - 1]
  BY <1>0 DEF AddsChosen
<1> DEFINE Upto(k) == {s[i] : i \in 1 .. k}
           Good == {k \in Nat : k <= n => IsList(h[1 .. k]) /\ ToSet(h[1 .. k]) = Upto(k) \cap keep}
<1>2. n \in Nat /\ DOMAIN s = 1 .. n
  BY DEF IsList
<1>3. 0 \in Good
  <2>1. 1 .. 0 = {} /\ Upto(0) = {}
    OBVIOUS
  <2>2. IsList(<<>>) /\ ToSet(<<>>) = {}
    BY DEF IsList, ToSet
  <2> QED BY <2>1, <2>2, <1>1
<1>4. \A k \in Nat : k \in Good => k + 1 \in Good
  <2>1. SUFFICES ASSUME NEW k \in Nat, k \in Good, k + 1 <= n PROVE k + 1 \in Good
    BY DEF Good
  <2>2. k <= n /\ k + 1 \in 1 .. n /\ (k + 1) - 1 = k
    BY <2>1, <1>2
  <2>3. IsList(h[1 .. k]) /\ ToSet(h[1 .. k]) = Upto(k) \cap keep
    BY <2>1, <2>2
  <2>4. Upto(k + 1) = Upto(k) \cup {s[k + 1]}
    <3>1. 1 .. k + 1 = (1 .. k) \cup {k + 1}
      OBVIOUS
    <3> QED BY <3>1
  <2>5. h[1 .. k + 1] = IF s[k + 1] \in keep THEN Append(h[1 .. k], s[k + 1]) ELSE h[1 .. k]
    BY <1>1, <2>2
  <2> HIDE DEF Upto
  <2>6. IsList(h[1 .. k + 1]) /\ ToSet(h[1 .. k + 1]) = Upto(k + 1) \cap keep
    <3>1. CASE s[k + 1] \in keep
      BY <3>1, <2>3, <2>4, <2>5, AppendList
    <3>2. CASE s[k + 1] \notin keep
      BY <3>2, <2>3, <2>4, <2>5
    <3> QED BY <3>1, <3>2
  <2> QED BY <2>6
<1>5. n \in Good
  <2> HIDE DEF Good
  <2> QED BY <1>2, <1>3, <1>4, SetInduction
<1>6. Upto(n) = ToSet(s)
  BY <1>2 DEF ToSet
<1> HIDE DEF Upto, n
<1> QED BY <1>1, <1>2, <1>5, <1>6

-----------------------------------------------------------------------------

(* A list without repetitions, and the outbound for a node of a              *)
(* subscription.                                                             *)
Distinct(s) == \A i, j \in DOMAIN s : s[i] = s[j] => i = j
ProxyOf(s, tag) == [sub |-> s, tag |-> tag]

(* appendUniqueProxy for each of the tags, onto a list of outbounds.         *)
Unique(s, tags, old) ==
  FoldLeft(LAMBDA items, tag :
             IF Contains(items, ProxyOf(s, tag)) THEN items ELSE Append(items, ProxyOf(s, tag)),
           old, tags)

(* A list contains what it has.                                              *)
LEMMA ContainsItem ==
  ASSUME NEW s, IsList(s), NEW e
  PROVE  Contains(s, e) <=> e \in ToSet(s)
<1>1. DOMAIN s = 1 .. Len(s)
  BY DEF IsList
<1> QED BY <1>1 DEF Contains, ToSet

(* What is new can be appended.                                              *)
LEMMA AppendDistinct ==
  ASSUME NEW s, IsList(s), NEW e, e \notin ToSet(s), Distinct(s)
  PROVE  Distinct(Append(s, e))
<1>1. s \in Seq(ToSet(s) \cup {e}) /\ e \in ToSet(s) \cup {e}
  BY SeqMonotonic DEF IsList
<1>2. /\ DOMAIN Append(s, e) = 1 .. Len(s) + 1 /\ DOMAIN s = 1 .. Len(s) /\ Len(s) \in Nat
      /\ \A i \in 1 .. Len(s) : Append(s, e)[i] = s[i]
      /\ Append(s, e)[Len(s) + 1] = e
  <2> DEFINE T == ToSet(s) \cup {e}
  <2> HIDE DEF T
  <2> QED BY <1>1, AppendProperties
<1>3. \A i \in 1 .. Len(s) : s[i] # e
  BY <1>2 DEF ToSet
<1>4. \A i \in 1 .. Len(s) + 1 : i \in 1 .. Len(s) \/ i = Len(s) + 1
  BY <1>2
<1> QED BY <1>2, <1>3, <1>4 DEF Distinct

(* h shows the outbounds after the first k tags, for each k.                 *)
AddsUnique(h, s, tags, old) ==
  /\ Unique(s, tags, old) = h[1 .. Len(tags)]
  /\ h[{}] = old
  /\ \A k \in 1 .. Len(tags) :
       h[1 .. k] = IF Contains(h[1 .. k - 1], ProxyOf(s, tags[k])) THEN h[1 .. k - 1]
                   ELSE Append(h[1 .. k - 1], ProxyOf(s, tags[k]))

(* Unique goes through the tags one by one.                                  *)
LEMMA UniqueSteps ==
  ASSUME NEW s, NEW tags, IsList(tags), NEW old, IsList(old)
  PROVE  \E h : AddsUnique(h, s, tags, old)
<1> DEFINE D == DOMAIN tags
           n == Len(tags)
           V == Seq(ToSet(old) \cup {ProxyOf(s, tag) : tag \in ToSet(tags)})
           Fixed(g) == g = [t \in SUBSET D |->
                                   IF t = {} THEN old
                                   ELSE LET x == Max(t) IN
                                     IF Contains(g[t \ {x}], ProxyOf(s, tags[x])) THEN g[t \ {x}]
                                     ELSE Append(g[t \ {x}], ProxyOf(s, tags[x]))]
           iter == CHOOSE iter : Fixed(iter)
           next == [k \in 1 .. n |-> [v \in V |-> IF Contains(v, ProxyOf(s, tags[k])) THEN v
                                                 ELSE Append(v, ProxyOf(s, tags[k]))]]
<1>1. Unique(s, tags, old) = iter[D]
  BY DEF Unique, FoldLeft, MapThenFoldSet
<1>2. n \in Nat /\ D = 1 .. n /\ \A k \in 1 .. n : tags[k] \in ToSet(tags)
  BY DEF IsList, ToSet
<1>3. next \in [1 .. n -> [V -> V]] /\ old \in V
  <2>1. old \in V
    BY SeqMonotonic DEF IsList
  <2>2. \A k \in 1 .. n : ProxyOf(s, tags[k]) \in ToSet(old) \cup {ProxyOf(s, tag) : tag \in ToSet(tags)}
    BY <1>2
  <2> DEFINE W == ToSet(old) \cup {ProxyOf(s, tag) : tag \in ToSet(tags)}
  <2> HIDE DEF n, D, W
  <2>3. \A k \in 1 .. n : \A v \in V : Append(v, ProxyOf(s, tags[k])) \in V
    BY <2>2, AppendProperties DEF W
  <2> HIDE DEF V
  <2> QED BY <2>1, <2>3
<1>4. \A k \in 1 .. n : \A v \in V :
        next[k][v] = IF Contains(v, ProxyOf(s, tags[k])) THEN v ELSE Append(v, ProxyOf(s, tags[k]))
  <2> HIDE DEF V, n
  <2> QED OBVIOUS
<1>5. \E g : Fixed(g)
  <2> HIDE DEF next, V, n
  <2>1. PICK g : FoldOf(g, n, V, old, next)
    BY <1>2, <1>3, FoldExists
  <2>2. ASSUME NEW t \in SUBSET (1 .. n), t # {}
        PROVE  next[Max(t)][g[t \ {Max(t)}]]
                 = IF Contains(g[t \ {Max(t)}], ProxyOf(s, tags[Max(t)])) THEN g[t \ {Max(t)}]
                   ELSE Append(g[t \ {Max(t)}], ProxyOf(s, tags[Max(t)]))
    <3>1. Max(t) \in 1 .. n
      BY <1>2, <2>2, HasMax
    <3>2. g[t \ {Max(t)}] \in V
      BY <2>1 DEF FoldOf
    <3> QED BY <3>1, <3>2, <1>4
  <2>3. Fixed(g)
    BY <2>1, <2>2, <1>2 DEF FoldOf
  <2> HIDE DEF Fixed
  <2> QED BY <2>3
<1>6. Fixed(iter)
  <2> HIDE DEF Fixed
  <2> QED BY <1>5
<1> HIDE DEF iter
<1>7. iter[{}] = old
  BY <1>6
<1>8. \A k \in 1 .. n :
        iter[1 .. k] = IF Contains(iter[1 .. k - 1], ProxyOf(s, tags[k])) THEN iter[1 .. k - 1]
                       ELSE Append(iter[1 .. k - 1], ProxyOf(s, tags[k]))
  <2> TAKE k \in 1 .. n
  <2>1. /\ 1 .. k \in SUBSET D /\ 1 .. k # {} /\ Max(1 .. k) = k
        /\ (1 .. k) \ {k} = 1 .. k - 1
    BY <1>2, PrefixOf
  <2> HIDE DEF n, D
  <2> QED BY <2>1, <1>6
<1> QED BY <1>1, <1>2, <1>7, <1>8 DEF AddsUnique

(* The outbounds of a subscription's nodes are added to the list, each once. *)
LEMMA UniqueList ==
  ASSUME NEW s, NEW tags, IsList(tags), NEW old, IsList(old), Distinct(old)
  PROVE  /\ IsList(Unique(s, tags, old)) /\ Distinct(Unique(s, tags, old))
         /\ ToSet(Unique(s, tags, old)) = ToSet(old) \cup {ProxyOf(s, tag) : tag \in ToSet(tags)}
<1> DEFINE n == Len(tags)
<1>0. PICK h : AddsUnique(h, s, tags, old)
  BY UniqueSteps
<1>1. /\ Unique(s, tags, old) = h[1 .. n]
      /\ h[{}] = old
      /\ \A k \in 1 .. n :
           h[1 .. k] = IF Contains(h[1 .. k - 1], ProxyOf(s, tags[k])) THEN h[1 .. k - 1]
                       ELSE Append(h[1 .. k - 1], ProxyOf(s, tags[k]))
  BY <1>0 DEF AddsUnique
<1> DEFINE Upto(k) == {ProxyOf(s, tags[i]) : i \in 1 .. k}
           Fine(k) == IsList(h[1 .. k]) /\ Distinct(h[1 .. k]) /\ ToSet(h[1 .. k]) = ToSet(old) \cup Upto(k)
           Good == {k \in Nat : k <= n => Fine(k)}
<1>2. n \in Nat /\ DOMAIN tags = 1 .. n
  BY DEF IsList
<1>3. 0 \in Good
  <2>1. 1 .. 0 = {} /\ Upto(0) = {}
    OBVIOUS
  <2>2. Fine(0)
    BY <2>1, <1>1
  <2> HIDE DEF Fine
  <2> QED BY <2>2
<1>4. \A k \in Nat : k \in Good => k + 1 \in Good
  <2>1. SUFFICES ASSUME NEW k \in Nat, k \in Good, k + 1 <= n PROVE Fine(k + 1)
    <3> HIDE DEF Fine
    <3> QED BY DEF Good
  <2>2. k <= n /\ k + 1 \in 1 .. n /\ (k + 1) - 1 = k
    BY <2>1, <1>2
  <2>3. Fine(k)
    <3> HIDE DEF Fine
    <3> QED BY <2>1, <2>2
  <2>4. Upto(k + 1) = Upto(k) \cup {ProxyOf(s, tags[k + 1])}
    <3>1. 1 .. k + 1 = (1 .. k) \cup {k + 1}
      OBVIOUS
    <3> QED BY <3>1
  <2>5. h[1 .. k + 1] = IF Contains(h[1 .. k], ProxyOf(s, tags[k + 1])) THEN h[1 .. k]
                        ELSE Append(h[1 .. k], ProxyOf(s, tags[k + 1]))
    BY <1>1, <2>2
  <2> HIDE DEF Upto
  <2>6. CASE ProxyOf(s, tags[k + 1]) \in ToSet(h[1 .. k])
    BY <2>6, <2>3, <2>4, <2>5, ContainsItem
  <2>7. CASE ProxyOf(s, tags[k + 1]) \notin ToSet(h[1 .. k])
    <3>1. h[1 .. k + 1] = Append(h[1 .. k], ProxyOf(s, tags[k + 1]))
      BY <2>7, <2>3, <2>5, ContainsItem
    <3> QED BY <3>1, <2>7, <2>3, <2>4, AppendList, AppendDistinct
  <2> QED BY <2>6, <2>7
<1>5. n \in Good
  <2> HIDE DEF Good
  <2> QED BY <1>2, <1>3, <1>4, SetInduction
<1>6. Upto(n) = {ProxyOf(s, tag) : tag \in ToSet(tags)}
  BY <1>2 DEF ToSet
<1>7. Fine(n)
  <2> HIDE DEF Fine, n
  <2> QED BY <1>2, <1>5
<1> HIDE DEF Upto, n
<1> QED BY <1>1, <1>6, <1>7

(* It is what AppendUnique does to proxies.                                  *)
LEMMA AppendUniqueIs ==
  ASSUME NEW s, NEW tags
  PROVE  AppendUnique(s, tags) = Unique(s, tags, proxies)
  BY DEF AppendUnique, Unique, ProxyOf, FoldLeft, MapThenFoldSet

(* What Find finds has the id.                                               *)
LEMMA FindIs ==
  ASSUME NEW items, IsList(items), NEW id
  PROVE  /\ Find(items, id) # 0 => /\ Find(items, id) \in DOMAIN items
                                  /\ items[Find(items, id)].id = id
                                  /\ items[Find(items, id)] \in ToSet(items)
<1> DEFINE I == {i \in 1 .. Len(items) : items[i].id = id}
<1>1. Find(items, id) = IF I # {} THEN Min(I) ELSE 0
  BY DEF Find, SelectInSeq
<1>2. DOMAIN items = 1 .. Len(items) /\ I \in SUBSET Nat
  BY DEF IsList
<1>3. I # {} => Min(I) \in I
  <2> HIDE DEF I
  <2> QED BY <1>2, HasMin
<1> QED BY <1>1, <1>2, <1>3 DEF ToSet

(* The empty list has no repetition.                                         *)
LEMMA EmptyDistinct == Distinct(<<>>)
  BY DEF Distinct

(* Two lists, one after the other.                                           *)
LEMMA ConcatList ==
  ASSUME NEW s, IsList(s), NEW t, IsList(t)
  PROVE  IsList(s \o t) /\ ToSet(s \o t) = ToSet(s) \cup ToSet(t)
<1> DEFINE T == ToSet(s) \cup ToSet(t)
<1>1. s \in Seq(T) /\ t \in Seq(T)
  BY SeqMonotonic DEF IsList
<1>2. /\ s \o t \in Seq(T) /\ Len(s \o t) = Len(s) + Len(t)
      /\ \A i \in 1 .. Len(s) + Len(t) : (s \o t)[i] = IF i <= Len(s) THEN s[i] ELSE t[i - Len(s)]
  <2> HIDE DEF T
  <2> QED BY <1>1, ConcatProperties
<1>3. /\ DOMAIN s = 1 .. Len(s) /\ DOMAIN t = 1 .. Len(t) /\ Len(s) \in Nat
      /\ Len(t) \in Nat
      /\ DOMAIN (s \o t) = 1 .. Len(s) + Len(t)
  BY <1>1, <1>2
<1>4. ToSet(s \o t) \subseteq T
  <2>1. SUFFICES ASSUME NEW i \in 1 .. Len(s) + Len(t) PROVE (s \o t)[i] \in T
    BY <1>3 DEF ToSet
  <2>2. CASE i <= Len(s)
    BY <2>2, <1>2, <1>3 DEF ToSet
  <2>3. CASE ~(i <= Len(s))
    <3>1. i - Len(s) \in 1 .. Len(t)
      BY <2>3, <1>3
    <3> QED BY <3>1, <2>3, <1>2, <1>3 DEF ToSet
  <2> QED BY <2>2, <2>3
<1>5. ToSet(s) \subseteq ToSet(s \o t)
  <2>1. SUFFICES ASSUME NEW i \in 1 .. Len(s) PROVE s[i] \in ToSet(s \o t)
    BY <1>3 DEF ToSet
  <2>2. i \in 1 .. Len(s) + Len(t) /\ (s \o t)[i] = s[i]
    BY <1>2, <1>3
  <2> QED BY <2>2, <1>3 DEF ToSet
<1>6. ToSet(t) \subseteq ToSet(s \o t)
  <2>1. SUFFICES ASSUME NEW i \in 1 .. Len(t) PROVE t[i] \in ToSet(s \o t)
    BY <1>3 DEF ToSet
  <2>2. /\ Len(s) + i \in 1 .. Len(s) + Len(t) /\ ~(Len(s) + i <= Len(s))
        /\ (Len(s) + i) - Len(s) = i
    BY <1>3
  <2>3. (s \o t)[Len(s) + i] = t[i]
    BY <1>2, <2>2
  <2> QED BY <2>2, <2>3, <1>3 DEF ToSet
<1> QED BY <1>2, <1>4, <1>5, <1>6 DEF IsList

(* What is made of a list item by item. *)
LEMMA TagsOfItems ==
  ASSUME NEW items
  PROVE  Tags(items) = {item.tag : item \in ToSet(items)}
  BY DEF Tags, ToSet

-----------------------------------------------------------------------------
(* The invariant *)

(* The profile, the stages and the versions that there are, on disk and      *)
(* read.                                                                     *)
VersionsInv ==
  /\ profile \in Profiles
  /\ stage \in {"load", "outbounds", "generated", "mixed", "done", "refused"}
  /\ subscribes \in [Subs -> Nat] /\ contents \in [Subs -> Nat]
  /\ subscriptions \in [Subs -> Nat] /\ entries \in [Subs -> Nat]
  /\ \A s \in Subs :
       {subscribes[s], subscriptions[s], entries[s], contents[s]}
         \subseteq VersionsOf(s) \cup {NoVersion}

(* The outbound that is next is the one after the groups that are done, and  *)
(* what is collected for them are lists.                                     *)
CursorInv ==
  /\ at \in (Nat \ {0}) \X (Nat \ {0})
  /\ IsList(groups) /\ IsList(members) /\ IsList(proxies) /\ IsList(builtIns)
  /\ at[1] = Len(groups) + 1 /\ at[1] <= Len(profile.outbounds) + 1
  /\ at[1] <= Len(profile.outbounds) => at[2] <= Len(Outbound.outbounds) + 1
  /\ at[2] = 1 => members = <<>>
  /\ stage = "load" => at[1] = 1 /\ at[2] = 1
  /\ ToSet(builtIns) \subseteq {"direct", "block"}
  /\ Distinct(proxies)

(* The tags that the configuration will have an outbound for, and a          *)
(* reference of a group.                                                     *)
KnownTags == Tags(profile.outbounds) \cup Tags(proxies) \cup ToSet(builtIns)
RefOf(i, j) == profile.outbounds[i].outbounds[j]

(* A reference that names a node of a subscription: tags has the tag of that *)
(* node, in the list that was read.                                          *)
MeansNode(i, j, tags) ==
  LET s == RefOf(i, j).type IN
  s \in Subs => /\ subscriptions[s] # NoVersion
                /\ \E node \in ToSet(Nodes[s][subscriptions[s]]) :
                     node.id = RefOf(i, j).id /\ node.tag \in tags

(* The first n references are all of the whole of a subscription.            *)
IsAllOf(i, n, s) == n > 0 /\ \A j \in 1 .. n : RefOf(i, j).type = "Subscription" /\ RefOf(i, j).id = s

(* tags are those of the file that was read, as far as the group's pattern   *)
(* matches them.                                                             *)
HasAllOf(i, s, tags) ==
  /\ entries[s] # NoVersion
  /\ tags = {node.tag : node \in ToSet(Nodes[s][entries[s]])} \cap profile.outbounds[i].match

(* What the tags of a group have to be once n of its references are taken    *)
(* up.                                                                       *)
GroupIs(i, n, tags) ==
  /\ tags \subseteq KnownTags
  /\ \A j \in 1 .. n : MeansNode(i, j, tags)
  /\ \A s \in Subs : IsAllOf(i, n, s) => HasAllOf(i, s, tags)

(* So far for the group at hand ...                                          *)
MembersInv == at[1] <= Len(profile.outbounds) => GroupIs(at[1], at[2] - 1, ToSet(members))

(* ... and for those that are done.                                          *)
GroupsInv ==
  \A i \in DOMAIN groups :
    /\ groups[i].tag = profile.outbounds[i].tag
    /\ "outbounds" \in DOMAIN groups[i]
    /\ GroupIs(i, Len(profile.outbounds[i].outbounds), ToSet(groups[i].outbounds))

(* A configuration is generated when no group is left.                       *)
DoneInv == stage = "generated" => at[1] > Len(profile.outbounds)

(* The inductive invariant.                                                  *)
GeneratorInv == VersionsInv /\ CursorInv /\ MembersInv /\ GroupsInv /\ DoneInv

(* What the assumptions say of a profile.                                    *)
LEMMA ProfileShape ==
  ASSUME profile \in Profiles
  PROVE  /\ IsList(profile.outbounds) /\ IsList(profile.inbounds)
         /\ IsList(profile.route.rules) /\ IsList(profile.route.rule_set)
         /\ IsList(profile.dns.servers) /\ IsList(profile.dns.rules)
         /\ \A i \in 1 .. Len(profile.outbounds) :
              /\ IsList(profile.outbounds[i].outbounds)
              /\ \A j \in 1 .. Len(profile.outbounds[i].outbounds) : RefOf(i, j).id # ""
         /\ DOMAIN profile.outbounds = 1 .. Len(profile.outbounds)
         /\ Len(profile.outbounds) \in Nat
<1>1. /\ IsList(profile.outbounds) /\ IsList(profile.inbounds)
      /\ IsList(profile.route.rules) /\ IsList(profile.route.rule_set)
      /\ IsList(profile.dns.servers) /\ IsList(profile.dns.rules)
  BY ProfilesAssumption
<1>2. /\ DOMAIN profile.outbounds = 1 .. Len(profile.outbounds)
      /\ Len(profile.outbounds) \in Nat
  BY <1>1 DEF IsList
<1>3. ASSUME NEW i \in 1 .. Len(profile.outbounds)
      PROVE  /\ IsList(profile.outbounds[i].outbounds)
             /\ \A j \in DOMAIN profile.outbounds[i].outbounds : profile.outbounds[i].outbounds[j].id # ""
  BY <1>2, ProfilesAssumption
<1>4. ASSUME NEW i \in 1 .. Len(profile.outbounds)
      PROVE  DOMAIN profile.outbounds[i].outbounds = 1 .. Len(profile.outbounds[i].outbounds)
  BY <1>3, ListShape
<1> QED BY <1>1, <1>2, <1>3, <1>4 DEF RefOf

(* ... and of the nodes of a subscription.                                   *)
LEMMA NodesShape ==
  ASSUME NEW s \in Subs
  PROVE  /\ s # "Built-in" /\ s # "Subscription"
         /\ Len(Nodes[s]) \in Nat \ {0} /\ 1 \in VersionsOf(s)
         /\ VersionsOf(s) \subseteq Nat
         /\ NoVersion = 0 /\ NoVersion \notin VersionsOf(s)
         /\ \A v \in VersionsOf(s) : IsList(Nodes[s][v])
<1>1. /\ s \notin {"Built-in", "Subscription"} /\ IsList(Nodes[s]) /\ Nodes[s] # <<>>
      /\ NoVersion = 0
      /\ \A v \in VersionsOf(s) : IsList(Nodes[s][v])
  BY GeneratorAssumption
<1>2. Len(Nodes[s]) \in Nat \ {0}
  BY <1>1 DEF IsList
<1> QED BY <1>1, <1>2 DEF VersionsOf

-----------------------------------------------------------------------------
(* What a step does that takes up a reference of a group *)

(* A reference is taken up: the members grow by known tags, what is read     *)
(* stays read, a reference to a whole subscription adds the tags that match, *)
(* and one to a node adds the tag of that node.                              *)
RefDone ==
  /\ stage = "outbounds" /\ at[1] \in 1 .. Len(profile.outbounds)
  /\ at[2] \in 1 .. Len(Outbound.outbounds)
  /\ at' = <<at[1], at[2] + 1>>
  /\ OutboundStep /\ UNCHANGED groups
  /\ IsList(members') /\ ToSet(members) \subseteq ToSet(members')
  /\ ToSet(members') \subseteq ToSet(members) \cup (KnownTags)'
  /\ IsList(proxies') /\ Distinct(proxies') /\ ToSet(proxies) \subseteq ToSet(proxies')
  /\ IsList(builtIns') /\ ToSet(builtIns') \subseteq {"direct", "block"}
  /\ ToSet(builtIns) \subseteq ToSet(builtIns')
  /\ entries' \in [Subs -> Nat]
  /\ \A s \in Subs : /\ entries'[s] \in VersionsOf(s) \cup {NoVersion}
                     /\ entries[s] # NoVersion => entries'[s] = entries[s]
                     /\ Ref.type = "Subscription" /\ Ref.id = s =>
                          /\ entries'[s] # NoVersion
                          /\ ToSet(members') = ToSet(members)
                               \cup ({node.tag : node \in ToSet(Nodes[s][entries'[s]])} \cap Outbound.match)
                     /\ Ref.type = s =>
                          /\ subscriptions[s] # NoVersion
                          /\ \E node \in ToSet(Nodes[s][subscriptions[s]]) :
                               node.id = Ref.id /\ node.tag \in ToSet(members')

(* The reference that is next is one of the profile.                         *)
LEMMA AtRefIs ==
  ASSUME VersionsInv, CursorInv, AtRef
  PROVE  /\ stage = "outbounds" /\ at[1] \in 1 .. Len(profile.outbounds)
         /\ at[2] \in 1 .. Len(Outbound.outbounds)
         /\ IsList(Outbound.outbounds) /\ Ref.id # "" /\ Ref = RefOf(at[1], at[2])
         /\ IsList(profile.outbounds)
<1>1. profile \in Profiles /\ at[1] \in Nat \ {0} /\ at[2] \in Nat \ {0}
  BY DEF VersionsInv, CursorInv
<1>2. at[1] <= Len(profile.outbounds) /\ at[2] <= Len(Outbound.outbounds)
  BY DEF AtRef
<1>3. at[1] \in 1 .. Len(profile.outbounds) /\ IsList(profile.outbounds)
  <2>1. Len(profile.outbounds) \in Nat /\ IsList(profile.outbounds)
    BY <1>1, ProfileShape
  <2> QED BY <1>1, <1>2, <2>1
<1>4. IsList(Outbound.outbounds)
  BY <1>1, <1>3, ProfileShape DEF Outbound
<1>5. at[2] \in 1 .. Len(Outbound.outbounds)
  BY <1>1, <1>2, <1>4, ListShape
<1>6. Ref.id # ""
  BY <1>1, <1>3, <1>5, ProfileShape DEF Ref, Outbound, RefOf
<1> QED BY <1>3, <1>4, <1>5, <1>6 DEF AtRef, Ref, RefOf, Outbound

(* A reference to direct or block.                                           *)
LEMMA BuiltInStep ==
  ASSUME VersionsInv, CursorInv, AddBuiltIn
  PROVE  RefDone
<1>1. AtRef /\ IsBuiltIn
  BY DEF AddBuiltIn
<1>2. /\ IsList(members) /\ IsList(builtIns) /\ IsList(proxies) /\ Distinct(proxies)
      /\ ToSet(builtIns) \subseteq {"direct", "block"}
  BY DEF CursorInv
<1>3. /\ members' = Append(members, Ref.id) /\ IsList(members')
      /\ ToSet(members') = ToSet(members) \cup {Ref.id}
  BY <1>2, AppendList DEF AddBuiltIn
<1>4. Ref.id \in {"direct", "block"} /\ Ref.type = "Built-in"
  BY <1>1 DEF IsBuiltIn
<1>5. IsList(builtIns') /\ ToSet(builtIns') = ToSet(builtIns) \cup {Ref.id}
  <2>1. CASE Contains(builtIns, Ref.id)
    BY <2>1, <1>2, ContainsItem DEF AddBuiltIn
  <2>2. CASE ~Contains(builtIns, Ref.id)
    BY <2>2, <1>2, AppendList DEF AddBuiltIn
  <2> QED BY <2>1, <2>2
<1>6. Ref.id \in (KnownTags)'
  BY <1>5 DEF KnownTags
<1>7. /\ entries' = entries /\ proxies' = proxies /\ groups' = groups
      /\ at' = <<at[1], at[2] + 1>> /\ OutboundStep
  BY DEF AddBuiltIn, NextRef
<1>8. \A s \in Subs : Ref.type # s
  BY <1>4, NodesShape
<1>9. entries' \in [Subs -> Nat] /\ \A s \in Subs : entries'[s] \in VersionsOf(s) \cup {NoVersion}
  BY <1>7 DEF VersionsInv
<1> QED BY <1>1, <1>2, <1>3, <1>4, <1>5, <1>6, <1>7, <1>8, <1>9, AtRefIs DEF RefDone

(* A reference to an outbound of the profile.                                *)
LEMMA LocalStep ==
  ASSUME VersionsInv, CursorInv, AddLocal
  PROVE  RefDone
<1>1. AtRef /\ IsLocal /\ RefResolves
  BY DEF AddLocal
<1>2. /\ IsList(members) /\ IsList(builtIns) /\ IsList(proxies) /\ Distinct(proxies)
      /\ ToSet(builtIns) \subseteq {"direct", "block"}
  BY DEF CursorInv
<1>3. IsList(members') /\ ToSet(members') = ToSet(members) \cup {OutboundTag(Ref.id)}
  BY <1>2, AppendList DEF AddLocal
<1>4. Ref.type = "Built-in" /\ ~MissingOutbound(Ref.id) /\ Ref.id # ""
  BY <1>1, AtRefIs DEF IsLocal, RefResolves
<1>5. entries' = entries /\ proxies' = proxies /\ groups' = groups /\ builtIns' = builtIns
      /\ at' = <<at[1], at[2] + 1>> /\ OutboundStep /\ profile' = profile
  BY DEF AddLocal, NextRef, OutboundStep
<1>6. OutboundTag(Ref.id) \in Tags(profile.outbounds)
  <2>1. Find(profile.outbounds, Ref.id) # 0
    BY <1>4 DEF MissingOutbound, Missing
  <2>2. Find(profile.outbounds, Ref.id) \in DOMAIN profile.outbounds
    BY <1>1, <2>1, AtRefIs, FindIs
  <2> QED BY <1>4, <2>2 DEF OutboundTag, TagOf, Tags
<1>7. OutboundTag(Ref.id) \in (KnownTags)'
  BY <1>5, <1>6 DEF KnownTags
<1>8. \A s \in Subs : Ref.type # s
  BY <1>4, NodesShape
<1>9. entries' \in [Subs -> Nat] /\ \A s \in Subs : entries'[s] \in VersionsOf(s) \cup {NoVersion}
  BY <1>5 DEF VersionsInv
<1> QED BY <1>1, <1>2, <1>3, <1>4, <1>5, <1>7, <1>8, <1>9, AtRefIs DEF RefDone

(* What is read of a subscription, once and for all.                          *)
LEMMA ReadIs ==
  ASSUME VersionsInv, NEW s, Readable(s)
  PROVE  /\ s \in Subs /\ subscriptions[s] \in VersionsOf(s) /\ Read(s) \in VersionsOf(s)
         /\ entries[s] # NoVersion => Read(s) = entries[s]
         /\ IsList(TagsRead(s))
         /\ ToSet(TagsRead(s)) = {node.tag : node \in ToSet(Nodes[s][Read(s)])}
<1>1. s \in Subs /\ subscriptions[s] # NoVersion /\ Read(s) # NoVersion
  BY DEF Readable
<1>2. {subscriptions[s], entries[s], contents[s]} \subseteq VersionsOf(s) \cup {NoVersion}
  BY <1>1 DEF VersionsInv
<1>3. Read(s) \in VersionsOf(s) /\ subscriptions[s] \in VersionsOf(s)
  BY <1>1, <1>2 DEF Read
<1>4. IsList(Nodes[s][Read(s)])
  BY <1>1, <1>3, NodesShape
<1>5. IsList(TagsRead(s))
  <2> DEFINE L == Nodes[s][Read(s)]
             f == [i \in DOMAIN L |-> L[i].tag]
  <2>1. f = [i \in DOMAIN L |-> f[i]]
    OBVIOUS
  <2> HIDE DEF f, L
  <2>2. IsList(f)
    BY <1>4, <2>1, MappedItems DEF L
  <2> QED BY <2>2 DEF TagsRead, f, L
<1>6. ToSet(TagsRead(s)) = {node.tag : node \in ToSet(Nodes[s][Read(s)])}
  BY DEF TagsRead, ToSet
<1> QED BY <1>1, <1>3, <1>5, <1>6 DEF Read

(* What taking up tags of a subscription changes.                            *)
LEMMA AddTagsStep ==
  ASSUME VersionsInv, CursorInv, AtRef, NEW s, Readable(s), NEW tags, IsList(tags),
         AddTags(s, tags)
  PROVE  /\ at' = <<at[1], at[2] + 1>> /\ OutboundStep /\ UNCHANGED groups
         /\ IsList(members') /\ ToSet(members') = ToSet(members) \cup ToSet(tags)
         /\ ToSet(tags) \subseteq (KnownTags)'
         /\ IsList(proxies') /\ Distinct(proxies')
         /\ ToSet(proxies) \subseteq ToSet(proxies')
         /\ builtIns' = builtIns
         /\ entries' \in [Subs -> Nat] /\ entries'[s] = Read(s)
         /\ \A z \in Subs : /\ entries'[z] \in VersionsOf(z) \cup {NoVersion}
                            /\ entries[z] # NoVersion => entries'[z] = entries[z]
<1>1. /\ at' = <<at[1], at[2] + 1>> /\ OutboundStep /\ UNCHANGED groups
      /\ builtIns' = builtIns
      /\ entries' = [entries EXCEPT ![s] = Read(s)]
      /\ members' = members \o tags /\ proxies' = AppendUnique(s, tags)
  BY DEF AddTags, NextRef
<1>2. IsList(members) /\ IsList(proxies) /\ Distinct(proxies)
  BY DEF CursorInv
<1>3. IsList(members') /\ ToSet(members') = ToSet(members) \cup ToSet(tags)
  BY <1>1, <1>2, ConcatList
<1>4. /\ IsList(proxies') /\ Distinct(proxies')
      /\ ToSet(proxies') = ToSet(proxies) \cup {ProxyOf(s, tag) : tag \in ToSet(tags)}
  BY <1>1, <1>2, AppendUniqueIs, UniqueList
<1>5. ToSet(tags) \subseteq Tags(proxies')
  <2>1. SUFFICES ASSUME NEW tag \in ToSet(tags) PROVE tag \in Tags(proxies')
    OBVIOUS
  <2>2. ProxyOf(s, tag) \in ToSet(proxies') /\ ProxyOf(s, tag).tag = tag
    BY <1>4 DEF ProxyOf
  <2> QED BY <2>2, TagsOfItems
<1>6. s \in Subs /\ Read(s) \in VersionsOf(s) /\ Read(s) \in Nat /\ entries \in [Subs -> Nat]
      /\ (entries[s] # NoVersion => Read(s) = entries[s])
  BY ReadIs, NodesShape DEF VersionsInv
<1>7. \A z \in Subs : entries[z] \in VersionsOf(z) \cup {NoVersion}
  BY DEF VersionsInv
<1> QED BY <1>1, <1>3, <1>4, <1>5, <1>6, <1>7 DEF KnownTags

(* A reference to a whole subscription.                                      *)
LEMMA SubscriptionStep ==
  ASSUME VersionsInv, CursorInv, AddSubscription
  PROVE  RefDone
<1> DEFINE s == Ref.id
           tags == Chosen(TagsRead(Ref.id), Outbound.match)
<1>1. AtRef /\ IsWhole /\ RefResolves /\ AddTags(s, tags)
  BY DEF AddSubscription
<1>2. Readable(s) /\ Ref.type = "Subscription"
  BY <1>1 DEF RefResolves, IsWhole
<1>3. /\ IsList(tags)
      /\ ToSet(tags) = {node.tag : node \in ToSet(Nodes[s][Read(s)])} \cap Outbound.match
  BY <1>2, ReadIs, ChosenList
<1>4. s \in Subs /\ Read(s) # NoVersion
  BY <1>2 DEF Readable
<1>5. \A z \in Subs : Ref.type # z
  BY <1>2, NodesShape
<1>6. ToSet(builtIns) \subseteq {"direct", "block"} /\ IsList(builtIns)
  BY DEF CursorInv
<1> HIDE DEF s, tags
<1>7. /\ at' = <<at[1], at[2] + 1>> /\ OutboundStep /\ UNCHANGED groups
      /\ IsList(members') /\ ToSet(members') = ToSet(members) \cup ToSet(tags)
      /\ ToSet(tags) \subseteq (KnownTags)'
      /\ IsList(proxies') /\ Distinct(proxies')
      /\ ToSet(proxies) \subseteq ToSet(proxies')
      /\ builtIns' = builtIns
      /\ entries' \in [Subs -> Nat] /\ entries'[s] = Read(s)
      /\ \A z \in Subs : /\ entries'[z] \in VersionsOf(z) \cup {NoVersion}
                         /\ entries[z] # NoVersion => entries'[z] = entries[z]
  BY <1>1, <1>2, <1>3, AddTagsStep
<1>8. \A z \in Subs : Ref.id = z =>
        /\ entries'[z] # NoVersion
        /\ ToSet(members') = ToSet(members)
             \cup ({node.tag : node \in ToSet(Nodes[z][entries'[z]])} \cap Outbound.match)
  BY <1>3, <1>4, <1>7 DEF s
<1> QED BY <1>1, <1>5, <1>6, <1>7, <1>8, AtRefIs DEF RefDone

(* A reference to a node of a subscription.                                  *)
LEMMA NodeStep ==
  ASSUME VersionsInv, CursorInv, AddNode
  PROVE  RefDone
<1> DEFINE s == Ref.type
           tag == CHOOSE tag \in Available(Ref.type, Ref.id) : TRUE
           tags == <<tag>>
<1>1. AtRef /\ IsNode /\ RefResolves /\ AddTags(s, tags)
  BY DEF AddNode
<1>2. /\ Readable(s) /\ NodeListed(s, Ref.id) /\ Available(s, Ref.id) # {}
      /\ s # "Subscription"
  BY <1>1 DEF RefResolves, IsNode
<1>3. tag \in Available(s, Ref.id)
  BY <1>2
<1> HIDE DEF tag
<1>4. IsList(tags) /\ ToSet(tags) = {tag}
  BY OneItem
<1>5. tag = NodeTag(s, Ref.id)
  BY <1>3 DEF Available
<1>6. s \in Subs /\ subscriptions[s] # NoVersion /\ IsList(Nodes[s][subscriptions[s]])
  BY <1>2, ReadIs, NodesShape
<1>7. \E node \in ToSet(Nodes[s][subscriptions[s]]) : node.id = Ref.id /\ node.tag = tag
  <2>1. Find(Nodes[s][subscriptions[s]], Ref.id) # 0
    BY <1>2 DEF NodeListed
  <2> DEFINE L == Nodes[s][subscriptions[s]]
             id == Ref.id
  <2> HIDE DEF L, id
  <2>2. L[Find(L, id)] \in ToSet(L) /\ L[Find(L, id)].id = id
    BY <1>6, <2>1, FindIs DEF L, id
  <2>3. tag = L[Find(L, id)].tag
    BY <1>5 DEF NodeTag, L, id
  <2> QED BY <2>2, <2>3 DEF L, id
<1>8. ToSet(builtIns) \subseteq {"direct", "block"} /\ IsList(builtIns)
  BY DEF CursorInv
<1> HIDE DEF s, tags
<1>9. /\ at' = <<at[1], at[2] + 1>> /\ OutboundStep /\ UNCHANGED groups
      /\ IsList(members') /\ ToSet(members') = ToSet(members) \cup ToSet(tags)
      /\ ToSet(tags) \subseteq (KnownTags)'
      /\ IsList(proxies') /\ Distinct(proxies')
      /\ ToSet(proxies) \subseteq ToSet(proxies')
      /\ builtIns' = builtIns
      /\ entries' \in [Subs -> Nat] /\ entries'[s] = Read(s)
      /\ \A z \in Subs : /\ entries'[z] \in VersionsOf(z) \cup {NoVersion}
                         /\ entries[z] # NoVersion => entries'[z] = entries[z]
  BY <1>1, <1>2, <1>4, AddTagsStep
<1>10. \A z \in Subs : Ref.type = z =>
         /\ subscriptions[z] # NoVersion
         /\ \E node \in ToSet(Nodes[z][subscriptions[z]]) : node.id = Ref.id /\ node.tag \in ToSet(members')
  BY <1>4, <1>6, <1>7, <1>9 DEF s
<1> QED BY <1>1, <1>2, <1>8, <1>9, <1>10, AtRefIs DEF RefDone, s

-----------------------------------------------------------------------------
(* Versions *)

(* Every step keeps the versions: the entry of a subscription that is there  *)
(* follows its file.                                                         *)
LEMMA VersionsHold == GeneratorInv /\ [GeneratorNext]_generatorVars => VersionsInv'
<1> SUFFICES ASSUME GeneratorInv, [GeneratorNext]_generatorVars PROVE VersionsInv'
  OBVIOUS
<1>0. VersionsInv /\ CursorInv
  BY DEF GeneratorInv
<1> DEFINE Disk == subscribes' = subscribes /\ contents' = contents
           Lists == subscriptions' = subscriptions /\ entries' = entries
           Stages == {"load", "outbounds", "generated", "mixed", "done", "refused"}
<1>1. CASE Load
  <2>1. /\ profile' = profile /\ stage' = "outbounds" /\ Disk
        /\ subscriptions' = subscribes /\ entries' = entries
    BY <1>1 DEF Load, diskOfSubscriptions
  <2> QED BY <2>1, <1>0 DEF VersionsInv
<1>2. CASE RefDone
  <2>1. profile' = profile /\ stage' = stage /\ Disk /\ subscriptions' = subscriptions
    BY <1>2 DEF RefDone, OutboundStep, diskOfSubscriptions
  <2>2. entries' \in [Subs -> Nat] /\ \A s \in Subs : entries'[s] \in VersionsOf(s) \cup {NoVersion}
    BY <1>2 DEF RefDone
  <2> QED BY <2>1, <2>2, <1>0 DEF VersionsInv
<1>3. CASE AddOutbound
  <2>1. profile' = profile /\ stage' = stage /\ Disk /\ Lists
    BY <1>3 DEF AddOutbound, OutboundStep, diskOfSubscriptions
  <2> QED BY <2>1, <1>0 DEF VersionsInv
<1>4. CASE GenerateConfig \/ ApplyMixinAndScript \/ NormalizeClients \/ Refuse
  <2>1. profile' = profile /\ stage' \in Stages /\ Disk /\ Lists
    BY <1>4 DEF GenerateConfig, ApplyMixinAndScript, NormalizeClients, Refuse,
       FromProfile,
       diskOfSubscriptions
  <2> QED BY <2>1, <1>0 DEF VersionsInv
<1>5. ASSUME NEW s \in Subs, ChangeOf(s) PROVE VersionsInv'
  <2>1. profile' = profile /\ stage' = stage /\ Lists
    BY <1>5 DEF ChangeOf
  <2>2. /\ VersionsOf(s) \subseteq Nat /\ NoVersion = 0 /\ subscribes \in [Subs -> Nat]
        /\ contents \in [Subs -> Nat]
        /\ {subscribes[s], contents[s]} \subseteq VersionsOf(s) \cup {NoVersion}
    BY <1>0, NodesShape DEF VersionsInv
  <2>3. \E sub, con \in VersionsOf(s) \cup {NoVersion} :
          /\ subscribes' = [subscribes EXCEPT ![s] = sub]
          /\ contents' = [contents EXCEPT ![s] = con]
    <3>1. /\ subscribes = [subscribes EXCEPT ![s] = subscribes[s]]
          /\ contents = [contents EXCEPT ![s] = contents[s]]
      BY <2>2
    <3>2. CASE WriteFile(s) \/ RemoveFile(s)
      <4>1. /\ subscribes' = subscribes
            /\ \E con \in VersionsOf(s) \cup {NoVersion} :
                 contents' = [contents EXCEPT ![s] = con]
        BY <3>2 DEF WriteFile, RemoveFile
      <4> QED BY <4>1, <2>2, <3>1
    <3>3. CASE SaveEntry(s) \/ RemoveEntry(s)
      <4>1. /\ contents' = contents
            /\ \E sub \in VersionsOf(s) \cup {NoVersion} :
                 subscribes' = [subscribes EXCEPT ![s] = sub]
        BY <3>3 DEF SaveEntry, RemoveEntry
      <4> QED BY <4>1, <2>2, <3>1
    <3> QED BY <1>5, <3>2, <3>3 DEF ChangeOf
  <2>4. PICK sub, con \in VersionsOf(s) \cup {NoVersion} :
          /\ subscribes' = [subscribes EXCEPT ![s] = sub]
          /\ contents' = [contents EXCEPT ![s] = con]
    BY <2>3
  <2>5. sub \in Nat /\ con \in Nat
    BY <2>2, <2>4
  <2>6. subscribes' \in [Subs -> Nat] /\ contents' \in [Subs -> Nat]
    BY <2>2, <2>4, <2>5
  <2>7. ASSUME NEW z \in Subs
        PROVE  {subscribes'[z], contents'[z]} \subseteq VersionsOf(z) \cup {NoVersion}
    <3>1. CASE z = s
      BY <3>1, <2>2, <2>4
    <3>2. CASE z # s
      <4>1. subscribes'[z] = subscribes[z] /\ contents'[z] = contents[z]
        BY <3>2, <2>2, <2>4
      <4> QED BY <4>1, <1>0 DEF VersionsInv
    <3> QED BY <3>1, <3>2
  <2> QED BY <2>1, <2>6, <2>7, <1>0 DEF VersionsInv
<1>6. CASE UNCHANGED generatorVars
  <2>1. profile' = profile /\ stage' = stage /\ Disk /\ Lists
    BY <1>6 DEF generatorVars
  <2> QED BY <2>1, <1>0 DEF VersionsInv
<1>7. AddBuiltIn \/ AddLocal \/ AddSubscription \/ AddNode => RefDone
  BY <1>0, BuiltInStep, LocalStep, SubscriptionStep, NodeStep
<1> QED BY <1>1, <1>2, <1>3, <1>4, <1>5, <1>6, <1>7 DEF GeneratorNext

(* What leaves the outbounds as they are. *)
OutboundsStay ==
  /\ UNCHANGED <<profile, subscriptions, entries, at, members, groups, proxies, builtIns>>
  /\ stage' = "load" => stage = "load"

(* A step takes up the list, a reference or an outbound, or leaves the       *)
(* outbounds as they are.                                                    *)
LEMMA OtherSteps ==
  ASSUME GeneratorInv, [GeneratorNext]_generatorVars
  PROVE  Load \/ RefDone \/ AddOutbound \/ OutboundsStay
<1>1. VersionsInv /\ CursorInv
  BY DEF GeneratorInv
<1>2. AddBuiltIn \/ AddLocal \/ AddSubscription \/ AddNode => RefDone
  BY <1>1, BuiltInStep, LocalStep, SubscriptionStep, NodeStep
<1>3. GenerateConfig => OutboundsStay
  BY DEF GenerateConfig, OutboundsStay, FromProfile, outboundVars
<1>4. ApplyMixinAndScript \/ NormalizeClients \/ Refuse => OutboundsStay
  BY DEF ApplyMixinAndScript, NormalizeClients, Refuse, OutboundsStay, FromProfile,
     outboundVars
<1>5. \A s \in Subs : ChangeOf(s) => OutboundsStay
  BY DEF ChangeOf, OutboundsStay, outboundVars
<1>6. UNCHANGED generatorVars => OutboundsStay
  BY DEF generatorVars, OutboundsStay, outboundVars
<1> QED BY <1>2, <1>3, <1>4, <1>5, <1>6 DEF GeneratorNext

-----------------------------------------------------------------------------
(* The place in the profile *)

(* Every step keeps the place in the profile.                                *)
LEMMA CursorHolds == GeneratorInv /\ [GeneratorNext]_generatorVars => CursorInv'
<1> SUFFICES ASSUME GeneratorInv, [GeneratorNext]_generatorVars PROVE CursorInv'
  OBVIOUS
<1>0. VersionsInv /\ CursorInv /\ profile \in Profiles
  BY DEF GeneratorInv, VersionsInv
<1>1. CASE Load
  <2>1. /\ UNCHANGED <<profile, at, members, groups, proxies, builtIns>>
        /\ stage' = "outbounds"
    BY <1>1 DEF Load, outboundVars
  <2> QED BY <2>1, <1>0 DEF CursorInv, Outbound
<1>2. CASE RefDone
  <2>1. /\ at' = <<at[1], at[2] + 1>> /\ groups' = groups /\ profile' = profile
        /\ stage' = stage /\ stage = "outbounds"
        /\ at[1] \in 1 .. Len(profile.outbounds) /\ at[2] \in 1 .. Len(Outbound.outbounds)
        /\ IsList(members') /\ IsList(proxies') /\ IsList(builtIns')
        /\ ToSet(builtIns') \subseteq {"direct", "block"} /\ Distinct(proxies')
    BY <1>2 DEF RefDone, OutboundStep
  <2>2. /\ at'[1] = at[1] /\ at'[2] = at[2] + 1 /\ at' \in (Nat \ {0}) \X (Nat \ {0})
        /\ at'[2] # 1
    BY <2>1, <1>0 DEF CursorInv
  <2>3. (Outbound)' = Outbound
    BY <2>1, <2>2 DEF Outbound
  <2>4. at[2] + 1 <= Len(Outbound.outbounds) + 1
    BY <2>1
  <2>5. IsList(groups) /\ at[1] = Len(groups) + 1 /\ at[1] <= Len(profile.outbounds) + 1
    BY <1>0 DEF CursorInv
  <2> QED BY <2>1, <2>2, <2>3, <2>4, <2>5 DEF CursorInv
<1>3. CASE AddOutbound
  <2>1. /\ members' = <<>> /\ at' = <<at[1] + 1, 1>>
        /\ UNCHANGED <<profile, proxies, builtIns>>
        /\ stage' = "outbounds" /\ at[1] <= Len(profile.outbounds)
        /\ \E g : groups' = Append(groups, g)
    BY <1>3 DEF AddOutbound, OutboundStep
  <2>2. IsList(groups) /\ at[1] = Len(groups) + 1 /\ at \in (Nat \ {0}) \X (Nat \ {0})
    BY <1>0 DEF CursorInv
  <2>3. IsList(groups') /\ Len(groups') = Len(groups) + 1
    <3>1. PICK g : groups' = Append(groups, g)
      BY <2>1
    <3>2. Len(Append(groups, g)) = Len(groups) + 1
      BY <2>2 DEF IsList
    <3> QED BY <3>1, <3>2, <2>2, AppendList
  <2>4. Len(groups) \in Nat /\ Len(profile.outbounds) \in Nat /\ IsList(profile.outbounds)
    BY <2>2, <1>0, ListShape, ProfileShape
  <2>5. /\ at'[1] = at[1] + 1 /\ at'[2] = 1 /\ at' \in (Nat \ {0}) \X (Nat \ {0})
        /\ at'[1] <= Len(profile.outbounds) + 1
    BY <2>1, <2>2, <2>4
  <2>6. at'[1] <= Len(profile'.outbounds) => at'[2] <= Len((Outbound)'.outbounds) + 1
    <3>1. SUFFICES ASSUME at'[1] <= Len(profile.outbounds)
                   PROVE 1 <= Len(profile.outbounds[at[1] + 1].outbounds) + 1
      BY <2>1, <2>5 DEF Outbound
    <3>2. at[1] + 1 \in 1 .. Len(profile.outbounds)
      BY <3>1, <2>2, <2>4, <2>5
    <3>3. IsList(profile.outbounds[at[1] + 1].outbounds)
      BY <3>2, <1>0, ProfileShape
    <3>4. Len(profile.outbounds[at[1] + 1].outbounds) \in Nat
      BY <3>3, ListShape
    <3> QED BY <3>4
  <2>7. IsList(<<>>)
    BY EmptyList
  <2> QED BY <2>1, <2>2, <2>3, <2>5, <2>6, <2>7, <1>0 DEF CursorInv
<1>4. CASE OutboundsStay
  <2>1. UNCHANGED <<profile, at, members, groups, proxies, builtIns>> /\ (stage' = "load" => stage = "load")
    BY <1>4 DEF OutboundsStay
  <2> QED BY <2>1, <1>0 DEF CursorInv, Outbound
<1> QED BY <1>1, <1>2, <1>3, <1>4, OtherSteps

-----------------------------------------------------------------------------
(* The groups *)

(* What a group has to be, it stays as long as what was read stays and tags  *)
(* are only added.                                                           *)
LEMMA GroupGrows ==
  ASSUME NEW i, NEW n, NEW tags, GroupIs(i, n, tags),
         profile' = profile, subscriptions' = subscriptions,
         \A s \in Subs : entries[s] # NoVersion => entries'[s] = entries[s],
         KnownTags \subseteq (KnownTags)'
  PROVE  (GroupIs(i, n, tags))'
<1>1. tags \subseteq (KnownTags)'
  BY DEF GroupIs
<1>2. \A j \in 1 .. n : (MeansNode(i, j, tags))'
  BY DEF GroupIs, MeansNode, RefOf
<1>3. \A s \in Subs : (IsAllOf(i, n, s))' => (HasAllOf(i, s, tags))'
  BY DEF GroupIs, IsAllOf, HasAllOf, RefOf
<1> QED BY <1>1, <1>2, <1>3 DEF GroupIs

(* So the groups that are done stay right.                                   *)
LEMMA GroupsStay ==
  ASSUME GroupsInv, groups' = groups,
         profile' = profile, subscriptions' = subscriptions,
         \A s \in Subs : entries[s] # NoVersion => entries'[s] = entries[s],
         KnownTags \subseteq (KnownTags)'
  PROVE  GroupsInv'
<1>1. SUFFICES ASSUME NEW i \in DOMAIN groups
               PROVE  /\ groups[i].tag = profile.outbounds[i].tag
                      /\ "outbounds" \in DOMAIN groups[i]
                      /\ (GroupIs(i, Len(profile.outbounds[i].outbounds), ToSet(groups[i].outbounds)))'
  BY DEF GroupsInv
<1>2. PICK tags, n : tags = ToSet(groups[i].outbounds) /\ n = Len(profile.outbounds[i].outbounds)
  OBVIOUS
<1>3. GroupIs(i, n, tags)
  BY <1>2 DEF GroupsInv
<1>4. (GroupIs(i, n, tags))'
  BY <1>3, GroupGrows
<1> QED BY <1>1, <1>2, <1>4 DEF GroupsInv, GroupIs

(* Taking up a reference only adds tags.                                     *)
LEMMA TagsGrow ==
  ASSUME RefDone
  PROVE  KnownTags \subseteq (KnownTags)'
<1>1. /\ profile' = profile /\ ToSet(proxies) \subseteq ToSet(proxies')
      /\ ToSet(builtIns) \subseteq ToSet(builtIns')
  BY DEF RefDone, OutboundStep
<1>2. Tags(proxies) \subseteq Tags(proxies')
  BY <1>1, TagsOfItems
<1> QED BY <1>1, <1>2 DEF KnownTags

(* The group at hand is right after one more reference ...                   *)
LEMMA MembersAfterRef ==
  ASSUME GeneratorInv, RefDone
  PROVE  MembersInv'
<1>1. VersionsInv /\ CursorInv /\ MembersInv
  BY DEF GeneratorInv
<1>2. /\ stage = "outbounds" /\ at[1] \in 1 .. Len(profile.outbounds)
      /\ at[2] \in 1 .. Len(Outbound.outbounds)
      /\ at' = <<at[1], at[2] + 1>> /\ profile' = profile
      /\ subscriptions' = subscriptions
      /\ ToSet(members) \subseteq ToSet(members')
      /\ ToSet(members') \subseteq ToSet(members) \cup (KnownTags)'
      /\ \A s \in Subs : entries[s] # NoVersion => entries'[s] = entries[s]
  BY DEF RefDone, OutboundStep
<1>3. KnownTags \subseteq (KnownTags)'
  BY TagsGrow
<1>4. PICK i, n, old, new :
        /\ i = at[1] /\ n = at[2] /\ old = ToSet(members) /\ new = ToSet(members')
  OBVIOUS
<1>5. at'[1] = i /\ at'[2] = n + 1 /\ n \in Nat \ {0} /\ i \in Nat /\ at'[2] - 1 = n /\ at[2] - 1 = n - 1
      /\ i <= Len(profile.outbounds)
  <2>1. at[1] \in Nat /\ at[2] \in Nat \ {0}
    BY <1>1 DEF CursorInv
  <2>2. at[1] <= Len(profile.outbounds)
    BY <1>2
  <2> QED BY <2>1, <2>2, <1>2, <1>4
<1>6. GroupIs(i, n - 1, old)
  BY <1>1, <1>4, <1>5 DEF MembersInv
<1>7. (GroupIs(i, n - 1, old))'
  BY <1>6, <1>2, <1>3, GroupGrows
<1>8. new \subseteq (KnownTags)'
  BY <1>2, <1>4, <1>7 DEF GroupIs
<1>9. /\ Ref = RefOf(i, n) /\ Ref = (RefOf(i, n))' /\ Outbound = profile.outbounds[i]
      /\ profile'.outbounds[i] = profile.outbounds[i]
  BY <1>2, <1>4 DEF Ref, Outbound, RefOf
<1>10. ASSUME NEW j \in 1 .. n PROVE (MeansNode(i, j, new))'
  <2>1. CASE j = n
    <3>1. PICK s : s = Ref.type
      OBVIOUS
    <3>2. s \in Subs => /\ subscriptions'[s] # NoVersion
                        /\ \E node \in ToSet(Nodes[s][subscriptions'[s]]) : node.id = Ref.id /\ node.tag \in new
      BY <3>1, <1>2, <1>4 DEF RefDone
    <3> QED BY <2>1, <3>1, <3>2, <1>9 DEF MeansNode
  <2>2. CASE j # n
    <3>1. j \in 1 .. n - 1
      BY <2>2, <1>5
    <3>2. (MeansNode(i, j, old))'
      BY <3>1, <1>7 DEF GroupIs
    <3> QED BY <3>2, <1>2, <1>4 DEF MeansNode
  <2> QED BY <2>1, <2>2
<1>11. ASSUME NEW s \in Subs, (IsAllOf(i, n, s))' PROVE (HasAllOf(i, s, new))'
  <2>1. Ref.type = "Subscription" /\ Ref.id = s
    BY <1>5, <1>9, <1>11 DEF IsAllOf
  <2>2. /\ entries'[s] # NoVersion
        /\ new = old \cup ({node.tag : node \in ToSet(Nodes[s][entries'[s]])} \cap profile.outbounds[i].match)
    BY <2>1, <1>4, <1>9 DEF RefDone
  <2>3. CASE n = 1
    <3>1. members = <<>>
      BY <2>3, <1>1, <1>4 DEF CursorInv
    <3>2. old = {}
      BY <3>1, <1>4, EmptyList
    <3> QED BY <2>2, <3>2, <1>9 DEF HasAllOf
  <2>4. CASE n # 1
    <3>1. (IsAllOf(i, n - 1, s))'
      <4>1. n - 1 > 0 /\ \A j \in 1 .. n - 1 : j \in 1 .. n
        BY <2>4, <1>5
      <4> QED BY <4>1, <1>11 DEF IsAllOf
    <3>2. (HasAllOf(i, s, old))'
      BY <3>1, <1>7 DEF GroupIs
    <3> QED BY <2>2, <3>2, <1>9 DEF HasAllOf
  <2> QED BY <2>3, <2>4
<1>12. (GroupIs(i, n, new))'
  BY <1>8, <1>10, <1>11 DEF GroupIs
<1> QED BY <1>12, <1>4, <1>5 DEF MembersInv, GroupIs

(* ... and so are those that are done.                                       *)
LEMMA GroupsAfterRef ==
  ASSUME GeneratorInv, RefDone
  PROVE  GroupsInv'
<1>1. groups' = groups /\ profile' = profile /\ subscriptions' = subscriptions
      /\ \A s \in Subs : entries[s] # NoVersion => entries'[s] = entries[s]
  BY DEF RefDone, OutboundStep
<1> QED BY <1>1, TagsGrow, GroupsStay DEF GeneratorInv

(* The group at hand joins them when its references are done.                *)
LEMMA AfterOutbound ==
  ASSUME GeneratorInv, AddOutbound
  PROVE  MembersInv' /\ GroupsInv'
<1>1. VersionsInv /\ CursorInv /\ MembersInv /\ GroupsInv /\ profile \in Profiles
  BY DEF GeneratorInv, VersionsInv
<1> DEFINE g == ("type" := Outbound.type) ++ ("tag" := Outbound.tag)
                  ++ Field("dial", Outbound.dial) ++ ("outbounds" := members)
<1>2. /\ groups' = Append(groups, g) /\ members' = <<>> /\ at' = <<at[1] + 1, 1>>
      /\ UNCHANGED <<profile, subscriptions, entries, proxies, builtIns>>
      /\ at[1] <= Len(profile.outbounds) /\ at[2] > Len(Outbound.outbounds)
  BY DEF AddOutbound, OutboundStep
<1>3. g.tag = Outbound.tag /\ "outbounds" \in DOMAIN g /\ g.outbounds = members
  BY DEF :=, ++, Field, Empty
<1> HIDE DEF g
<1>4. PICK i, n, tags : i = at[1] /\ n = at[2] - 1 /\ tags = ToSet(members)
  OBVIOUS
<1>5. /\ i = Len(groups) + 1 /\ i \in Nat /\ i \in 1 .. Len(profile.outbounds)
      /\ n = Len(profile.outbounds[i].outbounds)
  <2>1. /\ at \in (Nat \ {0}) \X (Nat \ {0}) /\ at[1] = Len(groups) + 1
        /\ at[2] <= Len(Outbound.outbounds) + 1
    BY <1>1, <1>2 DEF CursorInv
  <2>2. Len(profile.outbounds) \in Nat
    BY <1>1, ProfileShape
  <2>3. at[1] \in 1 .. Len(profile.outbounds)
    BY <1>2, <2>1, <2>2
  <2>4. IsList(Outbound.outbounds)
    BY <1>1, <2>3, ProfileShape DEF Outbound
  <2>5. Len(Outbound.outbounds) \in Nat
    BY <2>4, ListShape
  <2>6. at[2] - 1 = Len(Outbound.outbounds)
    BY <1>2, <2>1, <2>5
  <2> QED BY <2>1, <2>3, <2>6, <1>4 DEF Outbound
<1>6. GroupIs(i, n, tags)
  BY <1>1, <1>2, <1>4 DEF MembersInv
<1>7. ASSUME NEW k, NEW m, NEW z, GroupIs(k, m, z) PROVE (GroupIs(k, m, z))'
  <2>1. KnownTags \subseteq (KnownTags)'
    BY <1>2 DEF KnownTags
  <2> QED BY <1>2, <1>7, <2>1, GroupGrows
<1>8. MembersInv'
  <2>1. ToSet(<<>>) = {}
    BY EmptyList
  <2>2. at'[2] - 1 = 0 /\ 1 .. 0 = {}
    BY <1>2
  <2> QED BY <1>2, <2>1, <2>2 DEF MembersInv, GroupIs, IsAllOf
<1>9. GroupsInv'
  <2>1. IsList(groups)
    BY <1>1 DEF CursorInv
  <2>2. /\ DOMAIN groups' = 1 .. Len(groups) + 1 /\ DOMAIN groups = 1 .. Len(groups)
        /\ Len(groups) \in Nat
        /\ groups'[i] = g /\ \A k \in DOMAIN groups : groups'[k] = groups[k]
    <3>1. groups \in Seq(ToSet(groups) \cup {g}) /\ g \in ToSet(groups) \cup {g}
      BY <2>1, SeqMonotonic DEF IsList
    <3> DEFINE T == ToSet(groups) \cup {g}
    <3> HIDE DEF T
    <3> QED BY <3>1, <1>2, <1>5, AppendProperties
  <2>3. ASSUME NEW k \in DOMAIN groups'
        PROVE  /\ groups'[k].tag = profile'.outbounds[k].tag
               /\ "outbounds" \in DOMAIN groups'[k]
               /\ (GroupIs(k, Len(profile.outbounds[k].outbounds), ToSet(groups[k].outbounds)))'
    <3>1. CASE k \in DOMAIN groups
      <4>1. PICK m, z : m = Len(profile.outbounds[k].outbounds) /\ z = ToSet(groups[k].outbounds)
        OBVIOUS
      <4>2. /\ GroupIs(k, m, z) /\ groups[k].tag = profile.outbounds[k].tag
            /\ "outbounds" \in DOMAIN groups[k]
        BY <3>1, <4>1, <1>1 DEF GroupsInv
      <4>3. (GroupIs(k, m, z))'
        BY <4>2, <1>7
      <4>4. m = Len(profile'.outbounds[k].outbounds) /\ z = ToSet(groups'[k].outbounds)
        BY <3>1, <4>1, <2>2, <1>2
      <4> QED BY <3>1, <4>2, <4>3, <4>4, <2>2, <1>2 DEF GroupIs
    <3>2. CASE k = i
      <4>1. (GroupIs(i, n, tags))'
        BY <1>6, <1>7
      <4>2. n = Len(profile'.outbounds[k].outbounds) /\ tags = ToSet(groups'[k].outbounds)
        BY <3>2, <1>2, <1>3, <1>4, <1>5, <2>2
      <4>3. /\ groups'[k].tag = profile'.outbounds[k].tag
            /\ "outbounds" \in DOMAIN groups'[k]
        BY <3>2, <1>2, <1>3, <1>4, <2>2 DEF Outbound
      <4> QED BY <3>2, <4>1, <4>2, <4>3 DEF GroupIs
    <3>3. k \in DOMAIN groups \/ k = i
      BY <2>2, <1>5
    <3> QED BY <3>1, <3>2, <3>3
  <2> QED BY <2>3 DEF GroupsInv
<1> QED BY <1>8, <1>9

(* Every step keeps the groups right.                                        *)
LEMMA GroupsHold == GeneratorInv /\ [GeneratorNext]_generatorVars => MembersInv' /\ GroupsInv'
<1> SUFFICES ASSUME GeneratorInv, [GeneratorNext]_generatorVars PROVE MembersInv' /\ GroupsInv'
  OBVIOUS
<1>0. CursorInv /\ MembersInv /\ GroupsInv
  BY DEF GeneratorInv
<1>1. CASE Load
  <2>1. /\ stage = "load"
        /\ UNCHANGED <<profile, at, members, groups, entries, proxies, builtIns>>
    BY <1>1 DEF Load, outboundVars
  <2>2. /\ at[1] = 1 /\ at[2] = 1 /\ IsList(groups) /\ at[1] = Len(groups) + 1
        /\ members = <<>>
    BY <2>1, <1>0 DEF CursorInv
  <2>3. DOMAIN groups = {}
    <3>1. DOMAIN groups = 1 .. Len(groups) /\ Len(groups) \in Nat
      BY <2>2, ListShape
    <3>2. Len(groups) = 0
      BY <2>2, <3>1
    <3> QED BY <3>1, <3>2
  <2>4. GroupsInv'
    BY <2>1, <2>3 DEF GroupsInv
  <2>5. MembersInv'
    <3>1. ToSet(members') = {} /\ at'[2] - 1 = 0 /\ 1 .. 0 = {}
      BY <2>1, <2>2, EmptyList
    <3> QED BY <3>1 DEF MembersInv, GroupIs, IsAllOf
  <2> QED BY <2>4, <2>5
<1>2. CASE RefDone
  BY <1>2, MembersAfterRef, GroupsAfterRef
<1>3. CASE AddOutbound
  BY <1>3, AfterOutbound
<1>4. CASE OutboundsStay
  <2>1. UNCHANGED <<profile, subscriptions, entries, at, members, groups, proxies, builtIns>>
    BY <1>4 DEF OutboundsStay
  <2>2. KnownTags \subseteq (KnownTags)'
    BY <2>1 DEF KnownTags
  <2>3. GroupsInv'
    BY <2>1, <2>2, <1>0, GroupsStay
  <2>4. MembersInv'
    <3>1. PICK i, n, z : i = at[1] /\ n = at[2] - 1 /\ z = ToSet(members)
      OBVIOUS
    <3>2. GroupIs(i, n, z) => (GroupIs(i, n, z))'
      BY <2>1, <2>2, GroupGrows
    <3> QED BY <3>1, <3>2, <2>1, <1>0 DEF MembersInv, GroupIs
  <2> QED BY <2>3, <2>4
<1> QED BY <1>1, <1>2, <1>3, <1>4, OtherSteps

(* Every step keeps DoneInv.                                                 *)
LEMMA DoneHolds == GeneratorInv /\ [GeneratorNext]_generatorVars => DoneInv'
<1> SUFFICES ASSUME GeneratorInv, [GeneratorNext]_generatorVars, stage' = "generated" PROVE DoneInv'
  BY DEF DoneInv
<1>1. CASE GenerateConfig
  BY <1>1 DEF GenerateConfig, FromProfile, outboundVars, OutboundsDone, DoneInv
<1>2. CASE UNCHANGED generatorVars \/ \E s \in Subs : ChangeOf(s)
  BY <1>2 DEF generatorVars, outboundVars, ChangeOf, DoneInv, GeneratorInv
<1>3. ~Load /\ ~AddOutbound /\ ~ApplyMixinAndScript /\ ~NormalizeClients /\ ~Refuse
  BY DEF Load, AddOutbound, OutboundStep, ApplyMixinAndScript, NormalizeClients, Refuse
<1>4. ~AddBuiltIn /\ ~AddLocal /\ ~AddSubscription /\ ~AddNode
  BY DEF AddBuiltIn, AddLocal, AddSubscription, AddNode, AddTags, OutboundStep, AtRef
<1> QED BY <1>1, <1>2, <1>3, <1>4 DEF GeneratorNext

(* GeneratorInv holds initially.                                             *)
LEMMA InitHolds == GeneratorInit => GeneratorInv
<1> SUFFICES ASSUME GeneratorInit PROVE GeneratorInv
  OBVIOUS
<1>1. /\ profile \in Profiles /\ stage = "load"
      /\ subscribes = [s \in Subs |-> 1] /\ contents = [s \in Subs |-> 1]
      /\ subscriptions = [s \in Subs |-> NoVersion]
      /\ entries = [s \in Subs |-> NoVersion]
      /\ at = <<1, 1>> /\ members = <<>> /\ groups = <<>> /\ proxies = <<>>
      /\ builtIns = <<>>
  BY DEF GeneratorInit
<1>2. VersionsInv
  <2>1. \A s \in Subs : 1 \in VersionsOf(s) /\ NoVersion = 0
    BY NodesShape
  <2>2. NoVersion = 0
    BY GeneratorAssumption
  <2> QED BY <1>1, <2>1, <2>2 DEF VersionsInv
<1>3. CursorInv
  <2>1. Len(<<>>) = 0 /\ IsList(<<>>) /\ Distinct(<<>>) /\ ToSet(<<>>) = {}
    BY EmptyList, EmptyDistinct
  <2>2. Len(profile.outbounds) \in Nat
    BY <1>1, ProfileShape
  <2>3. 1 <= Len(profile.outbounds) => 1 <= Len(Outbound.outbounds) + 1
    <3>1. SUFFICES ASSUME 1 <= Len(profile.outbounds) PROVE Len(Outbound.outbounds) \in Nat
      OBVIOUS
    <3>2. 1 \in 1 .. Len(profile.outbounds)
      BY <2>2, <3>1
    <3>3. IsList(profile.outbounds[1].outbounds)
      BY <1>1, <3>2, ProfileShape
    <3> QED BY <3>3, <1>1, ListShape DEF Outbound
  <2> QED BY <1>1, <2>1, <2>2, <2>3 DEF CursorInv
<1>4. MembersInv
  <2>1. ToSet(members) = {} /\ at[2] - 1 = 0 /\ 1 .. 0 = {}
    BY <1>1, EmptyList
  <2> QED BY <2>1 DEF MembersInv, GroupIs, IsAllOf
<1>5. GroupsInv
  BY <1>1 DEF GroupsInv
<1> QED BY <1>1, <1>2, <1>3, <1>4, <1>5 DEF GeneratorInv, DoneInv

(* GeneratorInv is an invariant.                                             *)
THEOREM Invariant == GeneratorSpec => []GeneratorInv
<1>1. GeneratorInit => GeneratorInv
  BY InitHolds
<1>2. GeneratorInv /\ [GeneratorNext]_generatorVars => GeneratorInv'
  BY VersionsHold, CursorHolds, GroupsHold, DoneHolds DEF GeneratorInv
<1> QED BY <1>1, <1>2, PTL DEF GeneratorSpec

(* The types follow from it.                                                 *)
LEMMA GeneratorTypesFollow == GeneratorInv => GeneratorTypeOK
<1> SUFFICES ASSUME GeneratorInv PROVE GeneratorTypeOK
  OBVIOUS
<1>1. VersionsInv /\ CursorInv
  BY DEF GeneratorInv
<1>2. \A s \in Subs :
        {subscribes[s], contents[s], subscriptions[s], entries[s]}
          \subseteq VersionsOf(s) \cup {NoVersion}
  BY <1>1 DEF VersionsInv
<1> QED BY <1>1, <1>2 DEF VersionsInv, CursorInv, GeneratorTypeOK, Distinct

(* GeneratorTypeOK holds for every profile and every subscription: what is     *)
(* read is a version that there is, and a node of several groups gets one      *)
(* outbound.                                                                  *)
THEOREM GeneratorTypes == GeneratorSpec => []GeneratorTypeOK
  BY Invariant, GeneratorTypesFollow, PTL

(* In what is generated every outbound of the profile is done.               *)
LEMMA GroupsAreDone ==
  ASSUME GeneratorInv, stage = "generated"
  PROVE  DOMAIN groups = DOMAIN profile.outbounds
<1>1. /\ IsList(groups) /\ at[1] = Len(groups) + 1 /\ at[1] <= Len(profile.outbounds) + 1
      /\ at[1] > Len(profile.outbounds) /\ profile \in Profiles
  BY DEF GeneratorInv, CursorInv, DoneInv, VersionsInv
<1>2. /\ DOMAIN groups = 1 .. Len(groups) /\ Len(groups) \in Nat
      /\ DOMAIN profile.outbounds = 1 .. Len(profile.outbounds)
      /\ Len(profile.outbounds) \in Nat
  BY <1>1, ListShape, ProfileShape
<1>3. Len(groups) = Len(profile.outbounds)
  BY <1>1, <1>2
<1> QED BY <1>2, <1>3

(* NodesAreMeant follows from GeneratorInv.                                  *)
LEMMA NodesFollow == GeneratorInv => NodesAreMeant
<1> SUFFICES ASSUME GeneratorInv, stage = "generated" PROVE NodesAreMeant
  BY DEF NodesAreMeant, OneRead
<1>1. DOMAIN groups = DOMAIN profile.outbounds /\ GroupsInv /\ profile \in Profiles
  BY GroupsAreDone DEF GeneratorInv, VersionsInv
<1>2. ASSUME NEW i \in DOMAIN profile.outbounds
      PROVE  /\ GroupIs(i, Len(profile.outbounds[i].outbounds), ToSet(groups[i].outbounds))
             /\ IsList(profile.outbounds[i].outbounds)
             /\ DOMAIN profile.outbounds[i].outbounds = 1 .. Len(profile.outbounds[i].outbounds)
             /\ Len(profile.outbounds[i].outbounds) \in Nat
  <2>1. GroupIs(i, Len(profile.outbounds[i].outbounds), ToSet(groups[i].outbounds))
    BY <1>1 DEF GroupsInv
  <2>2. IsList(profile.outbounds[i].outbounds)
    BY <1>1, ProfileShape
  <2> QED BY <2>1, <2>2, ListShape
<1>3. OneRead
  <2>1. SUFFICES ASSUME NEW i \in DOMAIN profile.outbounds, NEW s \in Subs,
                        {<<ref.type, ref.id>> : ref \in ToSet(profile.outbounds[i].outbounds)}
                          = {<<"Subscription", s>>}
                 PROVE  ToSet(groups[i].outbounds)
                          = {node.tag : node \in ToSet(Nodes[s][entries[s]])} \cap profile.outbounds[i].match
    BY DEF OneRead
  <2> DEFINE refs == profile.outbounds[i].outbounds
  <2>2. \A j \in DOMAIN refs : refs[j] \in ToSet(refs)
    BY DEF ToSet
  <2>3. \A ref \in ToSet(refs) : ref.type = "Subscription" /\ ref.id = s
    <3>1. TAKE ref \in ToSet(refs)
    <3>2. <<ref.type, ref.id>> = <<"Subscription", s>>
      BY <2>1
    <3> QED BY <3>2
  <2>4. \E j \in DOMAIN refs : TRUE
    BY <2>1 DEF ToSet
  <2>5. IsAllOf(i, Len(refs), s)
    BY <1>2, <2>2, <2>3, <2>4 DEF IsAllOf, RefOf
  <2> QED BY <1>2, <2>5 DEF GroupIs, HasAllOf
<1>4. ASSUME NEW i \in DOMAIN profile.outbounds, NEW j \in DOMAIN profile.outbounds[i].outbounds,
             NEW s, s = profile.outbounds[i].outbounds[j].type,
             s \in Subs, subscribes[s] = subscriptions[s], contents[s] = subscribes[s]
      PROVE  \E node \in ToSet(Nodes[s][contents[s]]) :
               node.id = profile.outbounds[i].outbounds[j].id /\ node.tag \in ToSet(groups[i].outbounds)
  <2>1. MeansNode(i, j, ToSet(groups[i].outbounds))
    BY <1>2 DEF GroupIs
  <2> QED BY <2>1, <1>4 DEF MeansNode, RefOf
<1> QED BY <1>3, <1>4 DEF NodesAreMeant

(* NodesAreMeant: the groups of a generated configuration have the very nodes *)
(* they name by id, unless the subscription has changed since the list was    *)
(* read or its entry and its file differ, and two groups agree on what a       *)
(* subscription has.                                                         *)
THEOREM NodesInGroupsAreMeant == GeneratorSpec => []NodesAreMeant
  BY Invariant, NodesFollow, PTL

-----------------------------------------------------------------------------
(* Maps of the configuration *)

(* What a map names under a key is one of the tags; all that it lists under  *)
(* a key are.                                                                *)
NamesIn(map, key, tags) == key \in DOMAIN map => map[key] \in tags
ListsIn(map, key, tags) == ToSet(Items(map, key)) \subseteq tags

(* Merging, single keys and optional fields keep that.                       *)
LEMMA NamesMerged ==
  ASSUME NEW f, NEW g, NEW key, NEW tags, NamesIn(f, key, tags), NamesIn(g, key, tags)
  PROVE  NamesIn(f ++ g, key, tags)
  BY DEF NamesIn, ++

(* ... a single key ...                                                      *)
LEMMA NamesKey ==
  ASSUME NEW k, NEW value, NEW key, NEW tags, k = key => value \in tags
  PROVE  NamesIn(k := value, key, tags)
  BY DEF NamesIn, :=

(* ... no key ...                                                            *)
LEMMA NamesEmpty == ASSUME NEW key, NEW tags PROVE NamesIn(Empty, key, tags)
  BY DEF NamesIn, Empty

(* ... and a field that is left out when it is empty.                        *)
LEMMA NamesField ==
  ASSUME NEW k, NEW value, NEW key, NEW tags, k = key => value = "" \/ value \in tags
  PROVE  NamesIn(Field(k, value), key, tags)
<1>1. CASE value = ""
  BY <1>1, NamesEmpty DEF Field
<1>2. CASE value # ""
  BY <1>2, NamesKey DEF Field
<1> QED BY <1>1, <1>2

(* The same of lists: merging ...                                            *)
LEMMA ListsMerged ==
  ASSUME NEW f, NEW g, NEW key, NEW tags, ListsIn(f, key, tags), ListsIn(g, key, tags)
  PROVE  ListsIn(f ++ g, key, tags)
<1>1. Items(f ++ g, key) = Items(f, key) \/ Items(f ++ g, key) = Items(g, key)
  BY DEF Items, ++
<1> QED BY <1>1 DEF ListsIn

(* ... a single key ...                                                      *)
LEMMA ListsKey ==
  ASSUME NEW k, NEW value, NEW key, NEW tags, k = key => ToSet(value) \subseteq tags
  PROVE  ListsIn(k := value, key, tags)
<1>1. CASE k = key
  <2>1. Items(k := value, key) = value
    BY <1>1 DEF Items, :=
  <2> QED BY <1>1, <2>1 DEF ListsIn
<1>2. CASE k # key
  <2>1. Items(k := value, key) = <<>>
    BY <1>2 DEF Items, :=
  <2> QED BY <2>1, EmptyList DEF ListsIn
<1> QED BY <1>1, <1>2

(* ... no key ...                                                            *)
LEMMA ListsEmpty == ASSUME NEW key, NEW tags PROVE ListsIn(Empty, key, tags)
<1>1. Items(Empty, key) = <<>>
  BY DEF Items, Empty
<1> QED BY <1>1, EmptyList DEF ListsIn

(* ... a field of another key ...                                            *)
LEMMA ListsField ==
  ASSUME NEW k, NEW value, NEW key, NEW tags, k # key
  PROVE  ListsIn(Field(k, value), key, tags)
<1>1. CASE value = ""
  BY <1>1, ListsEmpty DEF Field
<1>2. CASE value # ""
  BY <1>2, ListsKey DEF Field
<1> QED BY <1>1, <1>2

(* ... and a list that is left out when it is empty,                         *)
LEMMA ListsField2 ==
  ASSUME NEW k, NEW value, NEW key, NEW tags, k = key => ToSet(value) \subseteq tags
  PROVE  ListsIn(Field2(k, value), key, tags)
<1>1. CASE value = <<>>
  BY <1>1, ListsEmpty DEF Field2
<1>2. CASE value # <<>>
  BY <1>2, ListsKey DEF Field2
<1> QED BY <1>1, <1>2

(* which names nothing.                                                      *)
LEMMA NamesField2 ==
  ASSUME NEW k, NEW value, NEW key, NEW tags, k # key
  PROVE  NamesIn(Field2(k, value), key, tags)
<1>1. CASE value = <<>>
  BY <1>1, NamesEmpty DEF Field2
<1>2. CASE value # <<>>
  BY <1>2, NamesKey DEF Field2
<1> QED BY <1>1, <1>2

-----------------------------------------------------------------------------
(* The tags of the configuration *)

(* The tags of the inbounds that are enabled.                                *)
EnabledTags == {profile.inbounds[i].tag : i \in {j \in DOMAIN profile.inbounds : profile.inbounds[j].enable}}

(* An id that is not missing is resolved to the tag of an outbound, if it is *)
(* not empty ...                                                             *)
LEMMA OutboundTagIs ==
  ASSUME profile \in Profiles, NEW id, ~MissingOutbound(id)
  PROVE  OutboundTag(id) = "" \/ OutboundTag(id) \in Tags(profile.outbounds)
<1>1. IsList(profile.outbounds)
  BY ProfileShape
<1>2. CASE id = ""
  BY <1>2 DEF OutboundTag, TagOf
<1>3. CASE id # ""
  <2>1. Find(profile.outbounds, id) \in DOMAIN profile.outbounds
    BY <1>1, <1>3, FindIs DEF MissingOutbound, Missing
  <2> QED BY <1>3, <2>1 DEF OutboundTag, TagOf, Tags
<1> QED BY <1>2, <1>3

(* ... or of a DNS server ...                                                *)
LEMMA ServerTagIs ==
  ASSUME profile \in Profiles, NEW id, ~MissingServer(id)
  PROVE  ServerTag(id) = "" \/ ServerTag(id) \in Tags(profile.dns.servers)
<1>1. IsList(profile.dns.servers)
  BY ProfileShape
<1>2. CASE id = ""
  BY <1>2 DEF ServerTag, TagOf
<1>3. CASE id # ""
  <2>1. Find(profile.dns.servers, id) \in DOMAIN profile.dns.servers
    BY <1>1, <1>3, FindIs DEF MissingServer, Missing
  <2> QED BY <1>3, <2>1 DEF ServerTag, TagOf, Tags
<1> QED BY <1>2, <1>3

(* ... or of an enabled inbound ...                                          *)
LEMMA InboundTagIs ==
  ASSUME profile \in Profiles, NEW id, ~InboundMissing(id)
  PROVE  TagOf(profile.inbounds, id) \in EnabledTags
<1>1. IsList(profile.inbounds)
  BY ProfileShape
<1>2. /\ id # "" /\ Find(profile.inbounds, id) # 0
      /\ profile.inbounds[Find(profile.inbounds, id)].enable
  BY DEF InboundMissing
<1>3. Find(profile.inbounds, id) \in DOMAIN profile.inbounds
  BY <1>1, <1>2, FindIs
<1> QED BY <1>2, <1>3 DEF TagOf, EnabledTags

(* ... or of a rule set.                                                     *)
LEMMA RuleSetTagIs ==
  ASSUME profile \in Profiles, NEW id, ~RuleSetMissing(id)
  PROVE  TagOf(profile.route.rule_set, id) \in Tags(profile.route.rule_set)
<1>1. IsList(profile.route.rule_set)
  BY ProfileShape
<1>2. id # "" /\ Find(profile.route.rule_set, id) # 0
  BY DEF RuleSetMissing
<1>3. Find(profile.route.rule_set, id) \in DOMAIN profile.route.rule_set
  BY <1>1, <1>2, FindIs
<1> QED BY <1>2, <1>3 DEF TagOf, Tags

(* Those that are enabled are in the configuration,                          *)
LEMMA InboundsHaveTags ==
  ASSUME profile \in Profiles
  PROVE  EnabledTags \subseteq Tags(Inbounds)
<1> DEFINE all == profile.inbounds
           wanted == {inbound \in ToSet(all) : inbound.enable /\ inbound.configured}
           used == Chosen(all, wanted)
<1>1. IsList(all)
  BY ProfileShape
<1>2. ToSet(used) = ToSet(all) \cap wanted
  <2> HIDE DEF all, wanted
  <2> QED BY <1>1, ChosenList
<1>3. Tags(Inbounds) = {used[i].tag : i \in DOMAIN used}
  <2>1. Inbounds = [i \in DOMAIN used |-> ("tag" := used[i].tag)]
    BY DEF Inbounds
  <2>2. \A i \in DOMAIN used : ("tag" := used[i].tag).tag = used[i].tag
    BY DEF :=
  <2> HIDE DEF used
  <2> QED BY <2>1, <2>2 DEF Tags
<1>4. SUFFICES ASSUME NEW i \in DOMAIN all, all[i].enable PROVE all[i].tag \in Tags(Inbounds)
  BY DEF EnabledTags
<1>5. all[i].configured
  BY ProfilesAssumption
<1>6. all[i] \in ToSet(used)
  BY <1>2, <1>4, <1>5 DEF ToSet
<1> HIDE DEF used, all
<1> QED BY <1>3, <1>6 DEF ToSet

(* and the rule sets                                                         *)
LEMMA RuleSetsHaveTags == Tags(Mapped(profile.route.rule_set, RuleSet)) = Tags(profile.route.rule_set)
<1> DEFINE sets == profile.route.rule_set
<1>1. Mapped(sets, RuleSet) = [i \in DOMAIN sets |-> RuleSet(sets[i])]
  BY DEF Mapped
<1>2. \A item : RuleSet(item).tag = item.tag
  BY DEF RuleSet, :=, ++
<1> HIDE DEF sets
<1>3. Tags(Mapped(sets, RuleSet)) = Tags(sets)
  BY <1>1, <1>2 DEF Tags
<1> QED BY <1>3 DEF sets

(* and the servers are, under their tags.                                    *)
LEMMA ServersHaveTags == Tags(Mapped(profile.dns.servers, Server)) = Tags(profile.dns.servers)
<1> DEFINE servers == profile.dns.servers
<1>1. Mapped(servers, Server) = [i \in DOMAIN servers |-> Server(servers[i])]
  BY DEF Mapped
<1>2. \A item : Server(item).tag = item.tag
  BY DEF Server, :=, ++
<1> HIDE DEF servers
<1>3. Tags(Mapped(servers, Server)) = Tags(servers)
  BY <1>1, <1>2 DEF Tags
<1> QED BY <1>3 DEF servers

(* When the groups are done there is an outbound for each tag that is known, *)
(* and they list no other.                                                   *)
LEMMA OutboundsHaveTags ==
  ASSUME GeneratorInv, OutboundsDone
  PROVE  /\ KnownTags \subseteq Tags(OutboundItems)
         /\ \A item \in ToSet(OutboundItems) : ListsIn(item, "outbounds", KnownTags)
<1> DEFINE fromProxies == Mapped(proxies, LAMBDA proxy : ("type" := "proxy") ++ ("tag" := proxy.tag))
           fromBuiltIns == Mapped(builtIns, LAMBDA tag : ("type" := tag) ++ ("tag" := tag))
<1>1. /\ IsList(groups) /\ IsList(proxies) /\ IsList(builtIns) /\ GroupsInv
      /\ profile \in Profiles
  BY DEF GeneratorInv, CursorInv, VersionsInv
<1>2. DOMAIN groups = DOMAIN profile.outbounds
  <2>1. /\ at[1] = Len(groups) + 1 /\ at[1] <= Len(profile.outbounds) + 1
        /\ at[1] > Len(profile.outbounds)
    BY DEF GeneratorInv, CursorInv, OutboundsDone
  <2>2. /\ DOMAIN groups = 1 .. Len(groups) /\ Len(groups) \in Nat
        /\ DOMAIN profile.outbounds = 1 .. Len(profile.outbounds)
        /\ Len(profile.outbounds) \in Nat
    BY <1>1, ListShape, ProfileShape
  <2>3. Len(groups) = Len(profile.outbounds)
    BY <2>1, <2>2
  <2> QED BY <2>2, <2>3
<1>3. fromProxies = [i \in DOMAIN proxies |-> ("type" := "proxy") ++ ("tag" := proxies[i].tag)]
  BY DEF Mapped
<1>4. fromBuiltIns = [i \in DOMAIN builtIns |-> ("type" := builtIns[i]) ++ ("tag" := builtIns[i])]
  BY DEF Mapped
<1>5. OutboundItems = groups \o fromProxies \o fromBuiltIns
  BY DEF OutboundItems
<1> HIDE DEF fromProxies, fromBuiltIns
<1>6. IsList(fromProxies) /\ IsList(fromBuiltIns)
  <2>1. fromProxies = [i \in DOMAIN proxies |-> fromProxies[i]]
    BY <1>3
  <2>2. fromBuiltIns = [i \in DOMAIN builtIns |-> fromBuiltIns[i]]
    BY <1>4
  <2> QED BY <2>1, <2>2, <1>1, MappedItems
<1>7. ToSet(OutboundItems) = ToSet(groups) \cup ToSet(fromProxies) \cup ToSet(fromBuiltIns)
  <2>1. /\ IsList(groups \o fromProxies)
        /\ ToSet(groups \o fromProxies) = ToSet(groups) \cup ToSet(fromProxies)
    BY <1>1, <1>6, ConcatList
  <2>2. ToSet((groups \o fromProxies) \o fromBuiltIns) = ToSet(groups \o fromProxies) \cup ToSet(fromBuiltIns)
    BY <2>1, <1>6, ConcatList
  <2> QED BY <1>5, <2>1, <2>2
<1>8. Tags(profile.outbounds) \subseteq Tags(OutboundItems)
  <2>1. SUFFICES ASSUME NEW i \in DOMAIN profile.outbounds PROVE profile.outbounds[i].tag \in Tags(OutboundItems)
    BY DEF Tags
  <2>2. groups[i].tag = profile.outbounds[i].tag /\ groups[i] \in ToSet(groups)
    BY <1>1, <1>2 DEF GroupsInv, ToSet
  <2> QED BY <2>2, <1>7, TagsOfItems
<1>9. Tags(proxies) \subseteq Tags(OutboundItems)
  <2>1. SUFFICES ASSUME NEW i \in DOMAIN proxies PROVE proxies[i].tag \in Tags(OutboundItems)
    BY DEF Tags
  <2>2. fromProxies[i].tag = proxies[i].tag /\ fromProxies[i] \in ToSet(fromProxies)
    <3>1. \A tag : (("type" := "proxy") ++ ("tag" := tag)).tag = tag
      BY DEF :=, ++
    <3> QED BY <1>3, <3>1 DEF ToSet
  <2> QED BY <2>2, <1>7, TagsOfItems
<1>10. ToSet(builtIns) \subseteq Tags(OutboundItems)
  <2>1. SUFFICES ASSUME NEW i \in DOMAIN builtIns PROVE builtIns[i] \in Tags(OutboundItems)
    BY DEF ToSet
  <2>2. fromBuiltIns[i].tag = builtIns[i] /\ fromBuiltIns[i] \in ToSet(fromBuiltIns)
    <3>1. \A tag : (("type" := tag) ++ ("tag" := tag)).tag = tag
      BY DEF :=, ++
    <3> QED BY <1>4, <3>1 DEF ToSet
  <2> QED BY <2>2, <1>7, TagsOfItems
<1>11. ASSUME NEW item \in ToSet(groups) PROVE ListsIn(item, "outbounds", KnownTags)
  <2>1. PICK i \in DOMAIN groups : item = groups[i]
    BY DEF ToSet
  <2>2. ToSet(groups[i].outbounds) \subseteq KnownTags /\ "outbounds" \in DOMAIN groups[i]
    BY <1>1 DEF GroupsInv, GroupIs
  <2> QED BY <2>1, <2>2 DEF ListsIn, Items
<1>12. ASSUME NEW item \in ToSet(fromProxies) \cup ToSet(fromBuiltIns) PROVE ListsIn(item, "outbounds", KnownTags)
  <2>1. \E x, y : item = ("type" := x) ++ ("tag" := y)
    BY <1>3, <1>4 DEF ToSet
  <2> QED BY <2>1, ListsMerged, ListsKey
<1> QED BY <1>7, <1>8, <1>9, <1>10, <1>11, <1>12 DEF KnownTags

-----------------------------------------------------------------------------
(* NoDangling *)

(* The tags that rules, servers and defaults may name.                       *)
ServerTags == Tags(profile.dns.servers)
RuleSetTags == Tags(profile.route.rule_set)
ProfileTags == Tags(profile.outbounds)

(* A rule names what is there.                                               *)
RuleCloses(rule, outbounds, servers) ==
  /\ ListsIn(rule, "inbound", EnabledTags) /\ ListsIn(rule, "rule_set", RuleSetTags)
  /\ NamesIn(rule, "outbound", outbounds) /\ NamesIn(rule, "server", servers)

(* So does a merger of two,                                                  *)
LEMMA RulesMerge ==
  ASSUME NEW f, NEW g, NEW outbounds, NEW servers,
         RuleCloses(f, outbounds, servers), RuleCloses(g, outbounds, servers)
  PROVE  RuleCloses(f ++ g, outbounds, servers)
  BY NamesMerged, ListsMerged DEF RuleCloses

(* the empty one,                                                            *)
LEMMA EmptyCloses ==
  ASSUME NEW outbounds, NEW servers PROVE RuleCloses(Empty, outbounds, servers)
  BY NamesEmpty, ListsEmpty DEF RuleCloses

(* an action,                                                                *)
LEMMA ActionCloses ==
  ASSUME NEW value, NEW outbounds, NEW servers PROVE RuleCloses("action" := value, outbounds, servers)
  BY NamesKey, ListsKey DEF RuleCloses

(* an outbound that is there,                                                *)
LEMMA OutboundCloses ==
  ASSUME NEW value, NEW outbounds, NEW servers, value = "" \/ value \in outbounds
  PROVE  RuleCloses(Field("outbound", value), outbounds, servers)
<1>1. NamesIn(Field("outbound", value), "outbound", outbounds)
  BY NamesField
<1>2. NamesIn(Field("outbound", value), "server", servers)
  BY NamesField
<1>3. ListsIn(Field("outbound", value), "inbound", EnabledTags)
  BY ListsField
<1>4. ListsIn(Field("outbound", value), "rule_set", RuleSetTags)
  BY ListsField
<1> QED BY <1>1, <1>2, <1>3, <1>4 DEF RuleCloses

(* a server that is there,                                                   *)
LEMMA ServerCloses ==
  ASSUME NEW value, NEW outbounds, NEW servers, value = "" \/ value \in servers
  PROVE  RuleCloses(Field("server", value), outbounds, servers)
<1>1. NamesIn(Field("server", value), "outbound", outbounds)
  BY NamesField
<1>2. NamesIn(Field("server", value), "server", servers)
  BY NamesField
<1>3. ListsIn(Field("server", value), "inbound", EnabledTags)
  BY ListsField
<1>4. ListsIn(Field("server", value), "rule_set", RuleSetTags)
  BY ListsField
<1> QED BY <1>1, <1>2, <1>3, <1>4 DEF RuleCloses

(* the fields that a rule matches on,                                        *)
LEMMA MatchCloses ==
  ASSUME profile \in Profiles, NEW rule, MatchResolves(rule), NEW outbounds, NEW servers
  PROVE  RuleCloses(MatchFields(rule), outbounds, servers)
<1> DEFINE inbounds == [i \in DOMAIN rule.inbound |-> TagOf(profile.inbounds, rule.inbound[i])]
           ruleSets == [i \in DOMAIN rule.rule_set |-> TagOf(profile.route.rule_set, rule.rule_set[i])]
<1>1. MatchFields(rule) = Field2("inbound", inbounds) ++ Field2("rule_set", ruleSets)
  BY DEF MatchFields
<1>2. ToSet(inbounds) \subseteq EnabledTags
  <2>1. \A i \in DOMAIN rule.inbound : TagOf(profile.inbounds, rule.inbound[i]) \in EnabledTags
    BY InboundTagIs DEF MatchResolves
  <2> QED BY <2>1 DEF ToSet
<1>3. ToSet(ruleSets) \subseteq RuleSetTags
  <2>1. \A i \in DOMAIN rule.rule_set : TagOf(profile.route.rule_set, rule.rule_set[i]) \in RuleSetTags
    BY RuleSetTagIs DEF MatchResolves, RuleSetTags
  <2> QED BY <2>1 DEF ToSet
<1> HIDE DEF inbounds, ruleSets
<1>4. RuleCloses(Field2("inbound", inbounds), outbounds, servers)
  <2>1. NamesIn(Field2("inbound", inbounds), "outbound", outbounds)
    BY NamesField2
  <2>2. NamesIn(Field2("inbound", inbounds), "server", servers)
    BY NamesField2
  <2>3. ListsIn(Field2("inbound", inbounds), "inbound", EnabledTags)
    BY <1>2, ListsField2
  <2>4. ListsIn(Field2("inbound", inbounds), "rule_set", RuleSetTags)
    BY ListsField2
  <2> QED BY <2>1, <2>2, <2>3, <2>4 DEF RuleCloses
<1>5. RuleCloses(Field2("rule_set", ruleSets), outbounds, servers)
  <2>1. NamesIn(Field2("rule_set", ruleSets), "outbound", outbounds)
    BY NamesField2
  <2>2. NamesIn(Field2("rule_set", ruleSets), "server", servers)
    BY NamesField2
  <2>3. ListsIn(Field2("rule_set", ruleSets), "inbound", EnabledTags)
    BY ListsField2
  <2>4. ListsIn(Field2("rule_set", ruleSets), "rule_set", RuleSetTags)
    BY <1>3, ListsField2
  <2> QED BY <2>1, <2>2, <2>3, <2>4 DEF RuleCloses
<1> QED BY <1>1, <1>4, <1>5, RulesMerge

(* and the JSON of a rule, by assumption.                                    *)
LEMMA RawCloses ==
  ASSUME profile \in Profiles,
         NEW rule \in ToSet(profile.route.rules) \cup ToSet(profile.dns.rules)
  PROVE  RuleCloses(rule.raw, ProfileTags, ServerTags)
<1>1. NamesWhatIsThere(rule.raw, profile)
  BY ProfilesAssumption
<1>2. /\ NamesIn(rule.raw, "outbound", ProfileTags)
      /\ NamesIn(rule.raw, "server", ServerTags)
  BY <1>1 DEF NamesWhatIsThere, NamesIn, ProfileTags, ServerTags
<1>3. ListsIn(rule.raw, "inbound", EnabledTags)
  <2>1. CASE "inbound" \in DOMAIN rule.raw
    BY <1>1, <2>1 DEF NamesWhatIsThere, ListsIn, Items, EnabledTags
  <2>2. CASE "inbound" \notin DOMAIN rule.raw
    BY <2>2, EmptyList DEF ListsIn, Items
  <2> QED BY <2>1, <2>2
<1>4. ListsIn(rule.raw, "rule_set", RuleSetTags)
  <2>1. CASE "rule_set" \in DOMAIN rule.raw
    BY <1>1, <2>1 DEF NamesWhatIsThere, ListsIn, Items, RuleSetTags
  <2>2. CASE "rule_set" \notin DOMAIN rule.raw
    BY <2>2, EmptyList DEF ListsIn, Items
  <2> QED BY <2>1, <2>2
<1> QED BY <1>2, <1>3, <1>4 DEF RuleCloses

(* Hence every valid route rule does,                                        *)
LEMMA RouteRuleCloses ==
  ASSUME profile \in Profiles, NEW rule \in ToSet(profile.route.rules),
         RouteRuleValid(rule)
  PROVE  RuleCloses(RouteRule(rule), ProfileTags, ServerTags)
<1> DEFINE action == IF rule.action = "inline" THEN Empty ELSE "action" := rule.action
           outbound == IF rule.action \in {"route", "bypass"}
                       THEN Field("outbound", OutboundTag(rule.outbound)) ELSE Empty
           server == IF rule.action = "resolve" THEN Field("server", ServerTag(rule.server)) ELSE Empty
           Closes(map) == RuleCloses(map, ProfileTags, ServerTags)
<1>1. RouteRule(rule) = (((rule.raw ++ MatchFields(rule)) ++ action) ++ outbound) ++ server
  BY DEF RouteRule
<1>2. Closes(rule.raw)
  BY RawCloses
<1>3. Closes(MatchFields(rule))
  BY MatchCloses DEF RouteRuleValid
<1>4. Closes(action)
  BY EmptyCloses, ActionCloses
<1>5. Closes(outbound)
  <2>1. CASE rule.action \in {"route", "bypass"}
    <3>1. OutboundTag(rule.outbound) = "" \/ OutboundTag(rule.outbound) \in ProfileTags
      BY <2>1, OutboundTagIs DEF RouteRuleValid, ProfileTags
    <3> QED BY <2>1, <3>1, OutboundCloses
  <2>2. CASE rule.action \notin {"route", "bypass"}
    BY <2>2, EmptyCloses
  <2> QED BY <2>1, <2>2
<1>6. Closes(server)
  <2>1. CASE rule.action = "resolve"
    <3>1. ServerTag(rule.server) = "" \/ ServerTag(rule.server) \in ServerTags
      BY <2>1, ServerTagIs DEF RouteRuleValid, ServerTags
    <3> QED BY <2>1, <3>1, ServerCloses
  <2>2. CASE rule.action # "resolve"
    BY <2>2, EmptyCloses
  <2> QED BY <2>1, <2>2
<1> HIDE DEF action, outbound, server
<1>7. Closes(rule.raw ++ MatchFields(rule))
  BY <1>2, <1>3, RulesMerge
<1>8. Closes((rule.raw ++ MatchFields(rule)) ++ action)
  BY <1>4, <1>7, RulesMerge
<1>9. Closes(((rule.raw ++ MatchFields(rule)) ++ action) ++ outbound)
  BY <1>5, <1>8, RulesMerge
<1> QED BY <1>1, <1>6, <1>9, RulesMerge

(* and every valid DNS rule.                                                 *)
LEMMA DNSRuleCloses ==
  ASSUME profile \in Profiles, NEW rule \in ToSet(profile.dns.rules), DNSRuleValid(rule)
  PROVE  RuleCloses(DNSRule(rule), ProfileTags, ServerTags)
<1> DEFINE raw == Dropping(rule.raw, {"__is_fake_ip"})
           action == IF rule.action = "inline" THEN Empty ELSE "action" := rule.action
           server == IF rule.action \in {"route", "evaluate"}
                     THEN Field("server", ServerTag(rule.server)) ELSE Empty
           Closes(map) == RuleCloses(map, ProfileTags, ServerTags)
<1>1. DNSRule(rule) = ((raw ++ MatchFields(rule)) ++ action) ++ server
  BY DEF DNSRule
<1>2. Closes(raw)
  <2>1. Closes(rule.raw)
    BY RawCloses
  <2>2. \A key, tags : NamesIn(rule.raw, key, tags) => NamesIn(raw, key, tags)
    BY DEF NamesIn, Dropping
  <2>3. \A key : key # "__is_fake_ip" => Items(raw, key) = Items(rule.raw, key)
    BY DEF Items, Dropping
  <2> HIDE DEF raw
  <2> QED BY <2>1, <2>2, <2>3 DEF RuleCloses, ListsIn
<1>3. Closes(MatchFields(rule))
  BY MatchCloses DEF DNSRuleValid
<1>4. Closes(action)
  BY EmptyCloses, ActionCloses
<1>5. Closes(server)
  <2>1. CASE rule.action \in {"route", "evaluate"}
    <3>1. ServerTag(rule.server) = "" \/ ServerTag(rule.server) \in ServerTags
      BY <2>1, ServerTagIs DEF DNSRuleValid, ServerTags
    <3> QED BY <2>1, <3>1, ServerCloses
  <2>2. CASE rule.action \notin {"route", "evaluate"}
    BY <2>2, EmptyCloses
  <2> QED BY <2>1, <2>2
<1> HIDE DEF raw, action, server
<1>6. Closes(raw ++ MatchFields(rule))
  BY <1>2, <1>3, RulesMerge
<1>7. Closes((raw ++ MatchFields(rule)) ++ action)
  BY <1>4, <1>6, RulesMerge
<1> QED BY <1>1, <1>5, <1>7, RulesMerge

(* The items of a chosen list.                                               *)
LEMMA ChosenItems ==
  ASSUME NEW items, IsList(items), NEW wanted
  PROVE  \A i \in DOMAIN Chosen(items, wanted) : Chosen(items, wanted)[i] \in ToSet(items) \cap wanted
<1>1. ToSet(Chosen(items, wanted)) = ToSet(items) \cap wanted
  BY ChosenList
<1> QED BY <1>1 DEF ToSet

(* A rule set, and a server, names what is there.                            *)
RuleSetCloses(item) == NamesIn(item, "download_detour", ProfileTags)
ServerNamesClose(server) ==
  NamesIn(server, "detour", ProfileTags) /\ NamesIn(server, "domain_resolver", ServerTags)

(* Every valid rule set does,                                                *)
LEMMA RuleSetItemCloses ==
  ASSUME profile \in Profiles, NEW item, RuleSetValid(item)
  PROVE  RuleSetCloses(RuleSet(item))
<1> DEFINE detour == IF item.type = "remote" THEN Field("download_detour", OutboundTag(item.detour)) ELSE Empty
<1>1. RuleSet(item) = (("tag" := item.tag) ++ ("type" := item.type)) ++ detour
  BY DEF RuleSet
<1>2. NamesIn(detour, "download_detour", ProfileTags)
  <2>1. CASE item.type = "remote"
    <3>1. OutboundTag(item.detour) = "" \/ OutboundTag(item.detour) \in ProfileTags
      BY <2>1, OutboundTagIs DEF RuleSetValid, ProfileTags
    <3> QED BY <2>1, <3>1, NamesField
  <2>2. CASE item.type # "remote"
    BY <2>2, NamesEmpty
  <2> QED BY <2>1, <2>2
<1>3. NamesIn("tag" := item.tag, "download_detour", ProfileTags)
  BY NamesKey
<1>4. NamesIn("type" := item.type, "download_detour", ProfileTags)
  BY NamesKey
<1> HIDE DEF detour
<1> QED BY <1>1, <1>2, <1>3, <1>4, NamesMerged DEF RuleSetCloses

(* and every valid server.                                                   *)
LEMMA ServerItemCloses ==
  ASSUME profile \in Profiles, NEW item, ServerValid(item)
  PROVE  ServerNamesClose(Server(item))
<1> DEFINE detour == Field("detour", OutboundTag(item.detour))
           resolver == Field("domain_resolver", ServerTag(item.resolver))
           fields == IF Dials(item) THEN detour ++ resolver ELSE Empty
<1>1. Server(item) = (("tag" := item.tag) ++ ("type" := item.type)) ++ fields
  BY DEF Server
<1>2. ServerNamesClose(fields)
  <2>1. CASE Dials(item)
    <3>1. OutboundTag(item.detour) = "" \/ OutboundTag(item.detour) \in ProfileTags
      BY <2>1, OutboundTagIs DEF ServerValid, ProfileTags
    <3>2. ServerTag(item.resolver) = "" \/ ServerTag(item.resolver) \in ServerTags
      BY <2>1, ServerTagIs DEF ServerValid, ServerTags
    <3>3. NamesIn(detour, "detour", ProfileTags)
      BY <3>1, NamesField
    <3>4. NamesIn(resolver, "detour", ProfileTags)
      BY NamesField
    <3>5. NamesIn(detour, "domain_resolver", ServerTags)
      BY NamesField
    <3>6. NamesIn(resolver, "domain_resolver", ServerTags)
      BY <3>2, NamesField
    <3> HIDE DEF detour, resolver
    <3> QED BY <2>1, <3>3, <3>4, <3>5, <3>6, NamesMerged DEF ServerNamesClose
  <2>2. CASE ~Dials(item)
    BY <2>2, NamesEmpty DEF ServerNamesClose
  <2> QED BY <2>1, <2>2
<1>3. ServerNamesClose("tag" := item.tag)
  BY NamesKey DEF ServerNamesClose
<1>4. ServerNamesClose("type" := item.type)
  BY NamesKey DEF ServerNamesClose
<1> HIDE DEF fields
<1>5. ServerNamesClose(("tag" := item.tag) ++ ("type" := item.type))
  BY <1>3, <1>4, NamesMerged DEF ServerNamesClose
<1> QED BY <1>1, <1>2, <1>5, NamesMerged DEF ServerNamesClose

(* Together: the route ...                                                   *)
LEMMA RouteCloses ==
  ASSUME profile \in Profiles, RouteValid
  PROVE  /\ NamesIn(Route, "final", ProfileTags)
         /\ NamesIn(Route, "default_domain_resolver", ServerTags)
         /\ Tags(Route.rule_set) = RuleSetTags
         /\ \A i \in DOMAIN Route.rule_set : RuleSetCloses(Route.rule_set[i])
         /\ \A i \in DOMAIN Route.rules : RuleCloses(Route.rules[i], ProfileTags, ServerTags)
<1> DEFINE wanted == {rule \in ToSet(profile.route.rules) : Counts(rule)}
           rules == Mapped(Chosen(profile.route.rules, wanted), RouteRule)
           sets == Mapped(profile.route.rule_set, RuleSet)
           final == Field("final", OutboundTag(profile.route.final))
           resolver == Field("default_domain_resolver", ServerTag(profile.route.resolver))
<1>1. Route = ((("rules" := rules) ++ ("rule_set" := sets)) ++ final) ++ resolver
  BY DEF Route, Rules
<1>2. OutboundTag(profile.route.final) = "" \/ OutboundTag(profile.route.final) \in ProfileTags
  BY OutboundTagIs DEF RouteValid, ProfileTags
<1>3. ServerTag(profile.route.resolver) = "" \/ ServerTag(profile.route.resolver) \in ServerTags
  BY ServerTagIs DEF RouteValid, ServerTags
<1>4. \A i \in DOMAIN rules : RuleCloses(rules[i], ProfileTags, ServerTags)
  <2>1. \A rule \in ToSet(profile.route.rules) \cap wanted :
          RuleCloses(RouteRule(rule), ProfileTags, ServerTags)
    BY RouteRuleCloses DEF RouteValid
  <2>2. IsList(profile.route.rules)
    BY ProfileShape
  <2>3. \A i \in DOMAIN Chosen(profile.route.rules, wanted) :
          Chosen(profile.route.rules, wanted)[i] \in ToSet(profile.route.rules) \cap wanted
    BY <2>2, ChosenItems
  <2> HIDE DEF wanted
  <2> QED BY <2>1, <2>3 DEF Mapped
<1>5. \A i \in DOMAIN sets : RuleSetCloses(sets[i])
  <2>1. \A i \in DOMAIN profile.route.rule_set : RuleSetCloses(RuleSet(profile.route.rule_set[i]))
    BY RuleSetItemCloses DEF RouteValid, ToSet
  <2> QED BY <2>1 DEF Mapped
<1>6. Tags(sets) = RuleSetTags
  BY RuleSetsHaveTags DEF RuleSetTags
<1>7. /\ NamesIn(final, "final", ProfileTags)
      /\ NamesIn(final, "default_domain_resolver", ServerTags)
  BY <1>2, NamesField
<1>8. /\ NamesIn(resolver, "final", ProfileTags)
      /\ NamesIn(resolver, "default_domain_resolver", ServerTags)
  BY <1>3, NamesField
<1>9. /\ DOMAIN final \subseteq {"final"}
      /\ DOMAIN resolver \subseteq {"default_domain_resolver"}
  BY DEF Field, Empty, :=
<1> HIDE DEF rules, sets, final, resolver
<1>10. Route.rules = rules /\ Route.rule_set = sets
  BY <1>1, <1>9 DEF ++, :=
<1>11. \A value : /\ NamesIn("rules" := value, "final", ProfileTags)
                  /\ NamesIn("rules" := value, "default_domain_resolver", ServerTags)
                  /\ NamesIn("rule_set" := value, "final", ProfileTags)
                  /\ NamesIn("rule_set" := value, "default_domain_resolver", ServerTags)
  BY DEF NamesIn, :=
<1>12. NamesIn(Route, "final", ProfileTags)
  <2>1. NamesIn(("rules" := rules) ++ ("rule_set" := sets), "final", ProfileTags)
    BY <1>11, NamesMerged
  <2>2. NamesIn((("rules" := rules) ++ ("rule_set" := sets)) ++ final, "final", ProfileTags)
    BY <1>7, <2>1, NamesMerged
  <2> QED BY <1>1, <1>8, <2>2, NamesMerged
<1>13. NamesIn(Route, "default_domain_resolver", ServerTags)
  <2>1. NamesIn(("rules" := rules) ++ ("rule_set" := sets), "default_domain_resolver", ServerTags)
    BY <1>11, NamesMerged
  <2>2. NamesIn((("rules" := rules) ++ ("rule_set" := sets)) ++ final, "default_domain_resolver", ServerTags)
    BY <1>7, <2>1, NamesMerged
  <2> QED BY <1>1, <1>8, <2>2, NamesMerged
<1> QED BY <1>4, <1>5, <1>6, <1>10, <1>12, <1>13

(* ... and the DNS section.                                                  *)
LEMMA DNSCloses ==
  ASSUME profile \in Profiles, DNSValid
  PROVE  /\ NamesIn(DNS, "final", ServerTags)
         /\ Tags(DNS.servers) = ServerTags
         /\ \A i \in DOMAIN DNS.servers : ServerNamesClose(DNS.servers[i])
         /\ \A i \in DOMAIN DNS.rules : RuleCloses(DNS.rules[i], ProfileTags, ServerTags)
<1> DEFINE wanted == {rule \in ToSet(profile.dns.rules) : Serves(rule)}
           rules == Mapped(Chosen(profile.dns.rules, wanted), DNSRule)
           servers == Mapped(profile.dns.servers, Server)
           final == Field("final", ServerTag(profile.dns.final))
<1>1. DNS = (("servers" := servers) ++ ("rules" := rules)) ++ final
  BY DEF DNS
<1>2. ServerTag(profile.dns.final) = "" \/ ServerTag(profile.dns.final) \in ServerTags
  BY ServerTagIs DEF DNSValid, ServerTags
<1>3. \A i \in DOMAIN rules : RuleCloses(rules[i], ProfileTags, ServerTags)
  <2>1. \A rule \in ToSet(profile.dns.rules) \cap wanted :
          RuleCloses(DNSRule(rule), ProfileTags, ServerTags)
    BY DNSRuleCloses DEF DNSValid
  <2>2. IsList(profile.dns.rules)
    BY ProfileShape
  <2>3. \A i \in DOMAIN Chosen(profile.dns.rules, wanted) :
          Chosen(profile.dns.rules, wanted)[i] \in ToSet(profile.dns.rules) \cap wanted
    BY <2>2, ChosenItems
  <2> HIDE DEF wanted
  <2> QED BY <2>1, <2>3 DEF Mapped
<1>4. \A i \in DOMAIN servers : ServerNamesClose(servers[i])
  <2>1. \A i \in DOMAIN profile.dns.servers : ServerNamesClose(Server(profile.dns.servers[i]))
    BY ServerItemCloses DEF DNSValid, ToSet
  <2> QED BY <2>1 DEF Mapped
<1>5. Tags(servers) = ServerTags
  BY ServersHaveTags DEF ServerTags
<1>6. NamesIn(final, "final", ServerTags)
  BY <1>2, NamesField
<1>7. DOMAIN final \subseteq {"final"}
  BY DEF Field, Empty, :=
<1> HIDE DEF rules, servers, final
<1>8. DNS.rules = rules /\ DNS.servers = servers
  BY <1>1, <1>7 DEF ++, :=
<1>9. \A value : NamesIn("rules" := value, "final", ServerTags) /\ NamesIn("servers" := value, "final", ServerTags)
  BY DEF NamesIn, :=
<1>10. NamesIn(DNS, "final", ServerTags)
  <2>1. NamesIn(("servers" := servers) ++ ("rules" := rules), "final", ServerTags)
    BY <1>9, NamesMerged
  <2> QED BY <1>1, <1>6, <2>1, NamesMerged
<1> QED BY <1>3, <1>4, <1>5, <1>8, <1>10

(* NoDangling, of any configuration.                                         *)
NamesFit(c) ==
  LET outbounds == Tags(c.outbounds)
      inbounds == Tags(c.inbounds)
      ruleSets == Tags(c.route.rule_set)
      servers == Tags(c.dns.servers)
      matches(rule) == ListsIn(rule, "inbound", inbounds) /\ ListsIn(rule, "rule_set", ruleSets) IN
  /\ \A i \in DOMAIN c.outbounds : ListsIn(c.outbounds[i], "outbounds", outbounds)
  /\ NamesIn(c.route, "final", outbounds)
  /\ NamesIn(c.route, "default_domain_resolver", servers)
  /\ NamesIn(c.dns, "final", servers)
  /\ \A i \in DOMAIN c.route.rule_set : NamesIn(c.route.rule_set[i], "download_detour", outbounds)
  /\ \A i \in DOMAIN c.route.rules :
       /\ matches(c.route.rules[i])
       /\ NamesIn(c.route.rules[i], "outbound", outbounds)
       /\ NamesIn(c.route.rules[i], "server", servers)
  /\ \A i \in DOMAIN c.dns.servers :
       /\ NamesIn(c.dns.servers[i], "detour", outbounds)
       /\ NamesIn(c.dns.servers[i], "domain_resolver", servers)
  /\ \A i \in DOMAIN c.dns.rules :
       matches(c.dns.rules[i]) /\ NamesIn(c.dns.rules[i], "server", servers)

(* It is what the property says.                                             *)
LEMMA ClosedIsNoDangling == NoDangling <=> (stage = "generated" => NamesFit(config))
  BY DEF NoDangling, NamesFit, NamesIn, ListsIn

(* What is generated names nothing that is not there.                        *)
LEMMA GeneratedCloses ==
  ASSUME GeneratorInv, OutboundsDone, RouteValid, DNSValid
  PROVE  NamesFit(("inbounds" := Inbounds) ++ ("outbounds" := OutboundItems) ++ ("route" := Route) ++ ("dns" := DNS))
<1> DEFINE c == ("inbounds" := Inbounds) ++ ("outbounds" := OutboundItems) ++ ("route" := Route) ++ ("dns" := DNS)
           tags == Tags(OutboundItems)
<1>1. /\ c.inbounds = Inbounds /\ c.outbounds = OutboundItems /\ c.route = Route
      /\ c.dns = DNS
  <2>1. \A i, o, r, d : LET m == ("inbounds" := i) ++ ("outbounds" := o) ++ ("route" := r) ++ ("dns" := d) IN
          m.inbounds = i /\ m.outbounds = o /\ m.route = r /\ m.dns = d
    BY DEF ++, :=
  <2> QED BY <2>1
<1>2. profile \in Profiles
  BY DEF GeneratorInv, VersionsInv
<1>3. EnabledTags \subseteq Tags(Inbounds)
  BY <1>2, InboundsHaveTags
<1>4. KnownTags \subseteq tags /\ \A item \in ToSet(OutboundItems) : ListsIn(item, "outbounds", KnownTags)
  BY OutboundsHaveTags
<1>5. ProfileTags \subseteq tags
  BY <1>4 DEF KnownTags, ProfileTags
<1>6. \A i \in DOMAIN OutboundItems : ListsIn(OutboundItems[i], "outbounds", tags)
  BY <1>4 DEF ListsIn, ToSet
<1>7. \A map, key : NamesIn(map, key, ProfileTags) => NamesIn(map, key, tags)
  BY <1>5 DEF NamesIn
<1>8. \A map, key : ListsIn(map, key, EnabledTags) => ListsIn(map, key, Tags(Inbounds))
  BY <1>3 DEF ListsIn
<1>9. /\ NamesIn(Route, "final", tags)
      /\ NamesIn(Route, "default_domain_resolver", ServerTags)
      /\ Tags(Route.rule_set) = RuleSetTags
      /\ \A i \in DOMAIN Route.rule_set : NamesIn(Route.rule_set[i], "download_detour", tags)
      /\ \A i \in DOMAIN Route.rules :
           /\ ListsIn(Route.rules[i], "inbound", Tags(Inbounds))
           /\ ListsIn(Route.rules[i], "rule_set", RuleSetTags)
           /\ NamesIn(Route.rules[i], "outbound", tags)
           /\ NamesIn(Route.rules[i], "server", ServerTags)
  BY <1>2, <1>7, <1>8, RouteCloses DEF RuleSetCloses, RuleCloses
<1>10. /\ NamesIn(DNS, "final", ServerTags) /\ Tags(DNS.servers) = ServerTags
       /\ \A i \in DOMAIN DNS.servers :
            NamesIn(DNS.servers[i], "detour", tags) /\ NamesIn(DNS.servers[i], "domain_resolver", ServerTags)
       /\ \A i \in DOMAIN DNS.rules :
            /\ ListsIn(DNS.rules[i], "inbound", Tags(Inbounds))
            /\ ListsIn(DNS.rules[i], "rule_set", RuleSetTags)
            /\ NamesIn(DNS.rules[i], "server", ServerTags)
  BY <1>2, <1>7, <1>8, DNSCloses DEF ServerNamesClose, RuleCloses
<1> HIDE DEF c
<1>11. NamesFit(c)
  BY <1>1, <1>6, <1>9, <1>10 DEF NamesFit
<1> QED BY <1>11 DEF c

(* Every step keeps that.                                                    *)
LEMMA NoDanglingHolds == GeneratorInv /\ NoDangling /\ [GeneratorNext]_generatorVars => NoDangling'
<1> SUFFICES ASSUME GeneratorInv, NoDangling, [GeneratorNext]_generatorVars, stage' = "generated" PROVE NamesFit(config')
  BY ClosedIsNoDangling DEF NoDangling, NamesFit, NamesIn, ListsIn
<1>1. CASE GenerateConfig
  BY <1>1, GeneratedCloses DEF GenerateConfig
<1>2. CASE config' = config /\ stage = "generated"
  BY <1>2, ClosedIsNoDangling
<1>3. GenerateConfig \/ (config' = config /\ stage = "generated")
  <2>1. CASE UNCHANGED generatorVars
    BY <2>1 DEF generatorVars
  <2>2. CASE GeneratorNext
    BY <2>2 DEF GeneratorNext, Load, AddBuiltIn, AddLocal, AddSubscription, AddNode,
       AddTags, AddOutbound,
               OutboundStep, ApplyMixinAndScript, NormalizeClients, Refuse, ChangeOf, AtRef
  <2> QED BY <2>1, <2>2
<1> QED BY <1>1, <1>2, <1>3

(* NoDangling, whatever the profile and the refreshes and deletions          *)
(* meanwhile: what a generated configuration names, it has.                  *)
THEOREM NothingDangles == GeneratorSpec => []NoDangling
<1>1. GeneratorInit => NoDangling
  BY DEF GeneratorInit, NoDangling
<1>2. GeneratorInv /\ NoDangling /\ [GeneratorNext]_generatorVars => NoDangling'
  BY NoDanglingHolds
<1> QED BY <1>1, <1>2, Invariant, PTL DEF GeneratorSpec

-----------------------------------------------------------------------------
(* ClientsFit *)

(* A configuration that can be normalized.                                   *)
Ready(c) == WellTyped(c) /\ "route" \in DOMAIN c

(* deepAssign of configurations whose values have their types.               *)
LEMMA AssignedIsTyped ==
  ASSUME NEW dst, WellTyped(dst), NEW src, WellTyped(src)
  PROVE  /\ WellTyped(DeepAssign(dst, src))
         /\ "route" \in DOMAIN dst \cup DOMAIN src => "route" \in DOMAIN DeepAssign(dst, src)
<1> DEFINE both == [key \in Maps \cap DOMAIN dst \cap DOMAIN src |-> src[key] ++ dst[key]]
           c == DeepAssign(dst, src)
<1>1. c = (both ++ src) ++ dst
  BY DEF DeepAssign
<1>2. /\ DOMAIN both = {"route", "dns"} \cap DOMAIN dst \cap DOMAIN src
      /\ \A key \in DOMAIN both : both[key] = src[key] ++ dst[key]
  BY DEF Maps
<1> HIDE DEF both, c
<1>3. /\ IsMap(c) /\ DOMAIN c = DOMAIN src \cup DOMAIN dst
      /\ \A key \in DOMAIN c : c[key] = IF key \in DOMAIN both THEN src[key] ++ dst[key]
                                        ELSE IF key \in DOMAIN src THEN src[key] ELSE dst[key]
  BY <1>1, <1>2 DEF ++, IsMap
<1>4. \A key \in {"outbounds", "http_clients"} : Items(c, key) = Items(src, key) \/ Items(c, key) = Items(dst, key)
  BY <1>2, <1>3 DEF Items
<1>5. /\ IsList(Items(c, "outbounds"))
      /\ IsList(Clients(c)) /\ Len(Clients(c)) < Len(DefaultTags)
  BY <1>4 DEF WellTyped, Clients
<1>6. ASSUME "route" \in DOMAIN c
      PROVE  /\ IsMap(c.route) /\ IsList(Items(c.route, "rule_set"))
             /\ \A item \in ToSet(Items(c.route, "rule_set")) : IsRuleSet(item)
  <2>1. CASE "route" \in DOMAIN src /\ "route" \in DOMAIN dst
    <3>1. c.route = src.route ++ dst.route
      BY <1>2, <1>3, <2>1
    <3>2. Items(c.route, "rule_set") = Items(src.route, "rule_set") \/ Items(c.route, "rule_set") = Items(dst.route, "rule_set")
      BY <3>1 DEF Items, ++
    <3>3. IsMap(c.route)
      BY <3>1, MergedMap
    <3> QED BY <2>1, <3>2, <3>3 DEF WellTyped
  <2>2. CASE "route" \in DOMAIN src /\ "route" \notin DOMAIN dst
    <3>1. c.route = src.route
      BY <1>2, <1>3, <2>2
    <3> QED BY <2>2, <3>1 DEF WellTyped
  <2>3. CASE "route" \notin DOMAIN src /\ "route" \in DOMAIN dst
    <3>1. c.route = dst.route
      BY <1>2, <1>3, <2>3
    <3> QED BY <2>3, <3>1 DEF WellTyped
  <2> QED BY <1>3, <1>6, <2>1, <2>2, <2>3
<1>7. WellTyped(c)
  BY <1>3, <1>5, <1>6 DEF WellTyped
<1> QED BY <1>3, <1>7 DEF c

(* The rule sets that are generated have no client yet.                      *)
LEMMA RuleSetIsOne ==
  ASSUME NEW item
  PROVE  IsRuleSet(RuleSet(item)) /\ ~HasClient(RuleSet(item))
<1>1. IsMap(RuleSet(item))
  BY MergedMap DEF RuleSet
<1>2. "type" \in DOMAIN RuleSet(item)
  BY DEF RuleSet, :=, ++
<1>3. "http_client" \notin DOMAIN RuleSet(item)
  BY DEF RuleSet, :=, ++, Field, Empty
<1> QED BY <1>1, <1>2, <1>3 DEF IsRuleSet, HasClient

(* The outbounds are a list.                                                 *)
LEMMA OutboundItemsAreList ==
  ASSUME IsList(groups), IsList(proxies), IsList(builtIns)
  PROVE  IsList(OutboundItems)
<1> DEFINE fromProxies == Mapped(proxies, LAMBDA proxy : ("type" := "proxy") ++ ("tag" := proxy.tag))
           fromBuiltIns == Mapped(builtIns, LAMBDA tag : ("type" := tag) ++ ("tag" := tag))
<1>1. OutboundItems = (groups \o fromProxies) \o fromBuiltIns
  BY DEF OutboundItems
<1>2. /\ fromProxies = [i \in DOMAIN proxies |-> fromProxies[i]]
      /\ fromBuiltIns = [i \in DOMAIN builtIns |-> fromBuiltIns[i]]
  BY DEF Mapped
<1> HIDE DEF fromProxies, fromBuiltIns
<1>3. IsList(fromProxies) /\ IsList(fromBuiltIns)
  BY <1>2, MappedItems
<1>4. IsList(groups \o fromProxies)
  BY <1>3, ConcatList
<1> QED BY <1>1, <1>3, <1>4, ConcatList

(* What is generated can be normalized.                                      *)
LEMMA GeneratedIsReady ==
  ASSUME GeneratorInv
  PROVE  Ready(("inbounds" := Inbounds) ++ ("outbounds" := OutboundItems) ++ ("route" := Route) ++ ("dns" := DNS))
<1> DEFINE c == ("inbounds" := Inbounds) ++ ("outbounds" := OutboundItems) ++ ("route" := Route) ++ ("dns" := DNS)
<1>1. /\ IsMap(c) /\ DOMAIN c = {"inbounds", "outbounds", "route", "dns"}
      /\ c.outbounds = OutboundItems /\ c.route = Route
  <2>1. \A i, o, r, d : LET m == ("inbounds" := i) ++ ("outbounds" := o) ++ ("route" := r) ++ ("dns" := d) IN
          IsMap(m) /\ DOMAIN m = {"inbounds", "outbounds", "route", "dns"} /\ m.outbounds = o /\ m.route = r
    BY DEF ++, :=, IsMap
  <2> QED BY <2>1
<1>2. profile \in Profiles /\ IsList(groups) /\ IsList(proxies) /\ IsList(builtIns)
  BY DEF GeneratorInv, VersionsInv, CursorInv
<1>3. IsList(OutboundItems)
  BY <1>2, OutboundItemsAreList
<1>4. /\ IsMap(Route) /\ IsList(Items(Route, "rule_set"))
      /\ \A item \in ToSet(Items(Route, "rule_set")) : IsRuleSet(item)
  <2> DEFINE sets == Mapped(profile.route.rule_set, RuleSet)
             rules == Rules(profile.route.rules, RouteRule)
             final == Field("final", OutboundTag(profile.route.final))
             resolver == Field("default_domain_resolver", ServerTag(profile.route.resolver))
  <2>1. Route = ((("rules" := rules) ++ ("rule_set" := sets)) ++ final) ++ resolver
    BY DEF Route
  <2>2. IsList(sets) /\ \A i \in DOMAIN sets : IsRuleSet(sets[i])
    <3>1. sets = [i \in DOMAIN profile.route.rule_set |-> RuleSet(profile.route.rule_set[i])]
      BY DEF Mapped
    <3>2. IsList(profile.route.rule_set)
      BY <1>2, ProfileShape
    <3> HIDE DEF sets
    <3>3. sets = [i \in DOMAIN profile.route.rule_set |-> sets[i]]
      BY <3>1
    <3> QED BY <3>1, <3>2, <3>3, MappedItems, RuleSetIsOne
  <2> HIDE DEF sets, rules, final, resolver
  <2>3. Items(Route, "rule_set") = sets
    BY <2>1 DEF Items, ++, :=
  <2>4. IsMap(Route)
    BY <2>1, MergedMap
  <2> QED BY <2>2, <2>3, <2>4 DEF ToSet
<1>5. 0 < Len(DefaultTags)
  <2>1. WellTyped(profile.script)
    BY <1>2, ProfilesAssumption
  <2>2. Len(Clients(profile.script)) \in Nat /\ Len(DefaultTags) \in Nat
    BY <2>1, ListShape, NamesAssumption DEF WellTyped
  <2> QED BY <2>1, <2>2 DEF WellTyped
<1> HIDE DEF c
<1>6. Clients(c) = <<>> /\ Items(c, "outbounds") = OutboundItems
  BY <1>1 DEF Clients, Items
<1>7. IsList(<<>>) /\ Len(<<>>) = 0
  BY EmptyList
<1>8. WellTyped(c)
  BY <1>1, <1>3, <1>4, <1>5, <1>6, <1>7 DEF WellTyped
<1> QED BY <1>1, <1>8 DEF Ready, c

(* It can after the mixin and the script, too.                               *)
ClientsInv ==
  /\ stage = "generated" => Ready(config)
  /\ stage = "mixed" => Ready(beforeClients)
  /\ ClientsFit

(* ClientsFit in terms of the lemmas about HttpClients.                      *)
LEMMA FitIsClientsFit ==
  ClientsFit <=> (stage = "done" => /\ DownloadsAlike(beforeClients, config) /\ Fitting(beforeClients, config)
                                    /\ ~NormalizeRefused(config)
                                    /\ NormalizeRuleSetHTTPClients(config) = config)
  BY DEF ClientsFit, SameDownloads, AcceptedByCore, DownloadsAlike, Fitting, Dialed

(* Every step keeps that: the last one by NormalizationFits.                 *)
LEMMA ClientsHold == GeneratorInv /\ ClientsInv /\ [GeneratorNext]_generatorVars => ClientsInv'
<1> SUFFICES ASSUME GeneratorInv, ClientsInv, [GeneratorNext]_generatorVars PROVE ClientsInv'
  OBVIOUS
<1>1. CASE GenerateConfig
  <2>1. stage' = "generated" /\ Ready(config')
    BY <1>1, GeneratedIsReady DEF GenerateConfig
  <2> QED BY <2>1 DEF ClientsInv, ClientsFit
<1>2. CASE ApplyMixinAndScript
  <2>1. /\ stage = "generated" /\ stage' = "mixed"
        /\ beforeClients' = DeepAssign(Mixed(config), profile.script)
    BY <1>2 DEF ApplyMixinAndScript
  <2>2. Ready(config) /\ WellTyped(profile.mixin.config) /\ WellTyped(profile.script)
    BY <2>1, ProfilesAssumption DEF ClientsInv, GeneratorInv, VersionsInv
  <2>3. Ready(Mixed(config))
    BY <2>2, AssignedIsTyped DEF Mixed, Ready
  <2>4. Ready(DeepAssign(Mixed(config), profile.script))
    BY <2>2, <2>3, AssignedIsTyped DEF Ready
  <2> QED BY <2>1, <2>4 DEF ClientsInv, ClientsFit
<1>3. CASE NormalizeClients
  <2>1. /\ stage = "mixed" /\ stage' = "done" /\ beforeClients' = beforeClients
        /\ ~NormalizeRefused(beforeClients)
        /\ config' = NormalizeRuleSetHTTPClients(beforeClients)
    BY <1>3 DEF NormalizeClients
  <2>2. Ready(beforeClients)
    BY <2>1 DEF ClientsInv
  <2>3. /\ DownloadsAlike(beforeClients, config') /\ Fitting(beforeClients, config')
        /\ ~NormalizeRefused(config') /\ NormalizeRuleSetHTTPClients(config') = config'
    BY <2>1, <2>2, NormalizationFits DEF Ready
  <2> QED BY <2>1, <2>3 DEF ClientsInv, ClientsFit, SameDownloads, AcceptedByCore,
             DownloadsAlike, Fitting, Dialed
<1>4. CASE stage' \in {"load", "outbounds", "refused"}
  BY <1>4 DEF ClientsInv, ClientsFit
<1>5. CASE stage' = stage /\ config' = config /\ beforeClients' = beforeClients
  <2>1. stage = "done" => /\ DownloadsAlike(beforeClients, config) /\ Fitting(beforeClients, config)
                          /\ ~NormalizeRefused(config)
                          /\ NormalizeRuleSetHTTPClients(config) = config
    BY FitIsClientsFit DEF ClientsInv
  <2>2. CASE stage = "done"
    <3>1. /\ DownloadsAlike(beforeClients', config') /\ Fitting(beforeClients', config')
          /\ ~NormalizeRefused(config') /\ NormalizeRuleSetHTTPClients(config') = config'
      BY <1>5, <2>1, <2>2
    <3> QED BY <1>5, <2>2, <3>1 DEF ClientsInv, ClientsFit, SameDownloads, AcceptedByCore,
               DownloadsAlike, Fitting, Dialed
  <2>3. CASE stage # "done"
    BY <1>5, <2>3 DEF ClientsInv, ClientsFit
  <2> QED BY <2>2, <2>3
<1>6. \/ GenerateConfig \/ ApplyMixinAndScript \/ NormalizeClients
      \/ stage' \in {"load", "outbounds", "refused"}
      \/ (stage' = stage /\ config' = config /\ beforeClients' = beforeClients)
  <2>1. CASE UNCHANGED generatorVars
    BY <2>1 DEF generatorVars
  <2>2. CASE GeneratorNext
    BY <2>2 DEF GeneratorNext, Load, AddBuiltIn, AddLocal, AddSubscription, AddNode,
       AddTags, AddOutbound,
                OutboundStep, Refuse, ChangeOf
  <2> QED BY <2>1, <2>2
<1> QED BY <1>1, <1>2, <1>3, <1>4, <1>5, <1>6

(* ClientsFit: putting in the HTTP clients changes no download, gives what   *)
(* the core accepts, and is done only once, for every profile, mixin and     *)
(* script whose values have their types.                                     *)
THEOREM HTTPClientsFit == GeneratorSpec => []ClientsFit
<1>1. GeneratorInit => ClientsInv
  BY DEF GeneratorInit, ClientsInv, ClientsFit
<1>2. GeneratorInv /\ ClientsInv /\ [GeneratorNext]_generatorVars => ClientsInv'
  BY ClientsHold
<1>3. ClientsInv => ClientsFit
  BY DEF ClientsInv
<1> QED BY <1>1, <1>2, <1>3, Invariant, PTL DEF GeneratorSpec
=============================================================================
