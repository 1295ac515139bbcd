----------------------------- MODULE TopicRelease -----------------------------
(***************************************************************************)
(* The life of a topic map: authored in contracts/topics.yaml, committed   *)
(* as ss_contracts.models.topic_map by `ss-contracts generate`, released   *)
(* once `make ci` is clean, loaded by services (ss_kit.mqtt's              *)
(* TopicBuilder), which publish and resolve topics through it.  Services   *)
(* start from different releases, or from a topics.yaml of their site.     *)
(* Contracts may bind their topic (ssBinding.mqttTopic); the evolution     *)
(* commands let it move with a new major version only.                     *)
(***************************************************************************)
EXTENDS Topics

CONSTANTS Authored,    \* the maps authors may write
          Overrides,   \* the maps a site may bring
          Registered,  \* contract ids of the registry
          Declarations, \* what the contracts may declare: a major version and a topic each
          NoTopic,     \* a contract without ssBinding.mqttTopic
          Services,
          MaxMessages, \* bound on the messages at the broker
          NoMap,       \* an absent topics.yaml or topic_map module
          Unusable     \* a document that raises TopicMapError, or a torn module

IsMap(map) ==
    map \in Seq(ToSet(map)) /\ \A i \in DOMAIN map : map[i].pattern \in Seq(Levels)

ASSUME ReleaseAssumption ==
    /\ \A map \in Authored \cup Overrides : IsMap(map)
    /\ NoMap \notin Authored \cup Overrides /\ Unusable \notin Authored \cup Overrides
    /\ \A d \in Declarations : \A c \in Registered : d[c].major \in Nat
    /\ MaxMessages \in Nat

Maps == Authored \cup Overrides

VARIABLES
    authored,   \* contracts/topics.yaml
    declared,   \* version and mqttTopic in the ODCS documents
    recorded,   \* the same in the histories of contracts/evolution
    committed,  \* ss_contracts/models/topic_map.py
    released,   \* the topic map module of the latest release
    shipped,    \* observer: what its contracts declare
    loaded,     \* the map each service runs with
    running,    \* observer: what the contracts of each service's release declare
    broker      \* messages published and still delivered

contracts == <<declared, recorded>>
services == <<loaded, running, broker>>
vars == <<authored, contracts, committed, released, shipped, services>>

Init ==
    /\ authored = NoMap /\ committed = NoMap /\ released = NoMap
    /\ declared \in Declarations /\ recorded = <<>> /\ shipped = declared
    /\ loaded = [s \in Services |-> NoMap]
    /\ running = [s \in Services |-> declared]
    /\ broker = {}

-----------------------------------------------------------------------------
(* Authors and releases *)

Edit(doc) ==
    /\ authored' = doc
    /\ UNCHANGED <<contracts, committed, released, shipped, services>>

Declare(d) ==
    /\ declared' = d
    /\ UNCHANGED <<authored, recorded, committed, released, shipped, services>>

\* Mutant: a topic that moves is classified like one that is added.
FollowsMoved(old, new) == \A c \in Registered : new[c].major >= old[c].major

\* The version policy, as far as topics go: a topic may be added, and moves or goes with
\* a new major version only, which no later one takes back.
Follows(old, new) ==
    \A c \in Registered :
        \/ new[c].major > old[c].major
        \/ new[c].major = old[c].major /\ old[c].topic \in {NoTopic, new[c].topic}

\* evolution-freeze: a first snapshot is taken as it is, a step against the policy not.
Freeze ==
    /\ recorded # <<>> => Follows(Last(recorded), declared)
    /\ recorded' = IF recorded # <<>> /\ Last(recorded) = declared THEN recorded
                   ELSE Append(recorded, declared)
    /\ UNCHANGED <<authored, declared, committed, released, shipped, services>>

\* `ss-contracts generate` runs none of the checks of the map; it removes the module
\* when there is no topics.yaml.
Generate ==
    /\ authored # Unusable
    /\ committed' = authored
    /\ UNCHANGED <<authored, contracts, released, shipped, services>>

\* A killed run leaves a torn module.
GenerateKilled ==
    /\ authored \notin {Unusable, NoMap}
    /\ committed' = Unusable
    /\ UNCHANGED <<authored, contracts, released, shipped, services>>

\* The contracts that bind a topic, with it.
TopicsOf(d) == [c \in {r \in Registered : d[r].topic # NoTopic} |-> d[c].topic]

\* `make ci`: validate, the drift gate, evolution-check.
Validate == authored \in Maps => MapOk(authored, Registered, TopicsOf(declared))
NoDrift == committed = authored
EvolutionOk == recorded # <<>> /\ Follows(Last(recorded), declared)

\* Mutant: the gates without validate.
ReleaseUnvalidated ==
    /\ authored # Unusable
    /\ NoDrift /\ EvolutionOk
    /\ released' = committed /\ shipped' = declared
    /\ UNCHANGED <<authored, contracts, committed, services>>

Release ==
    /\ authored # Unusable
    /\ Validate /\ NoDrift /\ EvolutionOk
    /\ released' = committed /\ shipped' = declared
    /\ UNCHANGED <<authored, contracts, committed, services>>

-----------------------------------------------------------------------------
(* Services *)

\* TopicBuilder(): the committed map of the installed release.
Start(s) ==
    /\ released # NoMap
    /\ loaded' = [loaded EXCEPT ![s] = released]
    /\ running' = [running EXCEPT ![s] = shipped]
    /\ UNCHANGED <<authored, contracts, committed, released, shipped, broker>>

\* TopicBuilder.from_yaml checks the document only.
StartFromYaml(s, map) ==
    /\ loaded' = [loaded EXCEPT ![s] = map]
    /\ running' = [running EXCEPT ![s] = shipped]
    /\ UNCHANGED <<authored, contracts, committed, released, shipped, broker>>

\* TopicBuilder.build, then a publish.
Publish(s, c) ==
    /\ loaded[s] # NoMap /\ HasEntry(loaded[s], c)
    /\ Cardinality(broker) < MaxMessages
    /\ LET pattern == EntryOf(loaded[s], c).pattern IN
       \E params \in [NamesOf(pattern) -> Levels] :
          /\ CanBuild(pattern, params)
          /\ Plus \notin ToSet(Build(pattern, params))  \* refused by the MQTT client
          /\ broker' = broker \cup {[topic |-> Build(pattern, params), contract |-> c,
                                     params |-> params, by |-> loaded[s], under |-> running[s]]}
    /\ UNCHANGED <<authored, contracts, committed, released, shipped, loaded, running>>

\* A message reaches a service on its subscription for contract c.
Delivered(s, c, m) ==
    /\ loaded[s] # NoMap /\ HasEntry(loaded[s], c)
    /\ Delivers(Subscription(EntryOf(loaded[s], c).pattern), m.topic)

\* TopicBuilder.resolve
Resolves(s, m) == Hits(loaded[s], m.topic) # {}
Resolution(s, m) ==
    LET entry == Resolved(loaded[s], m.topic)
    IN  [contract |-> entry.contract, params |-> Params(entry.pattern, m.topic)]

\* A message that is not retained, or replaced, or lost.
Drop(m) ==
    /\ broker' = broker \ {m}
    /\ UNCHANGED <<authored, contracts, committed, released, shipped, loaded, running>>

Next ==
    \/ \E doc \in Authored \cup {NoMap, Unusable} : Edit(doc)
    \/ \E d \in Declarations : Declare(d)
    \/ Generate \/ GenerateKilled \/ Freeze \/ Release
    \/ \E s \in Services : Start(s) \/ \E map \in Overrides : StartFromYaml(s, map)
    \/ \E s \in Services, c \in Registered : Publish(s, c)
    \/ \E m \in broker : Drop(m)

Spec == Init /\ [][Next]_vars

-----------------------------------------------------------------------------
(* Properties *)

MessageOk(m) ==
    /\ m.by \in Maps /\ HasEntry(m.by, m.contract) /\ m.under \in Declarations
    /\ m.topic \in Seq(Levels)
    /\ LET pattern == EntryOf(m.by, m.contract).pattern
       IN  m.params \in [NamesOf(pattern) -> Values] /\ m.topic = Build(pattern, m.params)

TypeOK ==
    /\ authored \in Authored \cup {NoMap, Unusable}
    /\ committed \in Authored \cup {NoMap, Unusable}
    /\ released \in Authored \cup {NoMap}
    /\ declared \in Declarations /\ recorded \in Seq(Declarations) /\ shipped \in Declarations
    /\ loaded \in [Services -> Maps \cup {NoMap}]
    /\ running \in [Services -> Declarations]
    /\ \A m \in broker : MessageOk(m)

\* "No two patterns can match the same concrete topic": the map of a release matches
\* every topic at most once, so the order of its entries does not matter.
ReleasedUnambiguous ==
    released # NoMap =>
        \A i, j \in DOMAIN released :
            i # j => \A topic \in [1..Len(released[i].pattern) -> Levels] :
                        ~(Matches(released[i].pattern, topic) /\ Matches(released[j].pattern, topic))

\* validate refuses two well-formed patterns only when some topic matches both.
OverlapIsReal ==
    authored \in Maps =>
        \A i, j \in DOMAIN authored :
            LET p == authored[i].pattern  q == authored[j].pattern IN
            PatternOk(p) /\ PatternOk(q) /\ Overlap(p, q) =>
                \E topic \in [1..Len(p) -> Values] : Matches(p, topic) /\ Matches(q, topic)

\* What a service makes of a message: it came on the subscription of the contract it
\* was published for, and resolves to that contract with the publisher's values.
Right(s, c, m) ==
    /\ c = m.contract /\ Resolves(s, m)
    /\ Resolution(s, m) = [contract |-> m.contract, params |-> m.params]

\* The map of a service is one that validate passes with the contracts of its release.
Valid(map, under) == MapOk(map, Registered, TopicsOf(under))

\* A service whose map is valid and holds the publisher's entry gets the message right,
\* whatever else the two maps hold and in whatever order.
RoutedRight ==
    \A s \in Services, c \in Registered : \A m \in broker :
        /\ Delivered(s, c, m) /\ Valid(loaded[s], running[s])
        /\ EntryOf(m.by, m.contract) \in ToSet(loaded[s])
        => Right(s, c, m)

\* A contract keeps the topic it binds through all releases of one major version: its
\* messages are got right between services with valid maps of any two of them that were
\* reviewed (recorded by evolution-freeze), however often the topic was moved before,
\* between or after by other major versions (topics.py:109-121, evolution_policy.py:87-97).
BoundTopicsStable ==
    \A s \in Services, c \in Registered : \A m \in broker :
        LET mine == running[s][m.contract]
            its  == m.under[m.contract]
        IN  /\ Delivered(s, c, m) /\ Valid(loaded[s], running[s]) /\ Valid(m.by, m.under)
            /\ mine.major = its.major /\ mine.topic # NoTopic /\ its.topic # NoTopic
            /\ \E d, e \in ToSet(recorded) : d[m.contract] = mine /\ e[m.contract] = its
            => Right(s, c, m)

=============================================================================
