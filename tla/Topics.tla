-------------------------------- MODULE Topics --------------------------------
(***************************************************************************)
(* MQTT topics of ss_contracts.topics and ss_contracts.tooling.topics: a   *)
(* pattern and a topic are sequences of levels.  A level of a pattern is a *)
(* literal, a placeholder ({name}) or something the validation refuses; a  *)
(* level of a topic is any string without "/".  The text of a placeholder  *)
(* is a valid topic level too, so all of them come from one set of strings.*)
(***************************************************************************)
EXTENDS Integers, Sequences, FiniteSets, SequencesExt

CONSTANTS Literals,      \* strings that LITERAL_RE accepts
          Placeholders,  \* strings that PLACEHOLDER_RE accepts
          OtherValues,   \* strings only VALUE_RE accepts
          BadLevels,     \* the empty string and strings with a wildcard
          Root,          \* the level "ss"
          Plus           \* the level "+"

ASSUME LevelsAssumption ==
    /\ Root \in Literals /\ Plus \in BadLevels
    /\ Literals \cap Placeholders = {}
    /\ (Literals \cup Placeholders \cup OtherValues) \cap BadLevels = {}

Values == Literals \cup Placeholders \cup OtherValues
Levels == Values \cup BadLevels

\* TopicEntry.placeholders, as positions and as names.
Slots(pattern) == {i \in DOMAIN pattern : pattern[i] \in Placeholders}
NamesOf(pattern) == {pattern[i] : i \in Slots(pattern)}

-----------------------------------------------------------------------------
(* TopicEntry *)

\* TopicEntry.match finds the values of the placeholders.
Matches(pattern, topic) ==
    /\ Len(topic) = Len(pattern)
    /\ \A i \in DOMAIN pattern :
          IF i \in Slots(pattern) THEN topic[i] \in Values ELSE topic[i] = pattern[i]

\* The placeholder values of a match; the last of two equal names wins.
Params(pattern, topic) ==
    [n \in NamesOf(pattern) |->
        topic[CHOOSE i \in Slots(pattern) :
                 pattern[i] = n /\ \A j \in Slots(pattern) : pattern[j] = n => j <= i]]

\* Mutant: build does not look at the values.
CanBuildAny(pattern, params) == DOMAIN params = NamesOf(pattern)

\* TopicEntry.build accepts these values.
CanBuild(pattern, params) ==
    DOMAIN params = NamesOf(pattern) /\ \A n \in NamesOf(pattern) : params[n] \in Values

Build(pattern, params) ==
    [i \in 1..Len(pattern) |-> IF i \in Slots(pattern) THEN params[pattern[i]] ELSE pattern[i]]

\* TopicEntry.subscription: the filter a broker is given.
Subscription(pattern) ==
    [i \in 1..Len(pattern) |-> IF i \in Slots(pattern) THEN Plus ELSE pattern[i]]

\* A broker delivers the topics a filter without "#" covers: "+" stands for one level.
Delivers(filter, topic) ==
    /\ Len(topic) = Len(filter)
    /\ \A i \in DOMAIN filter : filter[i] \in {Plus, topic[i]}

-----------------------------------------------------------------------------
(* TopicMap: a sequence of entries [pattern, contract] *)

EntriesFor(map, contract) == {i \in DOMAIN map : map[i].contract = contract}

Hits(map, topic) == {i \in DOMAIN map : Matches(map[i].pattern, topic)}

\* TopicMap.resolve: the first entry that matches; a hit is required.
Resolved(map, topic) ==
    map[CHOOSE i \in Hits(map, topic) : \A j \in Hits(map, topic) : i <= j]

\* TopicBuilder.entry: the only entry of a contract.
HasEntry(map, contract) == \E i \in DOMAIN map : EntriesFor(map, contract) = {i}
EntryOf(map, contract) == map[CHOOSE i \in DOMAIN map : EntriesFor(map, contract) = {i}]

-----------------------------------------------------------------------------
(* topic_map_errors: what a valid map has none of *)

\* No finding of _pattern_errors.
PatternOk(pattern) ==
    /\ Len(pattern) >= 2 /\ pattern[1] = Root
    /\ \A i \in 2..Len(pattern) : pattern[i] \in Literals \cup Placeholders
    /\ \A i, j \in Slots(pattern) : pattern[i] = pattern[j] => i = j

\* Mutant: two patterns overlap only where one has nothing but placeholders.
OverlapOneSided(first, second) ==
    /\ Len(first) = Len(second)
    /\ \/ \A i \in DOMAIN first : first[i] = second[i] \/ i \in Slots(first)
       \/ \A i \in DOMAIN first : first[i] = second[i] \/ i \in Slots(second)

\* Mutant: a placeholder overlaps whatever the rest of the patterns is.
OverlapAnywhere(first, second) ==
    /\ Len(first) = Len(second)
    /\ \E i \in DOMAIN first : first[i] = second[i] \/ i \in Slots(first) \cup Slots(second)

\* patterns_overlap
Overlap(first, second) ==
    /\ Len(first) = Len(second)
    /\ \A i \in DOMAIN first : first[i] = second[i] \/ i \in Slots(first) \cup Slots(second)

\* No finding of _overlap_errors, which compares every entry with those after it.
OverlapFree(map) ==
    \A i, j \in DOMAIN map :
        i < j => map[i].pattern # map[j].pattern /\ ~Overlap(map[i].pattern, map[j].pattern)

\* No finding of _binding_errors: a contract that declares a topic is mapped once, to it.
BindingsOk(map, declared) ==
    \A c \in DOMAIN declared :
        \E i \in DOMAIN map : EntriesFor(map, c) = {i} /\ map[i].pattern = declared[c]

\* registered holds the contract ids, declared the mqttTopic of those that bind one.
MapOk(map, registered, declared) ==
    /\ \A i \in DOMAIN map : PatternOk(map[i].pattern) /\ map[i].contract \in registered
    /\ OverlapFree(map)
    /\ BindingsOk(map, declared)

=============================================================================
