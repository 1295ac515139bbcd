---------------------------- MODULE MCTopicRelease ----------------------------
EXTENDS TopicRelease

CONSTANTS a, b, x, y, empty, reading, state

MCLiterals == {Root, a, b}
MCPlaceholders == {x, y}
MCBadLevels == {Plus, empty}
MCRegistered == {reading, state}

Entry(pattern, contract) == [pattern |-> pattern, contract |-> contract]

Home == <<Root, a, x>>
Away == <<Root, b, x>>

\* What reading declares; state binds no topic.
Reading(version, topic) ==
    (reading :> [major |-> version, topic |-> topic]) @@ (state :> [major |-> 1, topic |-> NoTopic])
Rebound == {Reading(1, Home), Reading(1, Away), Reading(2, Away)}

Usual == <<Entry(Home, reading), Entry(Away, state)>>
Crossing == <<Entry(Home, reading), Entry(<<Root, y, b>>, state)>>
Swapped == <<Entry(Away, reading), Entry(Home, state)>>

MCAuthored == {Usual, Crossing, Swapped}
MCOverrides == {Swapped}

=============================================================================
