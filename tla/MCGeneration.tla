----------------------------- MODULE MCGeneration -----------------------------
EXTENDS Generation

CONSTANTS reading, state, readingPy, statePy

MCModules == {readingPy, statePy, TopicMap, Package}

\* Ids whose modules have names of their own.
MCModuleOf == [i \in Ids |-> IF i = reading THEN readingPy ELSE statePy]

MCUnready == {<<state, 2>>}
MCFailing == {<<reading, 2>>}

=============================================================================
