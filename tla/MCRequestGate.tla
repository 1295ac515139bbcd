---------------------------- MODULE MCRequestGate -----------------------------
EXTENDS RequestGate, TLC

CONSTANTS h1, h2, key

\* With Unit = 2: half a token a second, and one and a half with a burst of as much.
RatesValue == {<<1, 0>>, <<3, 3>>}

KeysValue == {h1, h2, UNKNOWN_CLIENT}

Set(expected, required, enabled, trust) ==
    [expected |-> expected, required |-> required, enabled |-> enabled, trust |-> trust]

\* No key, though one is required, and a trusted proxy; a key, and a limit.
SettingsValue == {Set(NoKey, TRUE, FALSE, TRUE), Set(key, FALSE, TRUE, FALSE)}

Send(k, peer, forwarded) == [key |-> k, peer |-> peer, forwarded |-> forwarded]

RequestValue == {Send(key, h1, h2), Send(NoKey, NoHost, NoHost)}

Same == Permutations(Calls)

===============================================================================
