----------------------------- MODULE RequestGate ------------------------------
(***************************************************************************)
(* A service that guards its routes with the dependencies require_key and  *)
(* limit of ss_kit.web, in that order, over one RateLimiter.  Each of them  *)
(* asks the settings twice, one callable after the other, in a thread of   *)
(* the pool: other requests and changes of the settings come in between.   *)
(* The limiter's own calls do not overlap (their overlap is the subject of *)
(* RateLimiterThreads).                                                    *)
(***************************************************************************)
EXTENDS RateLimiter

CONSTANTS Secrets,         \* API keys that clients and settings may hold
          NoKey,           \* the empty string
          NoHost,          \* no proxy header, or no peer address
          UNKNOWN_CLIENT,
          Settings,        \* what the settings callables may return
          Request,         \* what clients may send
          Calls,           \* requests that may be under way at one time
          NoCall

\* Where a request is: it has asked for the expected key; it is past require_key; limit
\* has found itself enabled.
Stages == {"asked", "past", "limited"}

ASSUME GateAssumption ==
    /\ NoKey \notin Secrets
    /\ UNKNOWN_CLIENT \in Keys /\ NoHost \notin Keys
    /\ Settings \subseteq [expected : Secrets \cup {NoKey}, required : BOOLEAN,
                           enabled : BOOLEAN, trust : BOOLEAN]
    /\ Request \subseteq [key : Secrets \cup {NoKey}, peer : Keys \cup {NoHost},
                          forwarded : Keys \cup {NoHost}]
    /\ NoCall \notin [req : Request, at : Stages, expected : Secrets \cup {NoKey}, seen : SUBSET Settings]

VARIABLES
    settings,  \* what the settings callables return now
    call,      \* the requests under way
    vouched,   \* observer: addresses sent with a key that was the configured one, or when none was needed
    proxied    \* observer: proxy headers have been trusted

gate == <<settings, call, vouched, proxied>>

GateInit ==
    /\ Init
    /\ settings \in Settings
    /\ call = [c \in Calls |-> NoCall]
    /\ vouched = {}
    /\ proxied = settings.trust

-----------------------------------------------------------------------------
At(c, stage) == call[c] # NoCall /\ call[c].at = stage
\* seen, an observer, is the settings in force while require_key runs.
Goes(c, stage) == call' = [call EXCEPT ![c].at = stage, ![c].seen = {}]
Ends(c) == call' = [call EXCEPT ![c] = NoCall]

\* Mutant: with no key configured every request passes.
CheckApiKeyOpen(presented, expected, required) ==
    IF expected = NoKey THEN 200
    ELSE IF presented = expected THEN 200 ELSE 403

\* check_api_key: the status it raises, 200 when it returns.
CheckApiKey(presented, expected, required) ==
    IF expected = NoKey THEN IF required THEN 503 ELSE 200
    ELSE IF presented = expected THEN 200 ELSE 403

\* require_key asks for the expected key first ...
AskExpected(c, r) ==
    /\ call[c] = NoCall
    /\ call' = [call EXCEPT ![c] = [req |-> r, at |-> "asked", expected |-> settings.expected,
                                    seen |-> {settings}]]
    /\ UNCHANGED <<vars, settings, vouched, proxied>>

\* A request the settings seen let through: its key was the configured one at some
\* moment, or there was a moment without a key and one without the need of any.
Vouches(r, seen) ==
    \/ r.key \in Secrets /\ \E s \in seen : s.expected = r.key
    \/ (\E s \in seen : s.expected = NoKey) /\ \E s \in seen : ~s.required

\* ... then whether one is required, and decides; a refused request leaves no trace.
RequireApiKey(c) ==
    /\ At(c, "asked")
    /\ LET r == call[c].req
       IN  IF CheckApiKey(r.key, call[c].expected, settings.required) = 200
           THEN /\ Goes(c, "past")
                /\ vouched' = IF Vouches(r, call[c].seen) THEN vouched \cup {<<r.peer, r.forwarded>>}
                              ELSE vouched
           ELSE Ends(c) /\ UNCHANGED vouched
    /\ UNCHANGED <<vars, settings, proxied>>

\* limit asks whether it is enabled: the request goes on without it, or ...
AskEnabled(c) ==
    /\ At(c, "past")
    /\ IF settings.enabled THEN Goes(c, "limited") ELSE Ends(c)
    /\ UNCHANGED <<vars, settings, vouched, proxied>>

\* Mutant: the header names the client whether a proxy is trusted or not.
ClientKeyForwarded(r) ==
    IF r.forwarded # NoHost THEN r.forwarded
    ELSE IF r.peer # NoHost THEN r.peer ELSE UNKNOWN_CLIENT

ClientKey(r) ==
    IF settings.trust /\ r.forwarded # NoHost THEN r.forwarded
    ELSE IF r.peer # NoHost THEN r.peer ELSE UNKNOWN_CLIENT

\* ... asks for the trust in headers, and answers 200 or 429 by what check() says.
RateLimit(c) ==
    /\ At(c, "limited")
    /\ LET k == ClientKey(call[c].req) IN CheckNew(k) \/ CheckKnown(k)
    /\ Ends(c)
    /\ UNCHANGED <<settings, vouched, proxied>>

SetSettings(s) ==
    /\ settings' = s /\ proxied' = (proxied \/ s.trust)
    /\ call' = [c \in Calls |-> IF At(c, "asked") THEN [call[c] EXCEPT !.seen = @ \cup {s}] ELSE call[c]]
    /\ UNCHANGED <<vars, vouched>>

Outside == (Tick \/ \E q \in Rates : SetRate(q)) /\ UNCHANGED gate

GateNext ==
    \/ \E c \in Calls : \/ \E r \in Request : AskExpected(c, r)
                        \/ RequireApiKey(c) \/ AskEnabled(c) \/ RateLimit(c)
    \/ \E s \in Settings : SetSettings(s)
    \/ Outside

GateSpec == GateInit /\ [][GateNext]_<<vars, gate>>

-----------------------------------------------------------------------------
(* Properties *)

\* Every client of the limiter's table is the address of a request whose key was the
\* configured one while require_key looked at it, or which came while there was a moment
\* without a key and a moment without the need of one; and it is one that a header has
\* named only if proxy headers were trusted.  Whatever other requests are under way and
\* however the settings change between the four questions a request asks them, who
\* cannot get in, or changes a header, does not fill the table (web/__init__.py:99-131).
TableOfVouched ==
    \A k \in Members(order) : \E v \in vouched :
        \/ k = v[1]
        \/ v[1] = NoHost /\ k = UNKNOWN_CLIENT
        \/ proxied /\ k = v[2]

=============================================================================
