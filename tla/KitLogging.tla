------------------------------ MODULE KitLogging ------------------------------
(***************************************************************************)
(* ss_kit.logging: configure_logging attaches a queue handler to the root  *)
(* logger and starts a listener thread that writes the queued records;     *)
(* stop_logging sends the listener a sentinel, waits for it and detaches   *)
(* the handler.  One thread configures and stops (the service entry point, *)
(* and atexit after it) while other threads log.  Every configuration has  *)
(* a handler, a queue and a listener of its own; all of them, the raw      *)
(* lines, and Python's handler of last resort, write to one stream, stderr. *)
(***************************************************************************)
EXTENDS Integers, Sequences, SequencesExt

CONSTANTS Threads,     \* threads that log
          MaxRecords,  \* bound on the records of a thread
          MaxConfigs,  \* bound on the configurations of the process
          MaxLines,    \* bound on the raw lines written by write_line alone
          Sentinel,    \* what ends a listener
          RawLine      \* a banner, a footer or any other raw line

ASSUME KitLoggingAssumption ==
    MaxRecords \in Nat /\ MaxConfigs \in Nat /\ MaxLines \in Nat

Configs == 1..MaxConfigs
Records == Threads \X (1..MaxRecords)
NoConfig == 0
LastResort == 0  \* logging.lastResort, which takes a warning when the root logger has no handler

ASSUME MarksAssumption == Sentinel \notin Records /\ RawLine \notin Records

VARIABLES
    handlers,  \* configurations whose queue handler is on the root logger
    state,     \* _State: the configuration to stop, or NoConfig
    made,      \* configurations made so far, which number them
    queue,     \* the queue of each configuration
    running,   \* configurations whose listener thread runs
    sink,      \* what the stream has received
    logged,    \* records each thread has begun to log
    offered,   \* handlers a thread's log call has found and still offers its record to
    step,      \* where the configuring thread is
    target,    \* the configuration it is stopping
    force,     \* whether it configures anew once it has stopped
    due        \* observer: records in the queue when stop_logging was called

service == <<handlers, state, made, running>>
caller == <<step, target, force, due>>
vars == <<handlers, state, made, queue, running, sink, logged, offered,
          step, target, force, due>>

Steps == {"idle", "sentinel", "join", "detach", "install", "attach", "banner"}

TypeOK ==
    /\ handlers \in SUBSET Configs
    /\ state \in Configs \cup {NoConfig}
    /\ made \in 0..MaxConfigs
    /\ queue \in [Configs -> Seq(Records \cup {Sentinel})]
    /\ running \in SUBSET Configs
    /\ sink \in Seq(Records \cup {RawLine})
    /\ logged \in [Threads -> 0..MaxRecords]
    /\ offered \in [Threads -> SUBSET (Configs \cup {LastResort})]
    /\ step \in Steps
    /\ target \in Configs \cup {NoConfig}
    /\ force \in BOOLEAN
    /\ due \in SUBSET Records

Init ==
    /\ handlers = {} /\ running = {}
    /\ state = NoConfig /\ made = 0 /\ target = NoConfig
    /\ queue = [g \in Configs |-> <<>>]
    /\ sink = <<>>
    /\ logged = [t \in Threads |-> 0]
    /\ offered = [t \in Threads |-> {}]
    /\ step = "idle" /\ force = FALSE
    /\ due = {}

-----------------------------------------------------------------------------
(* Threads that log *)

\* A log call reads the handlers of the root logger; without one a warning is for the
\* last resort, and a record of a lower level for nobody.
Log(t) ==
    /\ offered[t] = {} /\ logged[t] < MaxRecords
    /\ logged' = [logged EXCEPT ![t] = @ + 1]
    /\ \E found \in {handlers} \cup (IF handlers = {} THEN {{LastResort}} ELSE {}) :
           offered' = [offered EXCEPT ![t] = found]
    /\ UNCHANGED <<service, queue, sink, caller>>

\* The last resort writes in the thread that logs, past every queue, whenever it gets there.
WriteLastResort(t) ==
    /\ LastResort \in offered[t]
    /\ sink' = Append(sink, <<t, logged[t]>>)
    /\ offered' = [offered EXCEPT ![t] = {}]
    /\ UNCHANGED <<service, queue, logged, caller>>

\* The queue handler puts the record into its queue, whatever has become of it.
Put(t, g) ==
    /\ g \in offered[t]
    /\ queue' = [queue EXCEPT ![g] = Append(@, <<t, logged[t]>>)]
    /\ offered' = [offered EXCEPT ![t] = @ \ {g}]
    /\ UNCHANGED <<service, sink, logged, caller>>

\* The listener thread writes the next record, or ends at the sentinel.
Listen(g) ==
    /\ g \in running /\ queue[g] # <<>>
    /\ queue' = [queue EXCEPT ![g] = Tail(@)]
    /\ IF Head(queue[g]) = Sentinel
       THEN running' = running \ {g} /\ sink' = sink
       ELSE running' = running /\ sink' = Append(sink, Head(queue[g]))
    /\ UNCHANGED <<handlers, state, made, logged, offered, caller>>

-----------------------------------------------------------------------------
(* stop_logging *)

\* A second stop finds nothing to stop.
StopNothing ==
    /\ step = "idle" /\ state = NoConfig
    /\ UNCHANGED vars

\* stop_logging, called by itself or by configure_logging(force=True).
Stop(again) ==
    /\ step = "idle" /\ state # NoConfig
    /\ again => state < MaxConfigs
    /\ step' = "sentinel" /\ target' = state /\ force' = again
    /\ state' = NoConfig
    /\ due' = ToSet(queue[state]) \ {Sentinel}
    /\ UNCHANGED <<handlers, made, queue, running, sink, logged, offered>>

\* Mutant: the listener is never told to end.
StopSendNothing ==
    /\ step = "sentinel" /\ step' = "join"
    /\ UNCHANGED <<service, queue, sink, logged, offered, target, force, due>>

StopSend ==
    /\ step = "sentinel" /\ step' = "join"
    /\ queue' = [queue EXCEPT ![target] = Append(@, Sentinel)]
    /\ UNCHANGED <<service, sink, logged, offered, target, force, due>>

\* Mutant: the listener is told to end and not waited for.
StopJoinNot ==
    /\ step = "join" /\ step' = "detach"
    /\ UNCHANGED <<service, queue, sink, logged, offered, target, force, due>>

StopJoin ==
    /\ step = "join" /\ target \notin running
    /\ step' = "detach"
    /\ UNCHANGED <<service, queue, sink, logged, offered, target, force, due>>

StopDetach ==
    /\ step = "detach"
    /\ handlers' = handlers \ {target}
    /\ step' = IF force THEN "install" ELSE "idle"
    /\ target' = NoConfig /\ force' = FALSE /\ due' = {}
    /\ UNCHANGED <<state, made, running, queue, sink, logged, offered>>

-----------------------------------------------------------------------------
(* configure_logging *)

\* A configured process refuses without force.
ConfigureRefused ==
    /\ step = "idle" /\ state # NoConfig
    /\ UNCHANGED vars

Configure ==
    /\ step = "idle" /\ state = NoConfig /\ made < MaxConfigs
    /\ step' = "install"
    /\ UNCHANGED <<service, queue, sink, logged, offered, target, force, due>>

\* Every handler on the root logger goes; the new listener starts.
Install ==
    /\ step = "install" /\ step' = "attach"
    /\ handlers' = {}
    /\ state' = made + 1 /\ made' = made + 1
    /\ running' = running \cup {made + 1}
    /\ UNCHANGED <<queue, sink, logged, offered, target, force, due>>

Attach ==
    /\ step = "attach" /\ step' = "banner"
    /\ handlers' = handlers \cup {state}
    /\ UNCHANGED <<state, made, running, queue, sink, logged, offered, target, force, due>>

\* The banner goes past the queue, by write_line.
Banner(given) ==
    /\ step = "banner" /\ step' = "idle"
    /\ sink' = IF given THEN Append(sink, RawLine) ELSE sink
    /\ UNCHANGED <<service, queue, logged, offered, target, force, due>>

\* write_line, called by itself: a footer or any raw line.
WriteLine ==
    /\ step = "idle"
    /\ Len(SelectSeq(sink, LAMBDA x : x = RawLine)) < MaxLines
    /\ sink' = Append(sink, RawLine)
    /\ UNCHANGED <<service, queue, logged, offered, caller>>

Caller ==
    \/ StopSend \/ StopJoin \/ StopDetach \/ Install \/ Attach
    \/ \E given \in BOOLEAN : Banner(given)

Next ==
    \/ \E t \in Threads : Log(t) \/ WriteLastResort(t) \/ \E g \in Configs : Put(t, g)
    \/ \E g \in Configs : Listen(g)
    \/ \E again \in BOOLEAN : Stop(again)
    \/ StopNothing \/ ConfigureRefused \/ Configure \/ WriteLine
    \/ Caller

Spec == Init /\ [][Next]_vars

\* Threads that have something to do are scheduled: the calling thread inside a
\* call and the listener threads.  Nobody has to call or to log.
FairSpec ==
    /\ Spec
    /\ WF_vars(Caller)
    /\ \A g \in Configs : WF_vars(Listen(g))

-----------------------------------------------------------------------------
(* Properties *)

Written == ToSet(sink)

\* When stop_logging returns, every record that was in the queue when it was called
\* has been written, while other threads keep logging.
DrainedWhenStopped == [][StopDetach => due \subseteq Written]_vars

\* The records of one thread are written in the order it logged them, none of them
\* twice, across a configure_logging(force=True) too, which moves the thread from one
\* queue and listener to another, and across a time without configuration, in which the
\* thread writes its warnings itself.
ThreadOrder ==
    \A i, j \in {k \in DOMAIN sink : sink[k] # RawLine} :
        i < j /\ sink[i][1] = sink[j][1] => sink[i][2] < sink[j][2]

\* Between stop_logging and the next configure_logging the stream receives raw lines and
\* the warnings of log calls that have found no handler at all.  What was given to a
\* handler is written before a footer that follows stop_logging, or never
\* (logging.py:79-93; tests/kit/test_logging.py:75 and 111).
Homeless == {<<t, logged[t]>> : t \in {u \in Threads : LastResort \in offered[u]}}
QuietAfterStop ==
    [][state = NoConfig /\ step = "idle" => Written' \subseteq Written \cup {RawLine} \cup Homeless]_vars

\* stop_logging returns, however much the other threads log meanwhile.
StopReturns == step = "sentinel" ~> step \in {"idle", "install"}

=============================================================================
