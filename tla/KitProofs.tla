------------------------------ MODULE KitProofs -------------------------------
(***************************************************************************)
(* Proofs about ss_kit.logging, for any threads and any number of records   *)
(* and configurations, and about the budget of ss_kit.hw, for any machine.  *)
(* At most one listener runs at a time, and what it has not written yet     *)
(* comes after what is written: hence the order of each thread survives the *)
(* change of queues.  A budget never exceeds what each of its reads allows. *)
(***************************************************************************)
EXTENDS KitLogging, HwBudget, SequenceTheorems, TLAPS

\* Two marks or records of two threads may come in any order.
Before(r, q) == r \in Records /\ q \in Records /\ r[1] = q[1] => r[2] < q[2]
Ordered(s) == \A i, j \in DOMAIN s : i < j => Before(s[i], s[j])

\* A record that its thread has handed over: a later one of the thread is newer.
HandedOver(r, numbers, hands) ==
    r \in Records => /\ r[2] <= numbers[r[1]]
                     /\ hands[r[1]] # {} => r[2] < numbers[r[1]]

\* One configuration at a time: it has one handler, and its listener alone may run.
ConfigOK ==
    /\ handlers \subseteq 1..made /\ \A g, h \in handlers : g = h
    /\ running # {} /\ step # "attach" => handlers = {made}
    /\ \A t \in Threads : offered[t] \subseteq 0..made /\ \A g, h \in offered[t] : g = h
    /\ \A t \in Threads : offered[t] # {} => logged[t] # 0
    /\ running \subseteq {made}
    /\ state \in {NoConfig, made}
    /\ step \in {"sentinel", "join", "detach"} => target = made /\ made # 0 /\ state = NoConfig
    /\ step \in {"attach", "banner"} => state # NoConfig
    /\ step = "attach" => /\ handlers = {} /\ made # 0 /\ queue[made] = <<>>
                          /\ \A t \in Threads : made \notin offered[t]
    /\ step \in {"idle", "detach", "install"} /\ state = NoConfig => running = {}
    /\ step = "install" => made < MaxConfigs /\ state = NoConfig
    /\ step \in {"sentinel", "join", "detach"} /\ force => made < MaxConfigs
    /\ \A g \in Configs : g > made => queue[g] = <<>>

OrderOK ==
    /\ Ordered(sink)
    /\ \A g \in Configs : Ordered(queue[g])
    /\ \A g \in running : \A i \in DOMAIN sink, j \in DOMAIN queue[g] : Before(sink[i], queue[g][j])
    /\ \A i \in DOMAIN sink : HandedOver(sink[i], logged, offered)
    /\ \A g \in Configs : \A i \in DOMAIN queue[g] : HandedOver(queue[g][i], logged, offered)

\* While a thread writes a warning itself, no listener has a record of that thread.
HomelessOK ==
    \A t \in Threads : LastResort \in offered[t] =>
        \A g \in running : \A j \in DOMAIN queue[g] : queue[g][j] \in Records => queue[g][j][1] # t

\* What is due is written, or lies before the sentinel of a listener that runs.
DrainOK ==
    /\ state # NoConfig \/ step = "sentinel" =>
          made \in running /\ \A j \in DOMAIN queue[made] : queue[made][j] # Sentinel
    /\ step = "sentinel" => \A r \in due : r \in Written \/ \E j \in DOMAIN queue[target] : queue[target][j] = r
    /\ step = "join" => \A r \in due :
          \/ r \in Written
          \/ /\ target \in running
             /\ \E j \in DOMAIN queue[target] :
                   queue[target][j] = r /\ \A k \in 1..j : queue[target][k] # Sentinel
    /\ step = "detach" => due \subseteq Written

IInv == TypeOK /\ ConfigOK /\ OrderOK /\ HomelessOK /\ DrainOK

-----------------------------------------------------------------------------
(* Sequences *)

LEMMA AppendType ==
  ASSUME NEW S, NEW s \in Seq(S), NEW x \in S PROVE Append(s, x) \in Seq(S)
  OBVIOUS

LEMMA OrderedAppend ==
  ASSUME NEW S, NEW s \in Seq(S), NEW x \in S, Ordered(s), \A i \in DOMAIN s : Before(s[i], x)
  PROVE  Ordered(Append(s, x))
<1> SUFFICES ASSUME NEW i \in DOMAIN Append(s, x), NEW j \in DOMAIN Append(s, x), i < j
             PROVE  Before(Append(s, x)[i], Append(s, x)[j])
  BY DEF Ordered
<1>1. i \in DOMAIN s /\ Append(s, x)[i] = s[i]
  OBVIOUS
<1>2. CASE j \in DOMAIN s
  BY <1>1, <1>2 DEF Ordered
<1>3. CASE j \notin DOMAIN s
  <2>1. Append(s, x)[j] = x
    BY <1>3
  <2>. QED
    BY <1>1, <2>1
<1>. QED
  BY <1>2, <1>3

LEMMA OrderedTail ==
  ASSUME NEW S, NEW s \in Seq(S), s # <<>>, Ordered(s)
  PROVE  /\ Ordered(Tail(s))
         /\ \A i \in DOMAIN Tail(s) : i + 1 \in DOMAIN s /\ Tail(s)[i] = s[i + 1]
         /\ \A i \in DOMAIN Tail(s) : Before(Head(s), Tail(s)[i])
<1>1. \A i \in DOMAIN Tail(s) : i + 1 \in DOMAIN s /\ Tail(s)[i] = s[i + 1]
  OBVIOUS
<1>2. Ordered(Tail(s))
  <2> SUFFICES ASSUME NEW i \in DOMAIN Tail(s), NEW j \in DOMAIN Tail(s), i < j
               PROVE  Before(Tail(s)[i], Tail(s)[j])
    BY DEF Ordered
  <2>1. i + 1 < j + 1
    OBVIOUS
  <2>. QED
    BY <1>1, <2>1 DEF Ordered
<1>3. ASSUME NEW i \in DOMAIN Tail(s) PROVE Before(Head(s), Tail(s)[i])
  <2>1. Head(s) = s[1] /\ 1 \in DOMAIN s /\ 1 < i + 1
    OBVIOUS
  <2>. QED
    BY <1>1, <2>1 DEF Ordered
<1>. QED
  BY <1>1, <1>2, <1>3

LEMMA OrderIsThreadOrder == TypeOK /\ Ordered(sink) => ThreadOrder
<1> SUFFICES ASSUME TypeOK, Ordered(sink),
                    NEW i \in DOMAIN sink, NEW j \in DOMAIN sink, sink[i] # RawLine, sink[j] # RawLine,
                    i < j, sink[i][1] = sink[j][1]
             PROVE  sink[i][2] < sink[j][2]
  BY DEF ThreadOrder
<1>1. sink[i] \in Records /\ sink[j] \in Records
  BY DEF TypeOK
<1>. QED
  BY <1>1 DEF Ordered, Before

-----------------------------------------------------------------------------
(* Types *)

LEMMA InitInv == Init => IInv
<1> SUFFICES ASSUME Init PROVE IInv
  OBVIOUS
<1>1. TypeOK
  <2>1. queue \in [Configs -> Seq(Records \cup {Sentinel})] /\ sink \in Seq(Records \cup {RawLine})
    BY DEF Init
  <2>2. 0 \in 0..MaxConfigs /\ 0 \in 0..MaxRecords
    BY KitLoggingAssumption
  <2>. QED
    BY <2>1, <2>2 DEF Init, TypeOK, Steps
<1>2. ConfigOK /\ OrderOK /\ HomelessOK /\ DrainOK
  BY DEF Init, ConfigOK, OrderOK, HomelessOK, DrainOK, Ordered, NoConfig
<1>. QED
  BY <1>1, <1>2 DEF IInv

LEMMA TypeStep == TypeOK /\ ConfigOK /\ [Next]_vars => TypeOK'
<1> SUFFICES ASSUME TypeOK, ConfigOK, [Next]_vars PROVE TypeOK'
  OBVIOUS
<1>. USE KitLoggingAssumption DEF TypeOK, Configs, NoConfig
<1>1. ASSUME NEW t \in Threads, Log(t) PROVE TypeOK'
  BY <1>1 DEF Log, service, caller, LastResort
<1>0. ASSUME NEW t \in Threads, WriteLastResort(t) PROVE TypeOK'
  <2>1. <<t, logged[t]>> \in Records \cup {RawLine}
    BY <1>0 DEF WriteLastResort, ConfigOK, Records
  <2>2. sink' \in Seq(Records \cup {RawLine})
    BY <1>0, <2>1, AppendType DEF WriteLastResort
  <2>. QED
    BY <1>0, <2>2 DEF WriteLastResort, service, caller
<1>2. ASSUME NEW t \in Threads, NEW g \in Configs, Put(t, g) PROVE TypeOK'
  <2>1. <<t, logged[t]>> \in Records
    <3>1. logged[t] >= 1
      BY <1>2 DEF Put, ConfigOK
    <3>. QED
      BY <3>1 DEF Records
  <2>2. Append(queue[g], <<t, logged[t]>>) \in Seq(Records \cup {Sentinel})
    BY <2>1
  <2>. QED
    BY <1>2, <2>2 DEF Put, service, caller
<1>3. ASSUME NEW g \in Configs, Listen(g) PROVE TypeOK'
  <2>1. Head(queue[g]) \in Records \cup {Sentinel} /\ Tail(queue[g]) \in Seq(Records \cup {Sentinel})
    BY <1>3 DEF Listen
  <2>2. sink' \in Seq(Records \cup {RawLine})
    <3>1. sink' = sink \/ (sink' = Append(sink, Head(queue[g])) /\ Head(queue[g]) # Sentinel)
      BY <1>3 DEF Listen
    <3>2. Head(queue[g]) # Sentinel => Head(queue[g]) \in Records \cup {RawLine}
      BY <2>1
    <3>3. sink \in Seq(Records \cup {RawLine})
      OBVIOUS
    <3>. QED
      BY ONLY <3>1, <3>2, <3>3, AppendType
  <2>3. queue' \in [Configs -> Seq(Records \cup {Sentinel})]
    BY <1>3, <2>1 DEF Listen
  <2>. QED
    BY <1>3, <2>2, <2>3 DEF Listen, caller
<1>4. ASSUME NEW again \in BOOLEAN, Stop(again) PROVE TypeOK'
  <2>1. state \in Configs
    BY <1>4 DEF Stop
  <2>2. ToSet(queue[state]) \ {Sentinel} \subseteq Records
    BY <2>1 DEF ToSet
  <2>. QED
    BY <1>4, <2>1, <2>2 DEF Stop, Steps
<1>5. CASE StopNothing \/ ConfigureRefused
  BY <1>5 DEF StopNothing, ConfigureRefused, vars, service, caller
<1>6. CASE Configure
  BY <1>6 DEF Configure, service, Steps
<1>7. CASE WriteLine
  BY <1>7 DEF WriteLine, service, caller
<1>8. CASE StopSend
  <2>1. Append(queue[target], Sentinel) \in Seq(Records \cup {Sentinel}) \/ target \notin Configs
    OBVIOUS
  <2>. QED
    BY <1>8, <2>1 DEF StopSend, service, Steps
<1>9. CASE StopJoin \/ StopDetach
  BY <1>9 DEF StopJoin, StopDetach, service, Steps
<1>10. CASE Install
  BY <1>10 DEF Install, ConfigOK, Steps
<1>11. CASE Attach
  BY <1>11 DEF Attach, ConfigOK, Steps
<1>12. ASSUME NEW given \in BOOLEAN, Banner(given) PROVE TypeOK'
  BY <1>12 DEF Banner, service, Steps
<1>13. CASE UNCHANGED vars
  BY <1>13 DEF vars, service, caller
<1>. QED
  BY <1>0, <1>1, <1>2, <1>3, <1>4, <1>5, <1>6, <1>7, <1>8, <1>9, <1>10, <1>11, <1>12, <1>13 DEF Next, Caller

-----------------------------------------------------------------------------
(* Configurations *)

LEMMA ConfigStep == TypeOK /\ ConfigOK /\ [Next]_vars => ConfigOK'
<1> SUFFICES ASSUME TypeOK, ConfigOK, [Next]_vars PROVE ConfigOK'
  OBVIOUS
<1>. USE KitLoggingAssumption DEF TypeOK, ConfigOK, Configs, NoConfig
<1>1. ASSUME NEW t \in Threads, Log(t) PROVE ConfigOK'
  <2>1. /\ offered'[t] = handlers \/ (handlers = {} /\ offered'[t] = {0})
        /\ logged'[t] # 0
        /\ \A u \in Threads : u # t => offered'[u] = offered[u] /\ logged'[u] = logged[u]
        /\ UNCHANGED <<service, queue, caller>>
    BY <1>1 DEF Log, LastResort
  <2>2. ASSUME NEW u \in Threads PROVE offered'[u] \subseteq 0..made /\ \A g, h \in offered'[u] : g = h
    <3>1. CASE u # t
      BY <2>1, <3>1
    <3>2. 0 \in 0..made /\ handlers \subseteq 0..made /\ \A g, h \in handlers : g = h
      OBVIOUS
    <3>3. CASE u = t
      BY ONLY <2>1, <3>2, <3>3
    <3>. QED
      BY <3>1, <3>3
  <2>5. \A u \in Threads : offered'[u] # {} => logged'[u] # 0
    BY <2>1
  <2>3. step = "attach" => \A u \in Threads : made \notin offered'[u]
    BY <2>1
  <2>6. UNCHANGED <<handlers, state, made, running, queue, step, target, force>>
    BY <2>1 DEF service, caller
  <2>. QED
    BY <2>2, <2>3, <2>5, <2>6
<1>0. ASSUME NEW t \in Threads, WriteLastResort(t) PROVE ConfigOK'
  <2>1. /\ offered'[t] = {} /\ \A u \in Threads : u # t => offered'[u] = offered[u]
        /\ UNCHANGED <<service, queue, logged, caller>>
    BY <1>0 DEF WriteLastResort
  <2>2. \A u \in Threads : offered'[u] \subseteq offered[u]
    BY <2>1
  <2>. QED
    BY <2>1, <2>2 DEF service, caller
<1>2. ASSUME NEW t \in Threads, NEW g \in Configs, Put(t, g) PROVE ConfigOK'
  <2>1. g <= made
    BY <1>2 DEF Put
  <2>2. \A h \in Configs : h > made => queue'[h] = <<>>
    <3>1. \A h \in Configs : h # g => queue'[h] = queue[h]
      BY <1>2 DEF Put
    <3>2. ASSUME NEW h \in Configs, h > made PROVE h # g /\ queue[h] = <<>>
      <4>1. made \in Int /\ g \in Int /\ h \in Int
        OBVIOUS
      <4>2. h # g
        BY ONLY <2>1, <3>2, <4>1
      <4>. QED
        BY <3>2, <4>2
    <3>. QED
      BY ONLY <3>1, <3>2
  <2>3. step = "attach" => queue'[made] = <<>>
    BY <1>2 DEF Put
  <2>4. \A u \in Threads : offered'[u] \subseteq offered[u]
    BY <1>2 DEF Put
  <2>. QED
    BY <1>2, <2>2, <2>3, <2>4 DEF Put, service, caller
<1>3. ASSUME NEW g \in Configs, Listen(g) PROVE ConfigOK'
  <2>1. g = made /\ running' \subseteq running
    BY <1>3 DEF Listen
  <2>2. \A h \in Configs : h > made => queue'[h] = <<>>
    BY <1>3, <2>1 DEF Listen
  <2>. QED
    BY <1>3, <2>1, <2>2 DEF Listen, caller
<1>4. ASSUME NEW again \in BOOLEAN, Stop(again) PROVE ConfigOK'
  BY <1>4 DEF Stop
<1>5. CASE StopNothing \/ ConfigureRefused
  BY <1>5 DEF StopNothing, ConfigureRefused, vars, service, caller
<1>6. CASE Configure
  BY <1>6 DEF Configure, service
<1>7. CASE WriteLine
  BY <1>7 DEF WriteLine, service, caller
<1>8. CASE StopSend
  <2>1. \A h \in Configs : h # target => queue'[h] = queue[h]
    BY <1>8 DEF StopSend
  <2>2. \A h \in Configs : h > made => queue'[h] = <<>>
    BY <1>8, <2>1 DEF StopSend
  <2>3. /\ step = "sentinel" /\ step' = "join"
        /\ UNCHANGED <<handlers, state, made, running, offered, logged, target, force>>
    BY <1>8 DEF StopSend, service
  <2>. QED
    BY <2>2, <2>3
<1>9. CASE StopJoin
  BY <1>9 DEF StopJoin, service
<1>10. CASE StopDetach
  BY <1>10 DEF StopDetach
<1>11. CASE Install
  BY <1>11 DEF Install
<1>12. CASE Attach
  <2>1. /\ step = "attach" /\ step' = "banner" /\ handlers' = {made} /\ made # 0 /\ state = made
        /\ UNCHANGED <<state, made, running, queue, offered, logged, target, force>>
    BY <1>12 DEF Attach
  <2>. QED
    BY <2>1
<1>13. ASSUME NEW given \in BOOLEAN, Banner(given) PROVE ConfigOK'
  BY <1>13 DEF Banner, service
<1>14. CASE UNCHANGED vars
  BY <1>14 DEF vars, service, caller
<1>. QED
  BY <1>0, <1>1, <1>2, <1>3, <1>4, <1>5, <1>6, <1>7, <1>8, <1>9, <1>10, <1>11, <1>12, <1>13, <1>14 DEF Next, Caller

-----------------------------------------------------------------------------
(* The order of records *)

\* A raw line or a sentinel disturbs no order.
LEMMA MarkBefore ==
  ASSUME NEW r PROVE /\ Before(r, RawLine) /\ Before(RawLine, r) /\ Before(r, Sentinel) /\ HandedOver(RawLine, logged, offered)
                     /\ HandedOver(Sentinel, logged, offered) /\ HandedOver(Sentinel, logged', offered') /\ HandedOver(RawLine, logged', offered')
  BY MarksAssumption DEF Before, HandedOver

LEMMA RawLineOrder ==
  ASSUME TypeOK, OrderOK, sink' = Append(sink, RawLine), UNCHANGED <<queue, running, logged, offered>>
  PROVE  OrderOK'
<1>. DEFINE S == Records \cup {RawLine}
<1>1. sink \in Seq(S) /\ RawLine \in S
  BY DEF TypeOK
<1>2. Ordered(sink')
  BY <1>1, MarkBefore, OrderedAppend DEF OrderOK
<1>3. \A i \in DOMAIN sink' : sink'[i] = RawLine \/ (i \in DOMAIN sink /\ sink'[i] = sink[i])
  BY <1>1
<1>4. \A g \in running : \A i \in DOMAIN sink', j \in DOMAIN queue[g] : Before(sink'[i], queue[g][j])
  BY <1>3, MarkBefore DEF OrderOK
<1>5. \A i \in DOMAIN sink' : HandedOver(sink'[i], logged, offered)
  BY <1>3, MarkBefore DEF OrderOK
<1>. QED
  BY <1>2, <1>4, <1>5 DEF OrderOK, HandedOver

LEMMA OrderStep == TypeOK /\ ConfigOK /\ OrderOK /\ HomelessOK /\ [Next]_vars => OrderOK'
<1> SUFFICES ASSUME TypeOK, ConfigOK, OrderOK, HomelessOK, [Next]_vars PROVE OrderOK'
  OBVIOUS
<1>a. ASSUME UNCHANGED <<sink, queue, logged, offered>>, running' \subseteq running PROVE OrderOK'
  BY <1>a DEF OrderOK, HandedOver
<1>1. ASSUME NEW t \in Threads, Log(t) PROVE OrderOK'
  <2>1. /\ UNCHANGED <<sink, queue, running>>
        /\ offered[t] = {} /\ logged' = [logged EXCEPT ![t] = @ + 1]
        /\ \E found : offered' = [offered EXCEPT ![t] = found]
    BY <1>1 DEF Log, service
  <2>2. ASSUME NEW r, HandedOver(r, logged, offered) PROVE HandedOver(r, logged', offered')
    <3> SUFFICES ASSUME r \in Records
                 PROVE  r[2] <= logged'[r[1]] /\ (offered'[r[1]] # {} => r[2] < logged'[r[1]])
      BY DEF HandedOver
    <3>1. r[1] \in Threads /\ r[2] \in Nat /\ logged[r[1]] \in Nat
      BY DEF Records, TypeOK
    <3>2. CASE r[1] = t
      BY <2>1, <2>2, <3>1, <3>2 DEF HandedOver, TypeOK
    <3>3. CASE r[1] # t
      BY <2>1, <2>2, <3>1, <3>3 DEF HandedOver, TypeOK
    <3>. QED
      BY <3>2, <3>3
  <2>. QED
    BY <2>1, <2>2 DEF OrderOK
<1>0. ASSUME NEW t \in Threads, WriteLastResort(t) PROVE OrderOK'
  <2>. DEFINE x == <<t, logged[t]>>
              S == Records \cup {RawLine}
  <2>1. /\ LastResort \in offered[t] /\ sink' = Append(sink, x)
        /\ offered' = [offered EXCEPT ![t] = {}]
        /\ UNCHANGED <<queue, running, logged>>
    BY <1>0 DEF WriteLastResort, service
  <2>2. offered'[t] = {} /\ \A u \in Threads : u # t => offered'[u] = offered[u]
    BY <2>1 DEF TypeOK
  <2>3. logged[t] \in Nat /\ x \in Records /\ sink \in Seq(S)
    BY <2>1, KitLoggingAssumption DEF TypeOK, ConfigOK, Records
  <2>4. ASSUME NEW r, HandedOver(r, logged, offered) PROVE Before(r, x) /\ HandedOver(r, logged', offered')
    <3>1. Before(r, x)
      BY <2>1, <2>4 DEF Before, HandedOver
    <3>2. HandedOver(r, logged', offered')
      BY <2>1, <2>2, <2>4 DEF HandedOver, Records
    <3>. QED
      BY <3>1, <3>2
  <2>5. HandedOver(x, logged', offered')
    BY <2>1, <2>2, <2>3 DEF HandedOver
  <2>6. Ordered(sink')
    BY <2>1, <2>3, <2>4, OrderedAppend DEF OrderOK
  <2>7. \A i \in DOMAIN sink' : sink'[i] = x \/ (i \in DOMAIN sink /\ sink'[i] = sink[i])
    BY <2>1, <2>3
  <2>8. \A g \in running : \A j \in DOMAIN queue[g] : Before(x, queue[g][j])
    BY <2>1 DEF HomelessOK, Before
  <2>. HIDE DEF x, S
  <2>9. \A g \in running' : \A i \in DOMAIN sink', j \in DOMAIN queue'[g] : Before(sink'[i], queue'[g][j])
    BY <2>1, <2>7, <2>8 DEF OrderOK
  <2>10. \A i \in DOMAIN sink' : HandedOver(sink'[i], logged', offered')
    BY <2>4, <2>5, <2>7 DEF OrderOK
  <2>11. \A g \in Configs : Ordered(queue'[g]) /\ \A j \in DOMAIN queue'[g] : HandedOver(queue'[g][j], logged', offered')
    BY <2>1, <2>4 DEF OrderOK
  <2>. QED
    BY <2>6, <2>9, <2>10, <2>11 DEF OrderOK
<1>2. ASSUME NEW t \in Threads, NEW g \in Configs, Put(t, g) PROVE OrderOK'
  <2>. DEFINE x == <<t, logged[t]>>
              S == Records \cup {Sentinel}
  <2>1. /\ g \in offered[t] /\ queue' = [queue EXCEPT ![g] = Append(@, x)]
        /\ offered' = [offered EXCEPT ![t] = @ \ {g}]
        /\ UNCHANGED <<sink, running, logged>>
    BY <1>2 DEF Put, service
  <2>2. offered'[t] = {} /\ \A u \in Threads : u # t => offered'[u] = offered[u]
    BY <2>1 DEF TypeOK, ConfigOK
  <2>3. queue[g] \in Seq(S) /\ logged[t] \in Nat
    BY DEF TypeOK
  <2>4. logged[t] >= 1 /\ x \in Records
    BY <2>1, KitLoggingAssumption DEF TypeOK, ConfigOK, Records, Configs, NoConfig
  <2>5. ASSUME NEW r, HandedOver(r, logged, offered) PROVE Before(r, x) /\ HandedOver(r, logged', offered')
    <3>1. Before(r, x)
      BY <2>1, <2>5 DEF Before, HandedOver
    <3>2. HandedOver(r, logged', offered')
      BY <2>1, <2>2, <2>5 DEF HandedOver, Records
    <3>. QED
      BY <3>1, <3>2
  <2>6. HandedOver(x, logged', offered')
    BY <2>1, <2>2, <2>3 DEF HandedOver
  <2>7. \A h \in Configs : h # g => queue'[h] = queue[h]
    BY <2>1 DEF TypeOK
  <2>8. queue'[g] = Append(queue[g], x)
    BY <2>1 DEF TypeOK
  <2>9. Ordered(queue'[g])
    BY <2>3, <2>4, <2>5, <2>8, OrderedAppend DEF OrderOK
  <2>10. \A j \in DOMAIN queue'[g] : queue'[g][j] = x \/ (j \in DOMAIN queue[g] /\ queue'[g][j] = queue[g][j])
    BY <2>3, <2>8
  <2>. HIDE DEF x, S
  <2>11. \A h \in Configs : Ordered(queue'[h])
    BY <2>7, <2>9 DEF OrderOK
  <2>12. ASSUME NEW h \in running', NEW i \in DOMAIN sink', NEW j \in DOMAIN queue'[h]
         PROVE  Before(sink'[i], queue'[h][j])
    <3>1. h \in Configs
      BY <2>1 DEF TypeOK
    <3>. QED
      BY <2>1, <2>5, <2>7, <2>10, <3>1 DEF OrderOK
  <2>13. \A h \in Configs : \A j \in DOMAIN queue'[h] : HandedOver(queue'[h][j], logged', offered')
    BY <2>5, <2>6, <2>7, <2>10 DEF OrderOK
  <2>14. \A i \in DOMAIN sink' : HandedOver(sink'[i], logged', offered')
    BY <2>1, <2>5 DEF OrderOK
  <2>. QED
    BY <2>1, <2>11, <2>12, <2>13, <2>14 DEF OrderOK
<1>3. ASSUME NEW g \in Configs, Listen(g) PROVE OrderOK'
  <2>. DEFINE S == Records \cup {Sentinel}
              q == queue[g]
  <2>1. /\ g \in running /\ q # <<>> /\ queue' = [queue EXCEPT ![g] = Tail(q)]
        /\ running' \subseteq running /\ UNCHANGED <<logged, offered>>
    BY <1>3 DEF Listen
  <2>2. q \in Seq(S) /\ Ordered(q)
    BY DEF TypeOK, OrderOK
  <2>3. /\ Ordered(Tail(q))
        /\ \A i \in DOMAIN Tail(q) : i + 1 \in DOMAIN q /\ Tail(q)[i] = q[i + 1]
        /\ \A i \in DOMAIN Tail(q) : Before(Head(q), Tail(q)[i])
    BY <2>1, <2>2, OrderedTail
  <2>4. queue'[g] = Tail(q) /\ \A h \in Configs : h # g => queue'[h] = queue[h]
    BY <2>1 DEF TypeOK
  <2>5. running' \subseteq {g}
    BY <2>1 DEF ConfigOK
  <2>6. Head(q) = q[1] /\ 1 \in DOMAIN q /\ Head(q) \in S
    BY <2>1, <2>2
  <2>7. \A i \in DOMAIN sink : Before(sink[i], Head(q)) /\ \A j \in DOMAIN Tail(q) : Before(sink[i], Tail(q)[j])
    BY <2>1, <2>3, <2>6 DEF OrderOK
  <2>8. \A r : HandedOver(r, logged, offered) => HandedOver(r, logged', offered')
    BY <2>1 DEF HandedOver
  <2>9. HandedOver(Head(q), logged, offered) /\ \A j \in DOMAIN Tail(q) : HandedOver(Tail(q)[j], logged, offered)
    BY <2>3, <2>6 DEF OrderOK
  <2>10. (\A h \in Configs : Ordered(queue'[h])) /\ \A h \in Configs : \A j \in DOMAIN queue'[h] : HandedOver(queue'[h][j], logged', offered')
    BY <2>3, <2>4, <2>8, <2>9 DEF OrderOK
  <2>11. CASE sink' = sink
    BY <2>4, <2>5, <2>7, <2>8, <2>10, <2>11 DEF OrderOK
  <2>12. CASE sink' = Append(sink, Head(q)) /\ Head(q) # Sentinel
    <3>1. sink \in Seq(Records \cup {RawLine}) /\ Head(q) \in Records \cup {RawLine}
      BY <2>6, <2>12 DEF TypeOK
    <3>2. Ordered(sink')
      BY <2>7, <2>12, <3>1, OrderedAppend DEF OrderOK
    <3>3. \A i \in DOMAIN sink' : sink'[i] = Head(q) \/ (i \in DOMAIN sink /\ sink'[i] = sink[i])
      BY <2>12, <3>1
    <3>. HIDE DEF q
    <3>4. \A i \in DOMAIN sink' : HandedOver(sink'[i], logged', offered')
      BY <2>8, <2>9, <3>3 DEF OrderOK
    <3>5. \A h \in running' : \A i \in DOMAIN sink', j \in DOMAIN queue'[h] : Before(sink'[i], queue'[h][j])
      BY <2>3, <2>4, <2>5, <2>7, <3>3
    <3>. QED
      BY <2>10, <3>2, <3>4, <3>5 DEF OrderOK
  <2>. QED
    BY <1>3, <2>11, <2>12 DEF Listen
<1>4. ASSUME NEW again \in BOOLEAN, Stop(again) PROVE OrderOK'
  BY <1>4, <1>a DEF Stop
<1>5. CASE StopNothing \/ ConfigureRefused
  BY <1>5, <1>a DEF StopNothing, ConfigureRefused, vars, service
<1>6. CASE Configure
  BY <1>6, <1>a DEF Configure, service
<1>7. CASE WriteLine
  BY <1>7, RawLineOrder DEF WriteLine, service
<1>8. CASE StopSend
  <2>. DEFINE S == Records \cup {Sentinel}
  <2>1. /\ target \in Configs /\ queue' = [queue EXCEPT ![target] = Append(@, Sentinel)]
        /\ UNCHANGED <<sink, running, logged, offered>>
    BY <1>8, KitLoggingAssumption DEF StopSend, service, ConfigOK, TypeOK, Configs, NoConfig
  <2>2. queue[target] \in Seq(S) /\ Sentinel \in S
    BY <2>1 DEF TypeOK
  <2>3. queue'[target] = Append(queue[target], Sentinel) /\ \A h \in Configs : h # target => queue'[h] = queue[h]
    BY <2>1 DEF TypeOK
  <2>4. Ordered(queue'[target])
    BY <2>1, <2>2, <2>3, MarkBefore, OrderedAppend DEF OrderOK
  <2>5. \A j \in DOMAIN queue'[target] :
           queue'[target][j] = Sentinel \/ (j \in DOMAIN queue[target] /\ queue'[target][j] = queue[target][j])
    BY <2>2, <2>3
  <2>. HIDE DEF S
  <2>6. \A h \in Configs : Ordered(queue'[h])
    BY <2>3, <2>4 DEF OrderOK
  <2>7. ASSUME NEW h \in running', NEW i \in DOMAIN sink', NEW j \in DOMAIN queue'[h]
        PROVE  Before(sink'[i], queue'[h][j])
    <3>1. h \in Configs
      BY <2>1 DEF TypeOK
    <3>. QED
      BY <2>1, <2>3, <2>5, <3>1, MarkBefore DEF OrderOK
  <2>8. \A r : HandedOver(r, logged, offered) => HandedOver(r, logged', offered')
    BY <2>1 DEF HandedOver
  <2>9. \A h \in Configs : \A j \in DOMAIN queue'[h] : HandedOver(queue'[h][j], logged', offered')
    BY <2>1, <2>3, <2>5, <2>8, MarkBefore DEF OrderOK
  <2>. QED
    BY <2>1, <2>6, <2>7, <2>8, <2>9 DEF OrderOK
<1>9. CASE StopJoin \/ StopDetach
  BY <1>9, <1>a DEF StopJoin, StopDetach, service
<1>10. CASE Install
  <2>1. /\ UNCHANGED <<sink, queue, logged, offered>> /\ running' \subseteq {made + 1}
        /\ made + 1 \in Configs /\ queue[made + 1] = <<>>
    BY <1>10, KitLoggingAssumption DEF Install, ConfigOK, TypeOK, Configs
  <2>2. \A g \in running' : DOMAIN queue'[g] = {}
    BY <2>1
  <2>. QED
    BY <2>1, <2>2 DEF OrderOK, HandedOver
<1>11. CASE Attach
  BY <1>11, <1>a DEF Attach
<1>12. ASSUME NEW given \in BOOLEAN, Banner(given) PROVE OrderOK'
  BY <1>12, <1>a, RawLineOrder DEF Banner, service
<1>13. CASE UNCHANGED vars
  BY <1>13, <1>a DEF vars, service
<1>. QED
  BY <1>0, <1>1, <1>2, <1>3, <1>4, <1>5, <1>6, <1>7, <1>8, <1>9, <1>10, <1>11, <1>12, <1>13 DEF Next, Caller

LEMMA HomelessStep == TypeOK /\ ConfigOK /\ HomelessOK /\ [Next]_vars => HomelessOK'
<1> SUFFICES ASSUME TypeOK, ConfigOK, HomelessOK, [Next]_vars PROVE HomelessOK'
  OBVIOUS
\* What leaves the queues alone, or adds no record to them, and finds no thread without a handler.
<1>a. ASSUME running' \subseteq running, \A t \in Threads : offered'[t] \subseteq offered[t],
             \A g \in running' : \A j \in DOMAIN queue'[g] :
                queue'[g][j] \in Records => \E k \in DOMAIN queue[g] : queue[g][k] = queue'[g][j]
      PROVE  HomelessOK'
  BY <1>a DEF HomelessOK
<1>b. running \subseteq Configs /\ \A g \in Configs : queue[g] \in Seq(Records \cup {Sentinel})
  BY DEF TypeOK
<1>1. ASSUME NEW t \in Threads, Log(t) PROVE HomelessOK'
  <2>1. /\ UNCHANGED <<queue, running>> /\ \A u \in Threads : u # t => offered'[u] = offered[u]
        /\ LastResort \in offered'[t] => handlers = {}
    BY <1>1 DEF Log, service, TypeOK, Configs, LastResort
  <2>2. handlers = {} => \A g \in running : queue[g] = <<>>
    BY DEF ConfigOK
  <2>. QED
    BY <2>1, <2>2 DEF HomelessOK
<1>0. ASSUME NEW t \in Threads, WriteLastResort(t) PROVE HomelessOK'
  BY <1>0, <1>a DEF WriteLastResort, service, TypeOK
<1>2. ASSUME NEW t \in Threads, NEW g \in Configs, Put(t, g) PROVE HomelessOK'
  <2>. DEFINE x == <<t, logged[t]>>
  <2>1. /\ g \in offered[t] /\ queue' = [queue EXCEPT ![g] = Append(@, x)] /\ UNCHANGED running
        /\ \A u \in Threads : offered'[u] \subseteq offered[u]
    BY <1>2 DEF Put, service, TypeOK
  <2>2. LastResort \notin offered[t]
    BY <2>1 DEF ConfigOK, Configs, LastResort
  <2>3. \A h \in Configs : \A j \in DOMAIN queue'[h] : \/ queue'[h][j] = x
                                                       \/ j \in DOMAIN queue[h] /\ queue'[h][j] = queue[h][j]
    BY <2>1, <1>b DEF TypeOK
  <2>4. x[1] = t
    OBVIOUS
  <2>. HIDE DEF x
  <2>. QED
    BY <2>1, <2>2, <2>3, <2>4, <1>b DEF HomelessOK
<1>3. ASSUME NEW g \in Configs, Listen(g) PROVE HomelessOK'
  <2>1. /\ queue' = [queue EXCEPT ![g] = Tail(@)] /\ queue[g] # <<>> /\ running' \subseteq running /\ offered' = offered
    BY <1>3 DEF Listen
  <2>2. \A j \in DOMAIN Tail(queue[g]) : j + 1 \in DOMAIN queue[g] /\ Tail(queue[g])[j] = queue[g][j + 1]
    BY <2>1, <1>b
  <2>3. \A h \in Configs : queue'[h] = IF h = g THEN Tail(queue[g]) ELSE queue[h]
    BY <2>1 DEF TypeOK
  <2>. QED
    BY <2>1, <2>2, <2>3, <1>a, <1>b
<1>4. ASSUME NEW again \in BOOLEAN, Stop(again) PROVE HomelessOK'
  BY <1>4, <1>a DEF Stop
<1>5. CASE StopNothing \/ ConfigureRefused \/ UNCHANGED vars
  BY <1>5, <1>a DEF StopNothing, ConfigureRefused, vars, service
<1>6. CASE Configure \/ WriteLine
  BY <1>6, <1>a DEF Configure, WriteLine, service
<1>8. CASE StopSend
  <2>1. /\ queue' = [queue EXCEPT ![target] = Append(@, Sentinel)] /\ UNCHANGED <<running, offered>>
    BY <1>8 DEF StopSend, service
  <2>2. \A h \in Configs : \A j \in DOMAIN queue'[h] : \/ queue'[h][j] = Sentinel
                                                       \/ j \in DOMAIN queue[h] /\ queue'[h][j] = queue[h][j]
    BY <2>1, <1>b DEF TypeOK
  <2>. QED
    BY <2>1, <2>2, <1>a, <1>b, MarksAssumption
<1>9. CASE StopJoin \/ StopDetach \/ Attach
  BY <1>9, <1>a DEF StopJoin, StopDetach, Attach, service
<1>10. CASE Install
  <2>1. /\ UNCHANGED <<queue, offered>> /\ running' \subseteq {made + 1} /\ queue[made + 1] = <<>>
    BY <1>10, KitLoggingAssumption DEF Install, ConfigOK, TypeOK, Configs
  <2>. QED
    BY <2>1 DEF HomelessOK
<1>12. ASSUME NEW given \in BOOLEAN, Banner(given) PROVE HomelessOK'
  BY <1>12, <1>a DEF Banner, service
<1>. QED
  BY <1>0, <1>1, <1>2, <1>3, <1>4, <1>5, <1>6, <1>8, <1>9, <1>10, <1>12 DEF Next, Caller

-----------------------------------------------------------------------------
(* What is due when a stop begins *)

LEMMA WrittenAppend ==
  ASSUME NEW S, sink \in Seq(S), NEW x \in S, sink' = Append(sink, x)
  PROVE  Written' = Written \cup {x}
<1>1. \A i \in DOMAIN sink : i \in DOMAIN sink' /\ sink'[i] = sink[i]
  OBVIOUS
<1>2. Len(sink) + 1 \in DOMAIN sink' /\ sink'[Len(sink) + 1] = x
  OBVIOUS
<1>3. \A i \in DOMAIN sink' : sink'[i] = x \/ (i \in DOMAIN sink /\ sink'[i] = sink[i])
  OBVIOUS
<1>. QED
  BY <1>1, <1>2, <1>3 DEF Written, ToSet

LEMMA LastResortWrites ==
  ASSUME TypeOK, ConfigOK, NEW t \in Threads, WriteLastResort(t)
  PROVE  Written' = Written \cup {<<t, logged[t]>>}
<1>. DEFINE x == <<t, logged[t]>>
<1>1. x \in Records \cup {RawLine} /\ sink' = Append(sink, x)
  BY KitLoggingAssumption DEF WriteLastResort, TypeOK, ConfigOK, Records
<1>2. sink \in Seq(Records \cup {RawLine})
  BY DEF TypeOK
<1>. HIDE DEF x
<1>3. Written' = Written \cup {x}
  BY ONLY <1>1, <1>2, WrittenAppend
<1>. QED
  BY <1>3 DEF x

LEMMA DrainStep == TypeOK /\ ConfigOK /\ DrainOK /\ [Next]_vars => DrainOK'
<1> SUFFICES ASSUME TypeOK, ConfigOK, DrainOK, [Next]_vars PROVE DrainOK'
  OBVIOUS
\* Nothing but the stream grows.
<1>a. ASSUME UNCHANGED <<service, queue, step, target, due>>, Written \subseteq Written' PROVE DrainOK'
  BY <1>a DEF DrainOK, service
<1>b. sink' = sink => Written' = Written
  BY DEF Written
<1>1. ASSUME NEW t \in Threads, Log(t) PROVE DrainOK'
  BY <1>1, <1>a, <1>b DEF Log, caller
<1>0. ASSUME NEW t \in Threads, WriteLastResort(t) PROVE DrainOK'
  BY <1>0, <1>a, LastResortWrites DEF WriteLastResort, caller
<1>2. ASSUME NEW t \in Threads, NEW g \in Configs, Put(t, g) PROVE DrainOK'
  <2>. DEFINE x == <<t, logged[t]>>
              S == Records \cup {Sentinel}
  <2>1. queue' = [queue EXCEPT ![g] = Append(@, x)] /\ UNCHANGED <<sink, service, caller>>
    BY <1>2 DEF Put
  <2>2. logged[t] >= 1 /\ x \in Records
    BY <1>2, KitLoggingAssumption DEF Put, TypeOK, ConfigOK, Records, Configs, NoConfig
  <2>3. queue[g] \in Seq(S) /\ x # Sentinel
    BY <2>2, MarksAssumption DEF TypeOK
  <2>4. queue'[g] = Append(queue[g], x) /\ \A h \in Configs : h # g => queue'[h] = queue[h]
    BY <2>1 DEF TypeOK
  <2>5. \A h \in Configs : \A j \in DOMAIN queue[h] : j \in DOMAIN queue'[h] /\ queue'[h][j] = queue[h][j]
    BY <2>3, <2>4
  <2>6. \A h \in Configs : \A j \in DOMAIN queue'[h] : queue'[h][j] = x \/ (j \in DOMAIN queue[h] /\ queue'[h][j] = queue[h][j])
    BY <2>3, <2>4
  <2>7. \A h \in Configs : \A j \in DOMAIN queue[h] : j \in Nat /\ \A k \in 1..j : k \in DOMAIN queue[h]
    BY DEF TypeOK
  <2>. HIDE DEF x, S
  <2>8. running \subseteq Configs /\ (step \in {"sentinel", "join"} => target \in Configs)
    BY KitLoggingAssumption DEF TypeOK, ConfigOK, Configs, NoConfig
  <2>9. state' # NoConfig \/ step' = "sentinel" =>
          made' \in running' /\ \A j \in DOMAIN queue'[made'] : queue'[made'][j] # Sentinel
    BY <2>1, <2>3, <2>6, <2>8 DEF DrainOK, service, caller
  <2>10. step' = "sentinel" => \A r \in due' : r \in Written' \/ \E j \in DOMAIN queue'[target'] : queue'[target'][j] = r
    BY <2>1, <2>5, <2>8, <1>b DEF DrainOK, caller
  <2>11. ASSUME step' = "join", NEW r \in due', r \notin Written'
         PROVE  /\ target' \in running'
                /\ \E j \in DOMAIN queue'[target'] :
                      queue'[target'][j] = r /\ \A k \in 1..j : queue'[target'][k] # Sentinel
    <3>1. /\ step = "join" /\ r \in due /\ r \notin Written /\ target' = target /\ running' = running
      BY <2>1, <2>11, <1>b DEF service, caller
    <3>2. target \in running
      BY <3>1 DEF DrainOK
    <3>3. PICK j \in DOMAIN queue[target] : queue[target][j] = r /\ \A k \in 1..j : queue[target][k] # Sentinel
      BY <3>1 DEF DrainOK
    <3>. QED
      BY <2>5, <2>7, <2>8, <3>1, <3>2, <3>3
  <2>12. step' = "detach" => due' \subseteq Written'
    BY <2>1, <1>b DEF DrainOK, caller
  <2>. QED
    BY <2>9, <2>10, <2>11, <2>12 DEF DrainOK
<1>3. ASSUME NEW g \in Configs, Listen(g) PROVE DrainOK'
  <2>. DEFINE S == Records \cup {Sentinel}
              q == queue[g]
  <2>1. /\ g \in running /\ q # <<>> /\ queue' = [queue EXCEPT ![g] = Tail(q)]
        /\ UNCHANGED <<handlers, state, made, caller>>
    BY <1>3 DEF Listen
  <2>2. q \in Seq(S) /\ g = made
    BY <2>1 DEF TypeOK, ConfigOK
  <2>3. queue'[g] = Tail(q) /\ Head(q) = q[1] /\ 1 \in DOMAIN q
    BY <2>1, <2>2 DEF TypeOK
  <2>4. /\ \A j \in DOMAIN Tail(q) : j \in Nat /\ j + 1 \in DOMAIN q /\ Tail(q)[j] = q[j + 1]
        /\ \A j \in DOMAIN q : j = 1 \/ (j - 1 \in DOMAIN Tail(q) /\ Tail(q)[j - 1] = q[j])
        /\ \A j \in DOMAIN q : j \in Nat /\ 1 <= j
    BY <2>1, <2>2
  <2>5. CASE Head(q) = Sentinel
    <3>1. sink' = sink /\ state = NoConfig /\ step # "sentinel"
      BY <1>3, <2>1, <2>2, <2>3, <2>5 DEF Listen, DrainOK
    <3>2. ASSUME step = "join", NEW r \in due PROVE r \in Written
      BY <2>2, <2>3, <2>4, <2>5, <3>2 DEF DrainOK, ConfigOK
    <3>. QED
      BY <2>1, <3>1, <3>2, <1>b DEF DrainOK, caller
  <2>6. CASE Head(q) # Sentinel
    <3>1. sink' = Append(sink, Head(q)) /\ running' = running
      BY <1>3, <2>6 DEF Listen
    <3>2. sink \in Seq(Records \cup {RawLine}) /\ Head(q) \in Records \cup {RawLine}
      BY <2>2, <2>3, <2>6 DEF TypeOK
    <3>3. Written' = Written \cup {Head(q)}
      BY <3>1, <3>2, WrittenAppend
    <3>. HIDE DEF q, S
    <3>4. state' # NoConfig \/ step' = "sentinel" =>
            made' \in running' /\ \A j \in DOMAIN queue'[made'] : queue'[made'][j] # Sentinel
      BY <2>1, <2>2, <2>3, <2>4, <3>1 DEF DrainOK, caller, q
    <3>5. ASSUME step' = "sentinel", NEW r \in due'
          PROVE  r \in Written' \/ \E j \in DOMAIN queue'[target'] : queue'[target'][j] = r
      <4>1. step = "sentinel" /\ r \in due /\ target' = target /\ target = g
        BY <2>1, <2>2, <3>5 DEF caller, ConfigOK
      <4>2. r \in Written \/ \E j \in DOMAIN q : q[j] = r
        BY <4>1 DEF DrainOK, q
      <4>. QED
        BY <2>3, <2>4, <3>3, <4>1, <4>2
    <3>6. ASSUME step' = "join", NEW r \in due', r \notin Written'
          PROVE  /\ target' \in running'
                 /\ \E j \in DOMAIN queue'[target'] :
                       queue'[target'][j] = r /\ \A k \in 1..j : queue'[target'][k] # Sentinel
      <4>1. step = "join" /\ r \in due /\ r \notin Written /\ target' = target /\ target = g
        BY <2>1, <2>2, <3>3, <3>6 DEF caller, ConfigOK
      <4>2. PICK j \in DOMAIN q : q[j] = r /\ \A k \in 1..j : q[k] # Sentinel
        BY <4>1 DEF DrainOK, q
      <4>3. j # 1
        BY <2>3, <3>3, <3>6, <4>2
      <4>4. j - 1 \in DOMAIN Tail(q) /\ Tail(q)[j - 1] = r /\ j \in Nat /\ j - 1 \in Nat
        BY <2>4, <4>2, <4>3
      <4>5. \A k \in 1..(j - 1) : Tail(q)[k] # Sentinel
        <5>1. \A k \in 1..(j - 1) : k \in DOMAIN Tail(q) /\ k + 1 \in 1..j
          BY <2>1, <2>2, <4>4 DEF q
        <5>. QED
          BY <2>4, <4>2, <5>1
      <4>. QED
        BY <2>1, <2>3, <3>1, <4>1, <4>4, <4>5
    <3>7. step' = "detach" => due' \subseteq Written'
      BY <2>1, <3>3 DEF DrainOK, caller
    <3>. QED
      BY <3>4, <3>5, <3>6, <3>7 DEF DrainOK
  <2>. QED
    BY <2>5, <2>6
<1>4. ASSUME NEW again \in BOOLEAN, Stop(again) PROVE DrainOK'
  <2>1. /\ state = made /\ target' = made /\ made' = made /\ running' = running /\ step' = "sentinel"
        /\ state' = NoConfig /\ queue' = queue /\ due' = ToSet(queue[made]) \ {Sentinel} /\ state # NoConfig
    BY <1>4 DEF Stop, ConfigOK
  <2>2. \A r \in due' : \E j \in DOMAIN queue[made] : queue[made][j] = r
    BY <2>1 DEF ToSet
  <2>. QED
    BY <2>1, <2>2 DEF DrainOK
<1>5. CASE StopNothing \/ ConfigureRefused \/ UNCHANGED vars
  BY <1>5, <1>a, <1>b DEF StopNothing, ConfigureRefused, vars, service, caller
<1>6. CASE Configure
  BY <1>6 DEF Configure, service, DrainOK
<1>7. CASE WriteLine
  <2>1. Written' = Written \cup {RawLine}
    BY <1>7, WrittenAppend DEF WriteLine, TypeOK
  <2>. QED
    BY <1>7, <1>a, <2>1 DEF WriteLine, caller
<1>8. CASE StopSend
  <2>. DEFINE S == Records \cup {Sentinel}
              q == queue[target]
  <2>1. /\ step = "sentinel" /\ step' = "join" /\ queue' = [queue EXCEPT ![target] = Append(q, Sentinel)]
        /\ UNCHANGED <<service, sink, target, due>> /\ target = made /\ state = NoConfig
    BY <1>8 DEF StopSend, ConfigOK
  <2>2. target \in Configs /\ target \in running /\ \A j \in DOMAIN q : q[j] # Sentinel
    BY <2>1, KitLoggingAssumption DEF DrainOK, TypeOK
  <2>3. q \in Seq(S) /\ queue'[target] = Append(q, Sentinel)
    BY <2>1, <2>2 DEF TypeOK
  <2>4. \A j \in DOMAIN q : j \in DOMAIN queue'[target] /\ queue'[target][j] = q[j] /\ \A k \in 1..j : k \in DOMAIN q
    BY <2>3
  <2>5. ASSUME NEW j \in DOMAIN q, NEW k \in 1..j PROVE queue'[target][k] # Sentinel
    BY <2>2, <2>4
  <2>6. \A r \in due : r \in Written \/ \E j \in DOMAIN q : q[j] = r
    BY <2>1 DEF DrainOK
  <2>. HIDE DEF q, S
  <2>. QED
    BY <2>1, <2>2, <2>4, <2>5, <2>6, <1>b DEF DrainOK, service
<1>9. CASE StopJoin
  BY <1>9, <1>b DEF StopJoin, service, DrainOK
<1>10. CASE StopDetach
  BY <1>10 DEF StopDetach, DrainOK, ConfigOK
<1>11. CASE Install
  <2>1. /\ step' = "attach" /\ state' = made + 1 /\ made' = made + 1 /\ running' = running \cup {made + 1}
        /\ queue' = queue /\ queue[made + 1] = <<>>
    BY <1>11, KitLoggingAssumption DEF Install, ConfigOK, TypeOK, Configs
  <2>. QED
    BY <2>1 DEF DrainOK
<1>12. CASE Attach
  BY <1>12 DEF Attach, DrainOK
<1>13. ASSUME NEW given \in BOOLEAN, Banner(given) PROVE DrainOK'
  BY <1>13 DEF Banner, service, DrainOK
<1>. QED
  BY <1>0, <1>1, <1>2, <1>3, <1>4, <1>5, <1>6, <1>7, <1>8, <1>9, <1>10, <1>11, <1>12, <1>13 DEF Next, Caller

-----------------------------------------------------------------------------
(* Theorems *)

LEMMA Invariance == Spec => []IInv
<1>1. IInv /\ [Next]_vars => IInv'
  BY TypeStep, ConfigStep, OrderStep, HomelessStep, DrainStep DEF IInv
<1>. QED
  BY InitInv, <1>1, PTL DEF Spec

\* Every variable of ss_kit.logging keeps its type, and every record put into a queue is one
\* that a thread has logged.
THEOREM TypeCorrect == Spec => []TypeOK
<1>1. IInv => TypeOK
  BY DEF IInv
<1>. QED
  BY <1>1, Invariance, PTL

\* logging.py: the stream shows the records of each thread in the order it logged them, and
\* none twice, through any number of configurations, for any threads.
THEOREM OrderKept == Spec => []ThreadOrder
<1>1. IInv => ThreadOrder
  BY OrderIsThreadOrder DEF IInv, OrderOK
<1>. QED
  BY <1>1, Invariance, PTL

\* stop_logging: what was queued when it was called is written when it returns, whatever
\* other threads log meanwhile.
THEOREM StopDrains == Spec => DrainedWhenStopped
<1>1. IInv /\ [Next]_vars => [StopDetach => due \subseteq Written]_vars
  BY DEF IInv, DrainOK, StopDetach
<1>. QED
  BY <1>1, Invariance, PTL DEF Spec, DrainedWhenStopped

\* Between a stop and the next configuration the stream gets raw lines, and warnings of
\* log calls that have found no handler; never what a queue still holds.
THEOREM QuietKept == Spec => QuietAfterStop
<1>1. IInv /\ [Next]_vars =>
        [state = NoConfig /\ step = "idle" => Written' \subseteq Written \cup {RawLine} \cup Homeless]_vars
  <2> SUFFICES ASSUME IInv, Next, state = NoConfig, step = "idle"
               PROVE  Written' \subseteq Written \cup {RawLine} \cup Homeless
    OBVIOUS
  <2>1. running = {}
    BY DEF IInv, ConfigOK
  <2>2. ASSUME sink' = sink PROVE Written' \subseteq Written \cup {RawLine} \cup Homeless
    BY <2>2 DEF Written
  <2>3. CASE WriteLine
    <3>1. sink \in Seq(Records \cup {RawLine}) /\ sink' = Append(sink, RawLine)
      BY <2>3 DEF WriteLine, IInv, TypeOK
    <3>2. Written' = Written \cup {RawLine}
      BY <3>1, WrittenAppend
    <3>. QED
      BY <3>2
  <2>9. ASSUME NEW t \in Threads, WriteLastResort(t)
        PROVE  Written' \subseteq Written \cup {RawLine} \cup Homeless
    <3>1. <<t, logged[t]>> \in Homeless
      BY <2>9 DEF WriteLastResort, Homeless
    <3>. QED
      BY <2>9, <3>1, LastResortWrites DEF IInv
  <2>4. ~Caller
    BY DEF Caller, StopSend, StopJoin, StopDetach, Install, Attach, Banner
  <2>5. ASSUME NEW t \in Threads, Log(t) \/ \E g \in Configs : Put(t, g) PROVE sink' = sink
    BY <2>5 DEF Log, Put
  <2>6. \A g \in Configs : ~Listen(g)
    BY <2>1 DEF Listen
  <2>7. \A again \in BOOLEAN : ~Stop(again)
    BY DEF Stop
  <2>8. StopNothing \/ ConfigureRefused \/ Configure => sink' = sink
    BY DEF StopNothing, ConfigureRefused, Configure, vars
  <2>. QED
    BY <2>2, <2>3, <2>4, <2>5, <2>6, <2>7, <2>8, <2>9 DEF Next
<1>. QED
  BY <1>1, Invariance, PTL DEF Spec, QuietAfterStop

-----------------------------------------------------------------------------
(* The hardware budget *)

Memory == [total : Nat, avail : Nat]

\* What the process has read at each step of the computation.
ReadOK ==
    /\ meminfo \in MemInfos \union {None} /\ cgroup \in Cgroups /\ affinity \in Cores
    /\ pc \in {"meminfo", "group", "limit", "usage", "cpus", "divide", "done"} /\ dir \in Dirs
    /\ pc # "meminfo" => host \in Memory /\ host.avail <= host.total
    /\ pc \in {"usage", "cpus", "divide", "done"} => limit \in Limits
    /\ pc \in {"cpus", "divide", "done"} => memory \in Memory /\ memory.avail <= host.avail /\ memory.avail <= memory.total
    /\ pc \in {"divide", "done"} => cores \in Nat
    /\ pc = "done" => \E m \in MemJobs(memory.total, memory.avail) : jobs = Max2(1, Min2(m, CpuJobs(cores)))

\* What a limit file says is a limit.
LEMMA LimitOfType ==
  ASSUME cgroup \in Cgroups, NEW d \in Dirs PROVE LimitOf(d) \in Limits
  BY DEF LimitOf, Cgroups, Limits, Dirs

\* Capping never raises what is available, nor above the total.
LEMMA CappedType ==
  ASSUME NEW h \in Memory, h.avail <= h.total, NEW lim \in Limits, NEW usage \in Sizes
  PROVE  LET m == Capped(h, lim, usage)
         IN  m \in Memory /\ m.avail <= h.avail /\ m.avail <= m.total
<1>1. usage \in Nat /\ (lim # None => lim \in Nat)
  BY BudgetAssumption DEF Limits
<1>2. CASE lim = None \/ lim >= h.total
  BY <1>2 DEF Capped, Memory
<1>3. CASE lim # None /\ ~(lim >= h.total)
  BY <1>1, <1>3 DEF Capped, Memory, Min2, Max2
<1>. QED
  BY <1>2, <1>3

\* Nothing is read yet.
LEMMA InitReadOK == BudgetInit => ReadOK
  BY DEF BudgetInit, ReadOK, Dirs

\* Each read leaves sizes that fit one another, whatever the machine did meanwhile.
LEMMA NextReadOK == ReadOK /\ [BudgetNext]_budgetVars => ReadOK'
<1>. SUFFICES ASSUME ReadOK, [BudgetNext]_budgetVars PROVE ReadOK'
  OBVIOUS
<1>1. CASE Change
  <2>1. pc # "done" /\ UNCHANGED <<affinity, pc, host, dir, limit, memory, cores, jobs>>
    BY <1>1 DEF Change
  <2>2. meminfo' \in MemInfos \union {None}
    <3>1. ASSUME meminfo # None, NEW a \in Sizes, a <= meminfo.total, meminfo' = [meminfo EXCEPT !.avail = a]
          PROVE  meminfo' \in MemInfos
      <4>1. PICK m \in [total : Totals, avail : Sizes] : m = meminfo
        BY <3>1 DEF ReadOK, MemInfos
      <4>2. meminfo' = [m EXCEPT !.avail = a] /\ a <= m.total
        BY <3>1, <4>1
      <4>. QED
        BY <3>1, <4>2 DEF MemInfos
    <3>. QED
      BY <1>1, <3>1 DEF Change, ReadOK
  <2>3. cgroup' \in Cgroups
    BY <1>1 DEF Change, ReadOK, Cgroups
  <2>. QED
    BY <2>1, <2>2, <2>3 DEF ReadOK
<1>2. CASE ReadMeminfo
  <2>1. host' \in Memory /\ host'.avail <= host'.total
    <3>1. CASE meminfo = None
      BY <1>2, <3>1, BudgetAssumption DEF ReadMeminfo, Memory
    <3>2. CASE meminfo # None
      <4>1. PICK m \in [total : Totals, avail : Sizes] : m = meminfo /\ m.avail <= m.total
        BY <3>2 DEF ReadOK, MemInfos
      <4>2. m.total \in Nat /\ m.avail \in Nat /\ m \in Memory
        BY <4>1, BudgetAssumption DEF Memory
      <4>3. host' = meminfo
        BY <1>2, <3>2 DEF ReadMeminfo
      <4>. QED
        BY <4>1, <4>2, <4>3
    <3>. QED
      BY <3>1, <3>2
  <2>. QED
    BY <1>2, <2>1 DEF ReadMeminfo, ReadOK, machine
<1>3. CASE FindGroup
  BY <1>3 DEF FindGroup, ReadOK, machine, OwnDir, Dirs
<1>4. CASE ReadLimit
  BY <1>4, LimitOfType DEF ReadLimit, ReadOK, machine
<1>5. CASE ReadUsage
  <2>1. cgroup.usage \in Sizes
    BY DEF ReadOK, Cgroups
  <2>2. pc = "usage" /\ host \in Memory /\ host.avail <= host.total /\ limit \in Limits
    BY <1>5 DEF ReadUsage, ReadOK
  <2>. QED
    BY <1>5, <2>1, <2>2, CappedType DEF ReadUsage, ReadOK, machine
<1>6. CASE ReadCpus
  <2>1. cores' \in Nat
    BY <1>6, BudgetAssumption DEF ReadCpus, ReadOK, Cgroups, OwnDir, Dirs, Min2, Max2
  <2>. QED
    BY <1>6, <2>1 DEF ReadCpus, ReadOK, machine
<1>7. CASE Divide
  BY <1>7 DEF Divide, ReadOK, machine
<1>8. CASE UNCHANGED budgetVars
  BY <1>8 DEF budgetVars, ReadOK
<1>. QED
  BY <1>1, <1>2, <1>3, <1>4, <1>5, <1>6, <1>7, <1>8 DEF BudgetNext

\* The reads keep their invariant for any machine.
LEMMA BudgetInvariance == BudgetSpec => []ReadOK
  BY InitReadOK, NextReadOK, PTL DEF BudgetSpec

\* The whole jobs and the remainder make up the memory.
LEMMA Division ==
  ASSUME NEW a \in Nat, NEW b \in Nat \ {0}
  PROVE  /\ a \div b \in Nat /\ (a % b) \in 0..(b - 1)
         /\ a = b * (a \div b) + (a % b)
<1>1. (a % b) \in 0..(b - 1)
  OBVIOUS
<1>2. a = b * (a \div b) + (a % b)
  OBVIOUS
<1>3. a \div b \in Nat
  OBVIOUS
<1>. QED
  BY <1>1, <1>2, <1>3

\* Products keep the order.
LEMMA TimesMonotone ==
  ASSUME NEW a \in Int, NEW b \in Int, a <= b, NEW n \in Nat PROVE a * n <= b * n
  OBVIOUS

\* And give it back.
LEMMA TimesCancel ==
  ASSUME NEW a \in Int, NEW b \in Int, NEW n \in Nat \ {0}, a * n <= b * n PROVE a <= b
<1>1. SUFFICES ASSUME b + 1 <= a PROVE FALSE
  OBVIOUS
<1>2. (b + 1) * n <= a * n
  BY <1>1, TimesMonotone
<1>3. (b + 1) * n = b * n + n
  OBVIOUS
<1>. QED
  BY <1>2, <1>3

\* The jobs that memory carries: all but 0.2 of the last one fits, and no more than 0.8 of another.
LEMMA MemJobsFit ==
  ASSUME NEW total \in Nat, NEW avail \in Nat, NEW m \in MemJobs(total, avail)
  PROVE  LET u == Usable(total, avail)
         IN  /\ u \in Nat /\ m \in Nat /\ Part \in Nat \ {0}
             /\ (5 * m - 1) * Part <= 5 * u
             /\ 5 * u <= (5 * m + 4) * Part
<1> DEFINE u == Usable(total, avail)
           q == u \div Part
           r == u % Part
<1>1. Part \in Nat \ {0}
  BY BudgetAssumption DEF Part
<1>2. u \in Nat
  BY BudgetAssumption DEF Usable, Max2
<1>3. q \in Nat /\ r \in Nat /\ r < Part /\ u = Part * q + r
  <2>. HIDE DEF u
  <2>1. u \div Part \in Nat /\ (u % Part) \in 0..(Part - 1) /\ u = Part * (u \div Part) + (u % Part)
    BY ONLY <1>1, <1>2, Division
  <2>. QED
    BY ONLY <1>1, <2>1
<1>4. \/ m = q /\ 5 * r <= 4 * Part
      \/ m = q + 1 /\ 5 * r >= 4 * Part
  BY DEF MemJobs
<1>. HIDE DEF u, q, r
<1>5. /\ (5 * m - 1) * Part = 5 * (m * Part) - Part
      /\ (5 * m + 4) * Part = 5 * (m * Part) + 4 * Part
  BY <1>1, <1>3, <1>4
<1>6. (m = q /\ m * Part = Part * q) \/ (m = q + 1 /\ m * Part = Part * q + Part)
  BY <1>1, <1>3, <1>4
<1>7. Part * q \in Nat
  BY <1>1, <1>3
<1>8. m \in Nat
  BY <1>3, <1>4
<1>9. (5 * m - 1) * Part <= 5 * u /\ 5 * u <= (5 * m + 4) * Part
  BY <1>1, <1>3, <1>4, <1>5, <1>6, <1>7
<1>. QED
  BY <1>1, <1>2, <1>8, <1>9 DEF u

\* The CPUs that jobs and the two free ones take.
LEMMA CpuJobsFit ==
  ASSUME NEW cpus \in Nat
  PROVE  /\ CpuJobs(cpus) \in Nat /\ CpuJobs(cpus) >= 1
         /\ CpuJobs(cpus) > 1 => 2 * CpuJobs(cpus) + 2 <= cpus
         /\ cpus < 2 * (CpuJobs(cpus) + 1) + 2
  BY DEF CpuJobs, Max2

\* No more than the total is usable.
LEMMA UsableInTotal ==
  ASSUME NEW total \in Nat, NEW avail \in Nat, avail <= total
  PROVE  Usable(total, avail) <= total * ReserveDen
<1>1. avail * ReserveDen <= total * ReserveDen
  BY BudgetAssumption, TimesMonotone
<1>2. total * ReserveNum \in Nat /\ avail * ReserveDen \in Nat /\ total * ReserveDen \in Nat
  BY BudgetAssumption
<1>. QED
  BY <1>1, <1>2 DEF Usable, Max2

\* A finished budget fits, from the reads' invariant.
LEMMA ReadFits == ReadOK => BudgetFits
<1>. SUFFICES ASSUME ReadOK, pc = "done"
              PROVE  /\ jobs >= 1
                     /\ memory.avail <= Min2(host.avail, memory.total)
                     /\ jobs > 1 => /\ (5 * jobs - 1) * Part <= 5 * Usable(memory.total, memory.avail)
                                    /\ (5 * jobs - 1) * RamPerJob <= 5 * memory.total
                                    /\ 2 * jobs + 2 <= cores
  BY DEF BudgetFits
<1> DEFINE total == memory.total
           avail == memory.avail
           c == CpuJobs(cores)
           u == Usable(total, avail)
<1>1. /\ total \in Nat /\ avail \in Nat /\ host.avail \in Nat /\ cores \in Nat
      /\ avail <= host.avail /\ avail <= total
  BY DEF ReadOK, Memory
<1>4. PICK m \in MemJobs(total, avail) : jobs = Max2(1, Min2(m, c))
  BY DEF ReadOK
<1>2. /\ u \in Nat /\ m \in Nat /\ Part \in Nat \ {0} /\ (5 * m - 1) * Part <= 5 * u
      /\ u <= total * ReserveDen
  BY <1>1, MemJobsFit, UsableInTotal
<1>3. c \in Nat /\ c >= 1 /\ (c > 1 => 2 * c + 2 <= cores)
  BY <1>1, CpuJobsFit
<1>5. avail <= Min2(host.avail, total)
  BY <1>1 DEF Min2
<1>. HIDE DEF total, avail, c, u
<1>6. jobs \in Nat /\ jobs >= 1 /\ (jobs > 1 => jobs <= m /\ jobs <= c)
  BY <1>2, <1>3, <1>4 DEF Max2, Min2
<1>7. ASSUME jobs > 1 PROVE (5 * jobs - 1) * Part <= 5 * u
  <2>1. (5 * jobs - 1) * Part <= (5 * m - 1) * Part
    BY <1>2, <1>6, <1>7, TimesMonotone
  <2>2. (5 * jobs - 1) * Part \in Int /\ (5 * m - 1) * Part \in Int
    BY <1>2, <1>6
  <2>. QED
    BY <1>2, <2>1, <2>2
<1>8. ASSUME jobs > 1 PROVE (5 * jobs - 1) * RamPerJob <= 5 * total
  <2>1. RamPerJob \in Nat /\ ReserveDen \in Nat \ {0} /\ Part = RamPerJob * ReserveDen
    BY BudgetAssumption DEF Part
  <2> DEFINE k == 5 * jobs - 1
  <2>2. k \in Int
    BY <1>6
  <2>3. k * Part <= 5 * u
    BY <1>7, <1>8
  <2>. HIDE DEF k
  <2>4. k * Part = (k * RamPerJob) * ReserveDen
    BY <2>1, <2>2
  <2>5. total * ReserveDen \in Nat /\ 5 * (total * ReserveDen) = (5 * total) * ReserveDen
    BY <1>1, <2>1
  <2>6. (k * RamPerJob) * ReserveDen <= (5 * total) * ReserveDen
    BY <1>2, <2>1, <2>2, <2>3, <2>4, <2>5
  <2>7. k * RamPerJob \in Int /\ 5 * total \in Int
    BY <1>1, <2>1, <2>2
  <2>8. k * RamPerJob <= 5 * total
    BY <2>1, <2>6, <2>7, TimesCancel
  <2>. QED
    BY <2>8 DEF k
<1>9. ASSUME jobs > 1 PROVE 2 * jobs + 2 <= cores
  BY <1>1, <1>3, <1>6, <1>9
<1>. QED
  BY <1>5, <1>6, <1>7, <1>8, <1>9 DEF total, avail, u

\* And no larger one would.
LEMMA ReadLargest == ReadOK => BudgetIsLargest
<1>. SUFFICES ASSUME ReadOK, pc = "done"
              PROVE  \/ 5 * Usable(memory.total, memory.avail) <= (5 * jobs + 4) * Part
                     \/ cores < 2 * (jobs + 1) + 2
  BY DEF BudgetIsLargest
<1> DEFINE total == memory.total
           avail == memory.avail
           c == CpuJobs(cores)
           u == Usable(total, avail)
<1>1. total \in Nat /\ avail \in Nat /\ cores \in Nat
  BY DEF ReadOK, Memory
<1>2. PICK m \in MemJobs(total, avail) : jobs = Max2(1, Min2(m, c))
  BY DEF ReadOK
<1>3. u \in Nat /\ m \in Nat /\ Part \in Nat \ {0} /\ 5 * u <= (5 * m + 4) * Part
  BY <1>1, MemJobsFit
<1>4. c \in Nat /\ cores < 2 * (c + 1) + 2
  BY <1>1, CpuJobsFit
<1>. HIDE DEF total, avail, c, u
<1>5. jobs \in Nat /\ (m <= jobs \/ c <= jobs)
  BY <1>2, <1>3, <1>4 DEF Max2, Min2
<1>6. CASE m <= jobs
  <2>1. (5 * m + 4) * Part <= (5 * jobs + 4) * Part
    BY <1>3, <1>5, <1>6, TimesMonotone
  <2>2. (5 * m + 4) * Part \in Int /\ (5 * jobs + 4) * Part \in Int
    BY <1>3, <1>5
  <2>3. 5 * u <= (5 * jobs + 4) * Part
    BY <1>3, <2>1, <2>2
  <2>. QED
    BY <2>3 DEF u, total, avail
<1>7. CASE c <= jobs
  BY <1>1, <1>4, <1>5, <1>7
<1>. QED
  BY <1>5, <1>6, <1>7

\* Whatever changes while the budget is computed, the jobs fit what was read.
THEOREM JobsFit == BudgetSpec => []BudgetFits
  BY BudgetInvariance, ReadFits, PTL

\* And it wastes no more than 0.8 of a job's memory, unless the CPUs carry no more jobs.
THEOREM NoMoreJobsFit == BudgetSpec => []BudgetIsLargest
  BY BudgetInvariance, ReadLargest, PTL

===============================================================================
