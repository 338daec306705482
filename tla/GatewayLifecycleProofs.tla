----------------------- MODULE GatewayLifecycleProofs ------------------------
(***************************************************************************)
(* GatewayLifecycle for every set of processes, ports and requests: the    *)
(* types, the order in which a gateway stops, and which entries of Consul  *)
(* a stop may leave behind.                                                *)
(***************************************************************************)
EXTENDS GatewayLifecycle, TLAPS

\* While a gateway stops nothing is accepted, and once Shutdown has returned what is
\* in flight has outlasted its deadline.
StoppingOK ==
    \A p \in Processes :
        /\ phase[p] \in Stopping => listener[p] # "listening"
        /\ phase[p] \in {"close", "deregister"} /\ inflight[p] # {} => timedOut[p]

\* Whose entry one is: of a running gateway that knows of it or lost the reply, or of
\* one that did not stop in order.
Owns(p, id) ==
    /\ ID(p) = id
    /\ \/ Alive(p) /\ registered[p] # "no"
       \/ phase[p] \in {"died", "left"}

\* The last owner to register has made the entry.
Made(p, id) == Owns(p, id) /\ entries[id].port = advertised[p]
EntriesOwned == \A id \in Second : entries[id] # None => \E p \in Processes : Made(p, id)

\* A process that has started has an ID.
StartedHaveIDs == \A p \in Processes : phase[p] # "off" => started[p] \in Second

Phases == {"off", "wait"} \cup Starting \cup Stopping \cup Ended

-----------------------------------------------------------------------------
(* The end of a process.                                                   *)

\* What is left of a process that has ended, and of the others.
LEMMA EndLeaves ==
    ASSUME LifecycleTypeOK, NEW p \in Processes, NEW how \in Ended, End(p, how)
    PROVE  /\ phase' \in [Processes -> Phases]
           /\ registered' \in [Processes -> {"no", "yes", "lost"}]
           /\ listener' \in [Processes -> {"none", "launched", "listening", "closed"}]
           /\ inflight' \in [Processes -> SUBSET Requests]
           /\ quit' \in [Processes -> BOOLEAN]
           /\ timedOut' \in [Processes -> BOOLEAN]
           /\ phase'[p] = how
           /\ \A q \in Processes \ {p} :
                 /\ phase'[q] = phase[q] /\ registered'[q] = registered[q]
                 /\ listener'[q] = listener[q] /\ inflight'[q] = inflight[q]
                 /\ timedOut'[q] = timedOut[q]
  BY DEF End, Goto, LifecycleTypeOK, Phases, Ended

-----------------------------------------------------------------------------
(* Types *)

\* No process runs at first.
LEMMA LifecycleTypeInit == LifecycleInit => LifecycleTypeOK
  BY LifecycleAssumption DEF LifecycleInit, LifecycleTypeOK, Second

\* Every step keeps the types.
LEMMA LifecycleTypeStep ==
    LifecycleTypeOK /\ StartedHaveIDs /\ [LifecycleNext]_lifecycleVars => LifecycleTypeOK'
<1> SUFFICES ASSUME LifecycleTypeOK, StartedHaveIDs, [LifecycleNext]_lifecycleVars
             PROVE  LifecycleTypeOK'
  OBVIOUS
<1> USE DEF startVars, configVars, serverVars
<1>1. ASSUME NEW p \in Processes, Start(p) PROVE LifecycleTypeOK'
  <2>1. second' \in Second
    BY <1>1, LifecycleAssumption DEF Start, LifecycleTypeOK, Second
  <2> QED BY <1>1, <2>1, LifecycleAssumption
          DEF Start, Goto, LifecycleTypeOK, Starting, Second
<1>2. ASSUME NEW p \in Processes, Register(p) PROVE LifecycleTypeOK'
  <2>1. ID(p) \in Second
    BY <1>2 DEF Register, StartedHaveIDs, ID
  <2>2. Enlisted(p) \in [Second -> Entry \cup {None}]
    BY <2>1, LifecycleAssumption DEF Enlisted, LifecycleTypeOK, Entry
  <2> QED BY <1>2, <2>2 DEF Register, Goto, LifecycleTypeOK, Starting
<1>3. ASSUME NEW p \in Processes,
             Launch(p) \/ Notify(p) \/ BeginShutdown(p) \/ ShutdownDone(p)
               \/ ShutdownTimesOut(p) \/ CloseNats(p)
      PROVE  LifecycleTypeOK'
  BY <1>3 DEF Launch, Notify, BeginShutdown, ShutdownDone, ShutdownTimesOut, CloseNats, Goto,
              LifecycleTypeOK, Starting, Stopping
<1>4. ASSUME NEW p \in Processes, Deregister(p) PROVE LifecycleTypeOK'
  <2>1. Delisted(p) \in [Second -> Entry \cup {None}]
    BY DEF Delisted, LifecycleTypeOK
  <2>2. entries' \in [Second -> Entry \cup {None}] /\ \E how \in Ended : End(p, how)
    BY <1>4, <2>1 DEF Deregister, LifecycleTypeOK, Ended
  <2> QED BY <1>4, <2>2, EndLeaves DEF Deregister, LifecycleTypeOK, Phases
<1>5. ASSUME NEW p \in Processes, Listen(p) \/ ListenerClosed(p) PROVE LifecycleTypeOK'
  BY <1>5 DEF Listen, ListenerClosed, LifecycleTypeOK
<1>6. ASSUME NEW p \in Processes, ListenerFails(p) \/ Crash(p) PROVE LifecycleTypeOK'
  <2>1. End(p, "died") /\ "died" \in Ended
    BY <1>6 DEF ListenerFails, Crash, Ended
  <2> QED BY <1>6, <2>1, EndLeaves DEF ListenerFails, Crash, LifecycleTypeOK, Phases
<1>7. ASSUME NEW p \in Processes, Signal(p) PROVE LifecycleTypeOK'
  <2>1. CASE End(p, "died")
    <3>1. "died" \in Ended
      BY DEF Ended
    <3> QED BY <1>7, <2>1, <3>1, EndLeaves DEF Signal, LifecycleTypeOK, Phases
  <2>2. CASE ~End(p, "died")
    BY <1>7, <2>2 DEF Signal, LifecycleTypeOK
  <2> QED BY <2>1, <2>2
<1>8. ASSUME NEW p \in Processes, NEW r \in Requests, Accept(p, r) \/ Finish(p, r)
      PROVE  LifecycleTypeOK'
  BY <1>8 DEF Accept, Finish, LifecycleTypeOK
<1>9. ASSUME NEW id \in Second, HealthPasses(id) \/ HealthFails(id) \/ Reap(id)
      PROVE  LifecycleTypeOK'
  <2>1. entries[id] \in Entry
    BY <1>9 DEF HealthPasses, HealthFails, Reap, LifecycleTypeOK
  <2>2. \A n \in 0..ReapAfter : [entries[id] EXCEPT !.critical = n] \in Entry
    BY <2>1 DEF Entry
  <2>3. HealthFails(id) => entries[id].critical + 1 \in 0..ReapAfter
    BY LifecycleAssumption DEF HealthFails
  <2>4. 0 \in 0..ReapAfter
    BY LifecycleAssumption
  <2>5. entries' \in [Second -> Entry \cup {None}]
    BY <1>9, <2>2, <2>3, <2>4 DEF HealthPasses, HealthFails, Reap, LifecycleTypeOK
  <2> QED BY <1>9, <2>5 DEF HealthPasses, HealthFails, Reap, LifecycleTypeOK
<1>10. CASE UNCHANGED lifecycleVars
  BY <1>10 DEF lifecycleVars, LifecycleTypeOK
<1> QED BY <1>1, <1>2, <1>3, <1>4, <1>5, <1>6, <1>7, <1>8, <1>9, <1>10
        DEF LifecycleNext, MainStep, ListenerStep

-----------------------------------------------------------------------------
(* What is in flight, and what is in Consul, when a gateway stops.         *)

LifecycleInv == LifecycleTypeOK /\ StartedHaveIDs /\ StoppingOK /\ EntriesOwned

\* No process runs, and Consul has no entry.
LEMMA LifecycleInvInit == LifecycleInit => LifecycleInv
<1>1. LifecycleInit => StartedHaveIDs /\ StoppingOK /\ EntriesOwned
  BY DEF LifecycleInit, StartedHaveIDs, StoppingOK, EntriesOwned, Stopping
<1> QED BY <1>1, LifecycleTypeInit DEF LifecycleInv

\* An ID, once given, stays.
LEMMA StartedStep ==
    LifecycleTypeOK /\ StartedHaveIDs /\ [LifecycleNext]_lifecycleVars => StartedHaveIDs'
<1> SUFFICES ASSUME LifecycleTypeOK, StartedHaveIDs, [LifecycleNext]_lifecycleVars,
                    NEW p \in Processes, phase'[p] # "off"
             PROVE  started'[p] \in Second
  BY DEF StartedHaveIDs
<1>1. CASE \E q \in Processes : Start(q)
  <2> PICK q \in Processes : Start(q)
    BY <1>1
  <2>1. second' \in Second
    BY LifecycleAssumption DEF Start, LifecycleTypeOK, Second
  <2> QED BY <2>1 DEF Start, Goto, LifecycleTypeOK, StartedHaveIDs
<1>2. CASE ~\E q \in Processes : Start(q)
  <2>1. started' = started
    BY <1>2 DEF LifecycleNext, MainStep, ListenerStep, Register, Launch, Notify, BeginShutdown,
                ShutdownDone, ShutdownTimesOut, CloseNats, Deregister, Listen, ListenerClosed,
                ListenerFails, Signal, Crash, Accept, Finish, HealthPasses, HealthFails, Reap,
                lifecycleVars, startVars, configVars
  <2>2. phase[p] # "off"
    BY <1>2 DEF LifecycleNext, MainStep, ListenerStep, Register, Launch, Notify, BeginShutdown,
                ShutdownDone, ShutdownTimesOut, CloseNats, Deregister, Listen, ListenerClosed,
                ListenerFails, Signal, Crash, Accept, Finish, HealthPasses, HealthFails, Reap,
                lifecycleVars, End, Goto, LifecycleTypeOK, Alive, Starting, Stopping
  <2> QED BY <2>1, <2>2 DEF StartedHaveIDs
<1> QED BY <1>1, <1>2

\* main() reaches its deferred calls in their order.
LEMMA StoppingStep ==
    LifecycleTypeOK /\ StoppingOK /\ [LifecycleNext]_lifecycleVars => StoppingOK'
<1> SUFFICES ASSUME LifecycleTypeOK, StoppingOK, [LifecycleNext]_lifecycleVars
             PROVE  StoppingOK'
  OBVIOUS
<1> USE DEF serverVars, LifecycleTypeOK, StoppingOK
<1>1. ASSUME NEW p \in Processes, Start(p) \/ Register(p) \/ Launch(p) \/ Notify(p)
      PROVE  StoppingOK'
  BY <1>1 DEF Start, Register, Launch, Notify, Goto, Stopping
<1>2. ASSUME NEW p \in Processes, BeginShutdown(p) PROVE StoppingOK'
  BY <1>2 DEF BeginShutdown, Goto, Stopping
<1>3. ASSUME NEW p \in Processes, ShutdownDone(p) \/ ShutdownTimesOut(p) \/ CloseNats(p)
      PROVE  StoppingOK'
  BY <1>3 DEF ShutdownDone, ShutdownTimesOut, CloseNats, Goto, Stopping
<1>4. ASSUME NEW p \in Processes, Deregister(p) \/ ListenerFails(p) \/ Crash(p)
      PROVE  StoppingOK'
  <2>1. \E how \in Ended : End(p, how)
    BY <1>4 DEF Deregister, ListenerFails, Crash, Ended
  <2>2. phase'[p] \notin Stopping
    BY <2>1, EndLeaves DEF Ended, Stopping
  <2> QED BY <2>1, <2>2, EndLeaves DEF Stopping
<1>5. ASSUME NEW p \in Processes, Signal(p) PROVE StoppingOK'
  <2>1. CASE End(p, "died")
    <3>1. "died" \in Ended /\ "died" \notin Stopping
      BY DEF Ended, Stopping
    <3> QED BY <2>1, <3>1, EndLeaves DEF Stopping
  <2>2. CASE ~End(p, "died")
    BY <1>5, <2>2 DEF Signal
  <2> QED BY <2>1, <2>2
<1>6. ASSUME NEW p \in Processes, Listen(p) \/ ListenerClosed(p) PROVE StoppingOK'
  BY <1>6 DEF Listen, ListenerClosed
<1>7. ASSUME NEW p \in Processes, NEW r \in Requests, Accept(p, r) \/ Finish(p, r)
      PROVE  StoppingOK'
  BY <1>7 DEF Accept, Finish, Serves, Stopping
<1>8. ASSUME NEW id \in Second, HealthPasses(id) \/ HealthFails(id) \/ Reap(id)
      PROVE  StoppingOK'
  BY <1>8 DEF HealthPasses, HealthFails, Reap
<1>9. CASE UNCHANGED lifecycleVars
  BY <1>9 DEF lifecycleVars
<1> QED BY <1>1, <1>2, <1>3, <1>4, <1>5, <1>6, <1>7, <1>8, <1>9
        DEF LifecycleNext, MainStep, ListenerStep

\* An entry keeps its owner when its process goes on or dies: only a stop ends it.
LEMMA OwnersStay ==
    ASSUME LifecycleTypeOK, EntriesOwned, NEW p \in Processes,
           \A id \in Second : entries'[id] # None =>
               entries[id] # None /\ entries'[id].port = entries[id].port,
           advertised' = advertised,
           \A q \in Processes \ {p} : phase'[q] = phase[q] /\ registered'[q] = registered[q],
           \A id \in Second : Owns(p, id) => Owns(p, id)',
           \A q \in Processes \ {p} : started'[q] = started[q]
    PROVE  EntriesOwned'
<1>1. \A id \in Second, q \in Processes \ {p} : Owns(q, id) => Owns(q, id)'
  BY DEF Owns, Alive, ID
<1>2. \A id \in Second, q \in Processes : Owns(q, id) => Owns(q, id)'
  BY <1>1
<1> QED BY <1>2 DEF EntriesOwned, Made

\* An entry has a process that answers for it.
LEMMA EntriesStep == LifecycleInv /\ [LifecycleNext]_lifecycleVars => EntriesOwned'
<1> SUFFICES ASSUME LifecycleInv, [LifecycleNext]_lifecycleVars PROVE EntriesOwned'
  OBVIOUS
<1> USE DEF startVars, configVars, serverVars, LifecycleInv
<1>1. ASSUME NEW p \in Processes, Start(p) PROVE EntriesOwned'
  <2>1. \A id \in Second : ~Owns(p, id)
    BY <1>1 DEF Start, Owns, Alive, Starting, Stopping
  <2> QED BY <1>1, <2>1, OwnersStay DEF Start, Goto, LifecycleTypeOK
<1>2. ASSUME NEW p \in Processes, Register(p) PROVE EntriesOwned'
  <2>1. phase'[p] = "nats" /\ Alive(p)' /\ ID(p)' = ID(p) /\ ID(p) \in Second
    BY <1>2 DEF Register, Goto, LifecycleTypeOK, Alive, Starting, ID, StartedHaveIDs
  <2>2. \A q \in Processes \ {p} :
           phase'[q] = phase[q] /\ registered'[q] = registered[q] /\ started'[q] = started[q]
    BY <1>2 DEF Register, Goto, LifecycleTypeOK
  <2>3. CASE UNCHANGED <<registered, entries>>
    <3>1. \A id \in Second : Owns(p, id) => Owns(p, id)'
      BY <1>2, <2>1, <2>3 DEF Register, Owns
    <3> QED BY <1>2, <2>2, <2>3, <3>1, OwnersStay DEF Register
  <2>4. CASE /\ \E reply \in {"yes", "lost"} : registered' = [registered EXCEPT ![p] = reply]
             /\ entries' = Enlisted(p)
    <3>1. \A id \in Second : id = ID(p) => Made(p, id)'
      <4>1. advertised' = advertised /\ entries'[ID(p)] = [port |-> advertised[p], critical |-> 0]
        BY <1>2, <2>1, <2>4 DEF Register, Enlisted, LifecycleTypeOK
      <4> QED BY <2>1, <2>4, <4>1 DEF Made, Owns, LifecycleTypeOK
    <3>2. \A id \in Second : Owns(p, id) => id = ID(p)
      BY DEF Owns
    <3>3. \A id \in Second, q \in Processes \ {p} : Owns(q, id) => Owns(q, id)'
      BY <2>2 DEF Owns, Alive, ID
    <3>4. advertised' = advertised /\ \A id \in Second \ {ID(p)} : entries'[id] = entries[id]
      BY <1>2, <2>1, <2>4 DEF Register, Enlisted, LifecycleTypeOK
    <3> SUFFICES ASSUME NEW id \in Second, entries'[id] # None
                 PROVE  \E q \in Processes : Made(q, id)'
      BY DEF EntriesOwned
    <3>5. CASE id = ID(p)
      BY <3>1, <3>5
    <3>6. CASE id # ID(p)
      BY <3>2, <3>3, <3>4, <3>6 DEF EntriesOwned, Made
    <3> QED BY <3>5, <3>6
  <2> QED BY <1>2, <2>3, <2>4 DEF Register
<1>3. ASSUME NEW p \in Processes,
             Launch(p) \/ Notify(p) \/ BeginShutdown(p) \/ ShutdownDone(p)
               \/ ShutdownTimesOut(p) \/ CloseNats(p)
      PROVE  EntriesOwned'
  <2>1. /\ phase'[p] \in Starting \cup {"wait"} \cup Stopping
        /\ \A q \in Processes \ {p} : phase'[q] = phase[q]
        /\ phase[p] \notin {"died", "left"}
        /\ UNCHANGED <<registered, started, advertised, entries>>
    BY <1>3 DEF Launch, Notify, BeginShutdown, ShutdownDone, ShutdownTimesOut, CloseNats, Goto,
                LifecycleTypeOK, Starting, Stopping
  <2>2. \A id \in Second : Owns(p, id) => Owns(p, id)'
    BY <2>1 DEF Owns, Alive, ID
  <2> QED BY <2>1, <2>2, OwnersStay
<1>4. ASSUME NEW p \in Processes, ListenerFails(p) \/ Crash(p) \/ (Signal(p) /\ End(p, "died"))
      PROVE  EntriesOwned'
  <2>1. End(p, "died") /\ "died" \in Ended /\ UNCHANGED <<started, advertised, entries>>
    BY <1>4 DEF ListenerFails, Crash, Signal, Ended
  <2>2. \A id \in Second : Owns(p, id) => Owns(p, id)'
    BY <2>1, EndLeaves DEF Owns, ID
  <2> QED BY <2>1, <2>2, EndLeaves, OwnersStay
<1>5. ASSUME NEW p \in Processes, Deregister(p) PROVE EntriesOwned'
  <2>1. \E how \in Ended : End(p, how)
    BY <1>5 DEF Deregister, Ended
  <2>2. \A q \in Processes \ {p} : phase'[q] = phase[q] /\ registered'[q] = registered[q]
    BY <2>1, EndLeaves
  <2>3. started' = started /\ advertised' = advertised
    BY <1>5 DEF Deregister
  <2>4. \A id \in Second, q \in Processes \ {p} : Owns(q, id) => Owns(q, id)'
    BY <2>2, <2>3 DEF Owns, Alive, ID
  <2>5. CASE registered[p] = "yes" /\ entries' = Delisted(p)
    <3> SUFFICES ASSUME NEW id \in Second, entries'[id] # None
                 PROVE  \E q \in Processes : Made(q, id)'
      BY DEF EntriesOwned
    <3>1. id # ID(p) /\ entries'[id] = entries[id]
      BY <2>5 DEF Delisted, LifecycleTypeOK
    <3>2. ~Owns(p, id)
      BY <3>1 DEF Owns
    <3> QED BY <3>1, <3>2, <2>3, <2>4 DEF EntriesOwned, Made
  <2>6. CASE entries' = entries /\ End(p, "left")
    <3>1. phase'[p] = "left"
      BY <2>6, EndLeaves DEF Ended
    <3>2. \A id \in Second : Owns(p, id) => Owns(p, id)'
      BY <2>3, <3>1 DEF Owns, ID
    <3> QED BY <2>2, <2>3, <2>6, <3>2, OwnersStay
  <2>7. CASE entries' = entries /\ registered[p] = "no"
    <3>1. \A id \in Second : ~Owns(p, id)
      BY <1>5, <2>7 DEF Deregister, Owns
    <3> QED BY <2>2, <2>3, <2>7, <3>1, OwnersStay
  <2> QED BY <1>5, <2>5, <2>6, <2>7 DEF Deregister
<1>6. ASSUME NEW p \in Processes,
             \/ (Signal(p) /\ ~End(p, "died"))
             \/ Listen(p) \/ ListenerClosed(p)
             \/ \E r \in Requests : Accept(p, r) \/ Finish(p, r)
      PROVE  EntriesOwned'
  BY <1>6 DEF Signal, Listen, ListenerClosed, Accept, Finish, EntriesOwned, Made, Owns, Alive, ID
<1>7. ASSUME NEW id \in Second, HealthPasses(id) \/ HealthFails(id) \/ Reap(id)
      PROVE  EntriesOwned'
  <2>1. \A x \in Second : entries'[x] # None =>
           entries[x] # None /\ entries'[x].port = entries[x].port
    BY <1>7 DEF HealthPasses, HealthFails, Reap, LifecycleTypeOK, Entry
  <2> QED BY <1>7, <2>1 DEF HealthPasses, HealthFails, Reap, EntriesOwned, Made, Owns, Alive, ID
<1>8. CASE UNCHANGED lifecycleVars
  BY <1>8 DEF lifecycleVars, EntriesOwned, Made, Owns, Alive, ID
<1>9. ASSUME NEW p \in Processes, Signal(p) PROVE EntriesOwned'
  BY <1>4, <1>6, <1>9
<1>10. ASSUME NEW p \in Processes, NEW r \in Requests, Accept(p, r) \/ Finish(p, r)
       PROVE  EntriesOwned'
  BY <1>6, <1>10
<1> QED BY <1>1, <1>2, <1>3, <1>4, <1>5, <1>6, <1>7, <1>8, <1>9, <1>10
        DEF LifecycleNext, MainStep, ListenerStep

\* The steps of main(), of its listener and of Consul keep the invariant.
THEOREM LifecycleInvCorrect == LifecycleSpec => []LifecycleInv
<1>1. LifecycleInv /\ [LifecycleNext]_lifecycleVars => LifecycleInv'
  BY LifecycleTypeStep, StartedStep, StoppingStep, EntriesStep DEF LifecycleInv
<1> QED BY <1>1, LifecycleInvInit, PTL DEF LifecycleSpec

\* Every variable has its type: what main(), its goroutines and Consul make of them.
THEOREM LifecycleTypeCorrect == LifecycleSpec => []LifecycleTypeOK
<1>1. LifecycleInv => LifecycleTypeOK
  BY DEF LifecycleInv
<1> QED BY <1>1, LifecycleInvCorrect, PTL

\* The deferred Close of main() runs after Shutdown: the NATS client is there for
\* every request that ends within the deadline.
THEOREM NatsCorrect == LifecycleSpec => []NatsOutlivesRequests
<1>1. LifecycleInv => NatsOutlivesRequests
  BY DEF LifecycleInv, StoppingOK, NatsOutlivesRequests
<1> QED BY <1>1, LifecycleInvCorrect, PTL

\* The deferred Deregister of main() leaves no entry behind unless a call of Consul
\* or the process itself failed.
THEOREM StopCleansUpCorrect == LifecycleSpec => []StopCleansUp
<1>1. LifecycleInv => StopCleansUp
  BY DEF LifecycleInv, EntriesOwned, Made, Owns, StopCleansUp
<1> QED BY <1>1, LifecycleInvCorrect, PTL

-----------------------------------------------------------------------------
(* What takes a running gateway out of Consul.                             *)

\* Every process that has started has a second of its own.
StartedApart == \A p, q \in Processes : p # q /\ started[p] # 0 => started[p] # started[q]

\* Consul finds no entry failing.
ChecksPass == [][~\E id \in Second : HealthFails(id)]_lifecycleVars

\* A gateway that runs and knows of its registration has its entry, in good health.
RegisteredListed ==
    \A p \in Processes : Alive(p) /\ registered[p] = "yes" =>
        entries[ID(p)] = [port |-> advertised[p], critical |-> 0]

\* What a process knows of its registration it has learnt since its start.
NothingKnownBefore == \A p \in Processes : phase[p] = "off" => registered[p] = "no"

\* A process runs after a step if it ran before it, or starts; its ID stays.
LEMMA RunningStep ==
    ASSUME LifecycleTypeOK, [LifecycleNext]_lifecycleVars, NEW q \in Processes, Alive(q)'
    PROVE  /\ Alive(q) \/ (phase[q] = "off" /\ registered'[q] = registered[q])
           /\ Alive(q) => started'[q] = started[q]
           /\ advertised' = advertised
<1> USE DEF LifecycleTypeOK, startVars, configVars, serverVars, Goto, End, Alive, Starting, Stopping
<1>1. advertised' = advertised
  BY DEF LifecycleNext, MainStep, ListenerStep, Start, Register, Launch, Notify, BeginShutdown,
         ShutdownDone, ShutdownTimesOut, CloseNats, Deregister, Listen, ListenerClosed,
         ListenerFails, Signal, Crash, Accept, Finish, HealthPasses, HealthFails, Reap, lifecycleVars
<1>2. CASE \E p \in Processes : Start(p)
  BY <1>1, <1>2 DEF Start
<1>3. CASE ~\E p \in Processes : Start(p)
  <2>1. started' = started
    BY <1>3 DEF LifecycleNext, MainStep, ListenerStep, Register, Launch, Notify, BeginShutdown,
         ShutdownDone, ShutdownTimesOut, CloseNats, Deregister, Listen, ListenerClosed,
         ListenerFails, Signal, Crash, Accept, Finish, HealthPasses, HealthFails, Reap, lifecycleVars
  <2>2. Alive(q)
    BY <1>3 DEF LifecycleNext, MainStep, ListenerStep, Register, Launch, Notify, BeginShutdown,
         ShutdownDone, ShutdownTimesOut, CloseNats, Deregister, Listen, ListenerClosed,
         ListenerFails, Signal, Crash, Accept, Finish, HealthPasses, HealthFails, Reap, lifecycleVars
  <2> QED BY <1>1, <2>1, <2>2
<1> QED BY <1>2, <1>3

\* No registration, stop or check of another process disturbs an entry.
LEMMA ListedStep ==
    ASSUME LifecycleInv, NothingKnownBefore, RegisteredListed, StartedApart,
           [LifecycleNext]_lifecycleVars, ~\E id \in Second : HealthFails(id)
    PROVE  RegisteredListed'
<1> SUFFICES ASSUME NEW q \in Processes, Alive(q)', registered'[q] = "yes"
             PROVE  entries'[ID(q)'] = [port |-> advertised'[q], critical |-> 0]
  BY DEF RegisteredListed
<1>1. Alive(q) /\ ID(q)' = ID(q) /\ ID(q) \in Second /\ advertised' = advertised
  BY RunningStep DEF LifecycleInv, NothingKnownBefore, ID, StartedHaveIDs, Alive, Starting, Stopping
<1> DEFINE own == [port |-> advertised[q], critical |-> 0]
<1> SUFFICES entries'[ID(q)] = own
  BY <1>1
<1> USE DEF startVars, configVars, serverVars, LifecycleInv, LifecycleTypeOK
<1>2. \A p \in Processes \ {q} : phase[p] # "off" => ID(p) \in Second /\ ID(p) # ID(q)
  BY <1>1 DEF StartedHaveIDs, StartedApart, ID, Second
<1>3. CASE Register(q)
  <2>1. CASE UNCHANGED <<registered, entries>>
    BY <1>1, <2>1 DEF RegisteredListed
  <2>2. CASE entries' = Enlisted(q)
    BY <1>1, <2>2 DEF Enlisted
  <2> QED BY <1>3, <2>1, <2>2 DEF Register
<1>4. CASE Deregister(q)
  <2>1. \E how \in Ended : End(q, how)
    BY <1>4 DEF Deregister, Ended
  <2>2. phase'[q] \in Ended
    BY <2>1, EndLeaves
  <2> QED BY <2>2 DEF Alive, Starting, Stopping, Ended
<1>5. ASSUME NEW p \in Processes \ {q}, Register(p) \/ Deregister(p) PROVE entries'[ID(q)] = own
  <2>1. ID(p) # ID(q) /\ registered'[q] = registered[q]
    BY <1>2, <1>5, EndLeaves DEF Register, Deregister, Ended
  <2>2. entries'[ID(q)] = entries[ID(q)]
    BY <1>1, <1>5, <2>1 DEF Register, Deregister, Enlisted, Delisted
  <2> QED BY <1>1, <2>1, <2>2 DEF RegisteredListed
<1>6. ASSUME NEW id \in Second, HealthPasses(id) \/ Reap(id) PROVE entries'[ID(q)] = own
  <2>1. entries[ID(q)] = own
    BY <1>1, <1>6 DEF HealthPasses, Reap, RegisteredListed
  <2>2. Reap(id) => id # ID(q)
    BY <2>1, LifecycleAssumption DEF Reap
  <2>3. [own EXCEPT !.critical = 0] = own
    OBVIOUS
  <2> QED BY <1>1, <1>6, <2>1, <2>2, <2>3 DEF HealthPasses, Reap
<1>7. CASE entries' = entries /\ registered'[q] = registered[q]
  BY <1>1, <1>7 DEF RegisteredListed
<1>8. \/ \E p \in Processes : Register(p) \/ Deregister(p)
      \/ \E id \in Second : HealthPasses(id) \/ Reap(id)
      \/ entries' = entries /\ registered'[q] = registered[q]
  <2>1. ASSUME NEW p \in Processes, ListenerFails(p) \/ Crash(p) \/ (Signal(p) /\ End(p, "died"))
        PROVE  entries' = entries /\ registered'[q] = registered[q]
    <3>1. End(p, "died") /\ entries' = entries /\ "died" \in Ended
      BY <2>1 DEF ListenerFails, Crash, Signal, Ended
    <3>2. p # q
      BY <3>1, EndLeaves DEF Alive, Starting, Stopping
    <3> QED BY <3>1, <3>2, EndLeaves
  <2>2. ASSUME NEW p \in Processes,
               \/ Start(p) \/ Launch(p) \/ Notify(p) \/ BeginShutdown(p) \/ ShutdownDone(p)
               \/ ShutdownTimesOut(p) \/ CloseNats(p) \/ Listen(p) \/ ListenerClosed(p)
               \/ (Signal(p) /\ ~End(p, "died"))
               \/ \E r \in Requests : Accept(p, r) \/ Finish(p, r)
        PROVE  entries' = entries /\ registered'[q] = registered[q]
    BY <2>2 DEF Start, Launch, Notify, BeginShutdown, ShutdownDone, ShutdownTimesOut, CloseNats,
                Listen, ListenerClosed, Signal, Accept, Finish
  <2>3. CASE UNCHANGED lifecycleVars
    BY <2>3 DEF lifecycleVars
  <2> QED BY <2>1, <2>2, <2>3 DEF LifecycleNext, MainStep, ListenerStep
<1> QED BY <1>3, <1>4, <1>5, <1>6, <1>7, <1>8

\* Before its start a process knows nothing.
LEMMA NothingKnownStep ==
    ASSUME LifecycleTypeOK, NothingKnownBefore, [LifecycleNext]_lifecycleVars
    PROVE  NothingKnownBefore'
  BY DEF NothingKnownBefore, LifecycleTypeOK, startVars, configVars, serverVars, Goto, End,
         LifecycleNext, MainStep, ListenerStep, Start, Register, Launch, Notify, BeginShutdown,
         ShutdownDone, ShutdownTimesOut, CloseNats, Deregister, Listen, ListenerClosed,
         ListenerFails, Signal, Crash, Accept, Finish, HealthPasses, HealthFails, Reap, lifecycleVars

\* The ID of main.go:78 and Consul's checks are all that can take away the entry of a
\* gateway that runs: when no two start in the same second and no check fails, it is
\* listed, under the port it gave, from its registration to its Deregister, whatever
\* other gateways on its host register, stop, fail or die.
THEOREM RegisteredStayListed ==
    LifecycleSpec /\ []StartedApart /\ ChecksPass => []RegisteredListed
<1>1. LifecycleInit => NothingKnownBefore /\ RegisteredListed
  BY DEF LifecycleInit, NothingKnownBefore, RegisteredListed, Alive, Starting, Stopping
<1>2. /\ LifecycleInv /\ NothingKnownBefore /\ RegisteredListed /\ StartedApart
      /\ [LifecycleNext]_lifecycleVars
      /\ [~\E id \in Second : HealthFails(id)]_lifecycleVars
      => NothingKnownBefore' /\ RegisteredListed'
  <2> SUFFICES ASSUME LifecycleInv, NothingKnownBefore, RegisteredListed, StartedApart,
                      [LifecycleNext]_lifecycleVars,
                      [~\E id \in Second : HealthFails(id)]_lifecycleVars
               PROVE  NothingKnownBefore' /\ RegisteredListed'
    OBVIOUS
  <2>1. NothingKnownBefore'
    BY NothingKnownStep DEF LifecycleInv
  <2>2. CASE UNCHANGED lifecycleVars
    BY <2>1, <2>2 DEF lifecycleVars, startVars, configVars, RegisteredListed, Alive, ID
  <2>3. CASE ~\E id \in Second : HealthFails(id)
    BY <2>1, <2>3, ListedStep
  <2> QED BY <2>2, <2>3
<1> QED BY <1>1, <1>2, LifecycleInvCorrect, PTL DEF LifecycleSpec, ChecksPass
=============================================================================
