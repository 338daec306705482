-------------------------- MODULE GatewayLifecycle --------------------------
(***************************************************************************)
(* The life of gateway processes, as main() of cmd/main.go lays it out:    *)
(* registration with Consul, the NATS client, the listener's goroutine,    *)
(* the signal, Shutdown with its timeout, and the deferred calls.  Several *)
(* processes run on one host, at once or one after the other.              *)
(*                                                                         *)
(* Consul is external: it checks /health at the address of every entry and *)
(* removes an entry whose checks have failed for long enough.              *)
(***************************************************************************)
EXTENDS Integers

CONSTANTS
    Processes,   \* the runs of the program
    Ports,       \* the ports they may be configured with
    DefaultPort, \* the port that is registered when main() cannot parse the setting
    Requests,    \* the HTTP requests
    ReapAfter,   \* the failed checks in a row after which Consul removes an entry
    MaxSecond,   \* bound: the last second in which a process may start
    None

Second == 1..MaxSecond
Entry == [port : Ports, critical : 0..ReapAfter]

ASSUME LifecycleAssumption ==
    /\ ReapAfter \in Nat \ {0}
    /\ MaxSecond \in Nat \ {0}
    /\ DefaultPort \in Ports
    /\ None \notin Entry

VARIABLES
    second,      \* the second in which the last process started
    phase,       \* per process, what main() does next, or how it ended
    started,     \* per process, the second in its ID; 0: not started
    port,        \* per process, the port its server listens on
    advertised,  \* per process, the port it registers
    registered,  \* per process, what Register returned, or "lost" with its reply
    listener,    \* per process, the goroutine of ListenAndServe
    inflight,    \* per process, the requests it is handling
    quit,        \* per process, whether a signal is in the channel
    timedOut,    \* per process, whether Shutdown gave up
    entries      \* Consul: per ID, the entry of a gateway, or None

configVars == <<port, advertised>>
startVars == <<second, started, configVars>>
serverVars == <<listener, inflight, quit, timedOut>>
lifecycleVars == <<startVars, phase, registered, serverVars, entries>>

Starting == {"registry", "nats", "notify"}
Stopping == {"shutdown", "close", "deregister"}
Ended == {"exited", "left", "died"}

Alive(p) == phase[p] \in Starting \cup {"wait"} \cup Stopping
Goto(p, label) == phase' = [phase EXCEPT ![p] = label]

\* The process is gone, and what it had in memory with it.
End(p, how) ==
    /\ Goto(p, how)
    /\ registered' = [registered EXCEPT ![p] = "no"]
    /\ listener' = [listener EXCEPT ![p] = "none"]
    /\ inflight' = [inflight EXCEPT ![p] = {}]
    /\ quit' = [quit EXCEPT ![p] = FALSE]
    /\ timedOut' = [timedOut EXCEPT ![p] = FALSE]

\* The ID of a gateway: the hostname, which they share, and the second.
ID(p) == started[p]

LifecycleInit ==
    /\ second = 1
    /\ phase = [p \in Processes |-> "off"]
    /\ started = [p \in Processes |-> 0]
    /\ port \in [Processes -> Ports]
    /\ advertised \in {f \in [Processes -> Ports] :
                          \A p \in Processes : f[p] \in {port[p], DefaultPort}}
    /\ registered = [p \in Processes |-> "no"]
    /\ listener = [p \in Processes |-> "none"]
    /\ inflight = [p \in Processes |-> {}]
    /\ quit = [p \in Processes |-> FALSE]
    /\ timedOut = [p \in Processes |-> FALSE]
    /\ entries = [id \in Second |-> None]

-----------------------------------------------------------------------------
(* The main goroutine, in the order of main().                             *)

\* A process starts, in the second of the last start or in a later one.
Start(p) ==
    /\ phase[p] = "off"
    /\ Goto(p, "registry")
    /\ second' \in second..MaxSecond
    /\ started' = [started EXCEPT ![p] = second']
    /\ UNCHANGED <<configVars, registered, serverVars, entries>>

\* Mutant: the registration does not ask Consul to remove a critical entry.
RegisterForGood(p) ==
    /\ phase[p] = "registry"
    /\ Goto(p, "nats")
    /\ entries' = [entries EXCEPT ![ID(p)] = [port |-> advertised[p], critical |-> -1]]
    /\ registered' = [registered EXCEPT ![p] = "yes"]
    /\ UNCHANGED <<startVars, serverVars>>

\* An entry with the same ID is replaced.
Enlisted(p) == [entries EXCEPT ![ID(p)] = [port |-> advertised[p], critical |-> 0]]
Delisted(p) == [entries EXCEPT ![ID(p)] = None]

\* Consul is not configured, refuses, or registers the gateway.  When the reply is
\* lost it has, but main() takes it for a failure and goes on without the defer.
Register(p) ==
    /\ phase[p] = "registry"
    /\ Goto(p, "nats")
    /\ \/ UNCHANGED <<registered, entries>>
       \/ /\ \E reply \in {"yes", "lost"} : registered' = [registered EXCEPT ![p] = reply]
          /\ entries' = Enlisted(p)
    /\ UNCHANGED <<startVars, serverVars>>

\* There is a NATS client, whose Close is deferred, or main() goes on without one.
\* The store, the handlers and the router are made, and the goroutine of the server
\* is started.
Launch(p) ==
    /\ phase[p] = "nats"
    /\ Goto(p, "notify")
    /\ listener' = [listener EXCEPT ![p] = "launched"]
    /\ UNCHANGED <<startVars, registered, inflight, quit, timedOut, entries>>

Notify(p) ==
    /\ phase[p] = "notify"
    /\ Goto(p, "wait")
    /\ UNCHANGED <<startVars, registered, serverVars, entries>>

\* Shutdown closes the listener.  A goroutine that has not come to listen stays.
BeginShutdown(p) ==
    /\ phase[p] = "wait"
    /\ quit[p]
    /\ Goto(p, "shutdown")
    /\ listener' = [listener EXCEPT ![p] = IF @ = "listening" THEN "closed" ELSE @]
    /\ UNCHANGED <<startVars, registered, inflight, quit, timedOut, entries>>

\* Shutdown returns once no request is in flight.
ShutdownDone(p) ==
    /\ phase[p] = "shutdown"
    /\ inflight[p] = {}
    /\ Goto(p, "close")
    /\ UNCHANGED <<startVars, registered, serverVars, entries>>

\* Mutant: no deadline, Shutdown waits for as long as the requests take.
ShutdownWaits(p) ==
    /\ phase[p] = "shutdown"
    /\ inflight[p] # {}
    /\ UNCHANGED lifecycleVars

\* Mutant: the process ends by Fatalf when Shutdown gives up ("forced").
ShutdownTimesOutFatal(p) ==
    /\ phase[p] = "shutdown"
    /\ inflight[p] # {}
    /\ End(p, "forced")
    /\ UNCHANGED <<startVars, entries>>

\* Or after ten seconds, with an error that is logged.
ShutdownTimesOut(p) ==
    /\ phase[p] = "shutdown"
    /\ inflight[p] # {}
    /\ Goto(p, "close")
    /\ timedOut' = [timedOut EXCEPT ![p] = TRUE]
    /\ UNCHANGED <<startVars, registered, listener, inflight, quit, entries>>

\* Mutant: the client is closed before Shutdown, not deferred.
CloseNatsFirst(p) ==
    /\ phase[p] = "shutdown"
    /\ Goto(p, "deregister")
    /\ UNCHANGED <<startVars, registered, serverVars, entries>>

\* The deferred calls, last first: Close of the NATS client, when there is one.
CloseNats(p) ==
    /\ phase[p] = "close"
    /\ Goto(p, "deregister")
    /\ UNCHANGED <<startVars, registered, serverVars, entries>>

\* Then Deregister, when it was deferred.  Its error is logged.
Deregister(p) ==
    /\ phase[p] = "deregister"
    /\ \/ /\ registered[p] = "yes"
          /\ entries' = Delisted(p)
          /\ End(p, "exited")
       \/ /\ registered[p] = "yes"
          /\ UNCHANGED entries
          /\ End(p, "left")
       \/ /\ registered[p] # "yes"
          /\ UNCHANGED entries
          /\ End(p, IF registered[p] = "no" THEN "exited" ELSE "left")
    /\ UNCHANGED startVars

MainStep(p) ==
    \/ Register(p) \/ Launch(p) \/ Notify(p) \/ BeginShutdown(p)
    \/ ShutdownDone(p) \/ ShutdownTimesOut(p) \/ CloseNats(p) \/ Deregister(p)

-----------------------------------------------------------------------------
(* The goroutine of ListenAndServe, and the requests it serves.            *)

Serves(p) == Alive(p) /\ listener[p] = "listening"

\* The port is free, and Shutdown has not been called.
Listen(p) ==
    /\ Alive(p) /\ phase[p] \notin Stopping
    /\ listener[p] = "launched"
    /\ \A q \in Processes : ~(Serves(q) /\ port[q] = port[p])
    /\ listener' = [listener EXCEPT ![p] = "listening"]
    /\ UNCHANGED <<startVars, phase, registered, inflight, quit, timedOut, entries>>

\* ErrServerClosed, which is no failure.
ListenerClosed(p) ==
    /\ phase[p] \in Stopping
    /\ listener[p] = "launched"
    /\ listener' = [listener EXCEPT ![p] = "closed"]
    /\ UNCHANGED <<startVars, phase, registered, inflight, quit, timedOut, entries>>

\* Any other error, such as a port that is taken: Fatalf ends the process, and
\* its deferred calls do not run.
ListenerFails(p) ==
    /\ Alive(p)
    /\ listener[p] \in {"launched", "listening"}
    /\ End(p, "died")
    /\ UNCHANGED <<startVars, entries>>

ListenerStep(p) == Listen(p) \/ ListenerClosed(p) \/ ListenerFails(p)

Accept(p, r) ==
    /\ Serves(p)
    /\ r \notin inflight[p]
    /\ inflight' = [inflight EXCEPT ![p] = @ \cup {r}]
    /\ UNCHANGED <<startVars, phase, registered, listener, quit, timedOut, entries>>

Finish(p, r) ==
    /\ Alive(p)
    /\ r \in inflight[p]
    /\ inflight' = [inflight EXCEPT ![p] = @ \ {r}]
    /\ UNCHANGED <<startVars, phase, registered, listener, quit, timedOut, entries>>

-----------------------------------------------------------------------------
(* What comes from outside the process.                                    *)

\* SIGINT or SIGTERM.  Until main() has called signal.Notify it kills the process.
Signal(p) ==
    /\ \/ /\ phase[p] \in Starting
          /\ End(p, "died")
       \/ /\ phase[p] = "wait"
          /\ quit' = [quit EXCEPT ![p] = TRUE]
          /\ UNCHANGED <<phase, registered, listener, inflight, timedOut>>
    /\ UNCHANGED <<startVars, entries>>

\* SIGKILL, no memory, or a fatal error of the Go runtime.
Crash(p) ==
    /\ Alive(p)
    /\ End(p, "died")
    /\ UNCHANGED <<startVars, entries>>

Answers(id) == \E p \in Processes : Serves(p) /\ port[p] = entries[id].port

\* Consul asks /health at the address of the entry.  Any process that serves there
\* answers: with success, with a warning when the rate limiter stands in the way,
\* or too late.
HealthPasses(id) ==
    /\ entries[id] # None
    /\ Answers(id)
    /\ entries' = [entries EXCEPT ![id].critical = 0]
    /\ UNCHANGED <<startVars, phase, registered, serverVars>>

HealthFails(id) ==
    /\ entries[id] # None
    /\ entries[id].critical \in 0..(ReapAfter - 1)
    /\ entries' = [entries EXCEPT ![id].critical = @ + 1]
    /\ UNCHANGED <<startVars, phase, registered, serverVars>>

\* DeregisterCriticalServiceAfter.
Reap(id) ==
    /\ entries[id] # None
    /\ entries[id].critical = ReapAfter
    /\ entries' = [entries EXCEPT ![id] = None]
    /\ UNCHANGED <<startVars, phase, registered, serverVars>>

-----------------------------------------------------------------------------

LifecycleNext ==
    \/ \E p \in Processes : \/ Start(p) \/ MainStep(p) \/ ListenerStep(p)
                            \/ Signal(p) \/ Crash(p)
                            \/ \E r \in Requests : Accept(p, r) \/ Finish(p, r)
    \/ \E id \in Second : HealthPasses(id) \/ HealthFails(id) \/ Reap(id)

LifecycleSpec == LifecycleInit /\ [][LifecycleNext]_lifecycleVars

\* The goroutine of the server comes to listen, or to an error.
Settle(p) == listener[p] = "launched" /\ ListenerStep(p)

\* An entry that nobody answers for.
Unanswered(id) == entries[id] # None /\ ~Answers(id) /\ (HealthFails(id) \/ Reap(id))

\* The main goroutine goes on, and Shutdown's deadline comes; a server comes to
\* listen or to an error; and Consul goes on checking an entry that nobody answers
\* for.  Nothing is assumed of requests, which may hang, nor of signals and crashes.
LifecycleFairness ==
    /\ \A p \in Processes : WF_lifecycleVars(MainStep(p)) /\ WF_lifecycleVars(Settle(p))
    /\ \A id \in Second : WF_lifecycleVars(Unanswered(id))

FairLifecycleSpec == LifecycleSpec /\ LifecycleFairness

-----------------------------------------------------------------------------
(* Properties *)

\* Every variable has its type.
LifecycleTypeOK ==
    /\ second \in Second
    /\ phase \in [Processes -> {"off", "wait"} \cup Starting \cup Stopping \cup Ended]
    /\ started \in [Processes -> 0..MaxSecond]
    /\ port \in [Processes -> Ports]
    /\ advertised \in [Processes -> Ports]
    /\ registered \in [Processes -> {"no", "yes", "lost"}]
    /\ listener \in [Processes -> {"none", "launched", "listening", "closed"}]
    /\ inflight \in [Processes -> SUBSET Requests]
    /\ quit \in [Processes -> BOOLEAN]
    /\ timedOut \in [Processes -> BOOLEAN]
    /\ entries \in [Second -> Entry \cup {None}]

\* "prevents data loss during NATS publishing" (main.go:323): no request is being
\* handled once the NATS client is closed, so that none meets a closed connection or
\* is cut off by the end of the process, unless it did not end within the deadline.
NatsOutlivesRequests ==
    \A p \in Processes : phase[p] = "deregister" /\ inflight[p] # {} => timedOut[p]

\* "Critical to clean up when stopping" (main.go:111): an entry in Consul was made by
\* a gateway that runs, or that died, or whose listener or call of Consul failed.  No
\* gateway that was told to stop leaves its entry, whatever its requests and its other
\* goroutine do, and whichever other one has replaced it.
StopCleansUp ==
    \A id \in Second : entries[id] # None =>
        \E p \in Processes :
            /\ ID(p) = id /\ entries[id].port = advertised[p]
            /\ Alive(p) \/ phase[p] \in {"died", "left"}

\* A signal the process has been notified of ends it, though requests hang.
StopEnds == \A p \in Processes : quit[p] ~> phase[p] \in Ended

\* What no gateway serves any more does not stay in Consul, however it ended.
DeadGatewayUnlisted ==
    \A a \in Ports :
        <>[](\A p \in Processes : ~(Serves(p) /\ port[p] = a)) =>
            <>[](\A id \in Second : entries[id] # None => entries[id].port # a)
=============================================================================
