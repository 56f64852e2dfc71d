------------------------------ MODULE Lifecycle ------------------------------
(***************************************************************************)
(* main.go and lib.Start: the goroutines of the process, from its start to *)
(* its end.  main waits for a WaitGroup of the goroutines that close the   *)
(* connections when the context is cancelled, by a failed start or by a    *)
(* signal.  What the connections are used for meanwhile is left to         *)
(* ImportDeploy, where the end of the process is the action Crash.         *)
(***************************************************************************)
EXTENDS Integers, FiniteSets

CONSTANTS
    Clients,        \* the clients that are closed at the end: MongoDB's, and Docker's with that backend
    Database,       \* the first of them
    Restores,       \* config.StartupEnsureDeployed
    MaxSignals      \* bound: how many signals the process gets

ASSUME ClientsAssumption == IsFiniteSet(Clients) /\ Database \in Clients
ASSUME RestoresAssumption == Restores \in BOOLEAN
ASSUME MaxSignalsAssumption == MaxSignals \in Nat

VARIABLES
    main,           \* where the goroutine of main is
    wg,             \* the counter of the WaitGroup
    cancelled,      \* whether the context is
    closer,         \* where the goroutine is that closes a client
    connected,      \* the clients that are connected
    listener,       \* the goroutine with ListenAndServe
    watcher,        \* the goroutine that waits for signals
    buffered,       \* whether there is a signal in the channel shutdown
    stamped,        \* whether shutdownTime was assigned
    signals,        \* how many signals there were
    exit            \* "none", or how the process ended

clientVars == <<wg, cancelled, closer, connected>>
signalVars == <<watcher, buffered, stamped, signals>>
lifecycleVars == <<main, exit, clientVars, listener, signalVars>>

LifecycleTypeOK ==
    /\ main \in {"load", "connect", "restore", "listen", "notify", "wait",
                 "failing", "waitFailed", "over"}
    /\ wg \in Int
    /\ cancelled \in BOOLEAN
    /\ closer \in [Clients -> {"absent", "waiting", "finishing", "done"}]
    /\ connected \subseteq Clients
    /\ listener \in {"absent", "binding", "listening", "failed"}
    /\ watcher \in {"absent", "spawned", "notified", "receiving", "received", "stamped", "done"}
    /\ buffered \in BOOLEAN
    /\ stamped \in BOOLEAN
    /\ signals \in Nat
    /\ exit \in {"none", "complete", "fatal", "killed"}

LifecycleInit ==
    /\ main = "load"
    /\ wg = 0
    /\ cancelled = FALSE
    /\ closer = [c \in Clients |-> "absent"]
    /\ connected = {}
    /\ listener = "absent"
    /\ watcher = "absent"
    /\ buffered = FALSE
    /\ stamped = FALSE
    /\ signals = 0
    /\ exit = "none"

Running == exit = "none"

\* The process ends, and all of its goroutines with it.
Ends(how) == main' = "over" /\ exit' = how

-----------------------------------------------------------------------------

(***************************************************************************)
(* main                                                                    *)
(***************************************************************************)

\* config.Load, before there is a context; log.Fatal if it fails.
LoadConfig ==
    /\ Running /\ main = "load"
    /\ \/ main' = "connect" /\ UNCHANGED exit
       \/ Ends("fatal")
    /\ UNCHANGED <<clientVars, listener, signalVars>>

\* A bug: wg.Add is missing.
ConnectUncounted(c) ==
    /\ Running /\ main = "connect"
    /\ closer[c] = "absent"
    /\ connected' = connected \cup {c}
    /\ closer' = [closer EXCEPT ![c] = "waiting"]
    /\ UNCHANGED <<main, wg, cancelled, listener, signalVars, exit>>

\* mongo.New, dockerClient.New: connect, wg.Add, start the goroutine.  When the indexes
\* cannot be created the connection is closed at once, the goroutine waits all the same.
Connect(c) ==
    /\ Running /\ main = "connect"
    /\ closer[c] = "absent"
    /\ c = Database \/ Database \in connected
    /\ wg' = wg + 1
    /\ closer' = [closer EXCEPT ![c] = "waiting"]
    /\ \/ connected' = connected \cup {c} /\ UNCHANGED main
       \/ c = Database /\ main' = "failing" /\ UNCHANGED connected
    /\ UNCHANGED <<cancelled, listener, signalVars, exit>>

\* All clients are there: the controller, and the restoration if it is switched on.
Connected ==
    /\ Running /\ main = "connect"
    /\ \A c \in Clients : closer[c] = "waiting"
    /\ main' = IF Restores THEN "restore" ELSE "listen"
    /\ UNCHANGED <<exit, clientVars, listener, signalVars>>

Restored ==
    /\ Running /\ main = "restore"
    /\ main' = "listen"
    /\ UNCHANGED <<exit, clientVars, listener, signalVars>>

\* lib.Start returns an error: a client, the migration, the mode, the restoration.
StartFails ==
    /\ Running /\ main \in {"connect", "restore"}
    /\ main' = "failing"
    /\ UNCHANGED <<exit, clientVars, listener, signalVars>>

\* api.Start starts the goroutine of ListenAndServe and returns nil.
StartApi ==
    /\ Running /\ main = "listen"
    /\ main' = "notify"
    /\ listener' = "binding"
    /\ UNCHANGED <<clientVars, signalVars, exit>>

StartWatcher ==
    /\ Running /\ main = "notify"
    /\ main' = "wait"
    /\ watcher' = "spawned"
    /\ UNCHANGED <<clientVars, listener, buffered, stamped, signals, exit>>

\* A bug: the context is not cancelled before the wait.
GiveUpUncancelled ==
    /\ Running /\ main = "failing"
    /\ main' = "waitFailed"
    /\ UNCHANGED <<exit, clientVars, listener, signalVars>>

\* cancel() after a failed start.
GiveUp ==
    /\ Running /\ main = "failing"
    /\ main' = "waitFailed"
    /\ cancelled' = TRUE
    /\ UNCHANGED <<wg, closer, connected, listener, signalVars, exit>>

\* wg.Wait() returns: log.Fatal after a failed start, or "Shutdown complete, took" with
\* the time since shutdownTime.
WaitOver ==
    /\ Running /\ main \in {"waitFailed", "wait"}
    /\ wg = 0
    /\ Ends(IF main = "wait" THEN "complete" ELSE "fatal")
    /\ UNCHANGED <<clientVars, listener, signalVars>>

-----------------------------------------------------------------------------

(***************************************************************************)
(* The other goroutines                                                    *)
(***************************************************************************)

\* A bug: Disconnect is called when wg.Wait may have returned already.
DisconnectLater(c) ==
    /\ Running
    /\ closer[c] = "waiting"
    /\ cancelled
    /\ closer' = [closer EXCEPT ![c] = "finishing"]
    /\ UNCHANGED <<main, wg, cancelled, connected, listener, signalVars, exit>>

\* <-ctx.Done(), Disconnect or Close
Disconnect(c) ==
    /\ Running
    /\ closer[c] = "waiting"
    /\ cancelled
    /\ closer' = [closer EXCEPT ![c] = "finishing"]
    /\ connected' = connected \ {c}
    /\ UNCHANGED <<main, wg, cancelled, listener, signalVars, exit>>

\* wg.Done()
Done(c) ==
    /\ Running
    /\ closer[c] = "finishing"
    /\ closer' = [closer EXCEPT ![c] = "done"]
    /\ wg' = wg - 1
    /\ UNCHANGED <<main, cancelled, connected, listener, signalVars, exit>>

\* ListenAndServe listens, or returns an error, which is logged.
Listen ==
    /\ Running /\ listener = "binding"
    /\ listener' \in {"listening", "failed"}
    /\ UNCHANGED <<main, clientVars, signalVars, exit>>

\* signal.Notify
Notify ==
    /\ Running /\ watcher = "spawned"
    /\ watcher' = "notified"
    /\ UNCHANGED <<main, clientVars, listener, buffered, stamped, signals, exit>>

\* <-shutdown, which blocks until there is a signal.
AwaitSignal ==
    /\ Running /\ watcher = "notified"
    /\ watcher' = "receiving"
    /\ UNCHANGED <<main, clientVars, listener, buffered, stamped, signals, exit>>

ReceiveSignal ==
    /\ Running /\ watcher = "receiving"
    /\ buffered
    /\ watcher' = "received"
    /\ buffered' = FALSE
    /\ UNCHANGED <<main, clientVars, listener, stamped, signals, exit>>

Stamp ==
    /\ Running /\ watcher = "received"
    /\ watcher' = "stamped"
    /\ stamped' = TRUE
    /\ UNCHANGED <<main, clientVars, listener, buffered, signals, exit>>

\* A bug: cancel() comes before the time is taken.
CancelFirst ==
    /\ Running /\ watcher \in {"received", "stamped"}
    /\ watcher' = "done"
    /\ cancelled' = TRUE
    /\ UNCHANGED <<main, wg, closer, connected, listener, buffered, stamped, signals, exit>>

\* cancel() after a signal.
Cancel ==
    /\ Running /\ watcher = "stamped"
    /\ watcher' = "done"
    /\ cancelled' = TRUE
    /\ UNCHANGED <<main, wg, closer, connected, listener, buffered, stamped, signals, exit>>

-----------------------------------------------------------------------------

\* A bug: the channel has no buffer, and the runtime does not wait to deliver.
DeliverUnbuffered ==
    /\ watcher \notin {"absent", "spawned"}
    /\ buffered' = (buffered \/ watcher = "receiving")

\* The runtime puts a signal into the channel, unless it is full.
Deliver ==
    /\ watcher \notin {"absent", "spawned"}
    /\ buffered' = TRUE

\* SIGINT or SIGTERM; until signal.Notify is called it ends the process at once.
Signal ==
    /\ Running
    /\ signals < MaxSignals
    /\ signals' = signals + 1
    /\ \/ Deliver /\ UNCHANGED <<main, exit>>
       \/ watcher \in {"absent", "spawned"} /\ Ends("killed") /\ UNCHANGED buffered
    /\ UNCHANGED <<clientVars, listener, watcher, stamped>>

Main ==
    \/ LoadConfig \/ Connected \/ Restored \/ StartFails \/ StartApi \/ StartWatcher
    \/ GiveUp \/ WaitOver
    \/ \E c \in Clients : Connect(c)

Closer(c) == Disconnect(c) \/ Done(c)

Watcher == Notify \/ AwaitSignal \/ ReceiveSignal \/ Stamp \/ Cancel

LifecycleNext == Main \/ (\E c \in Clients : Closer(c)) \/ Listen \/ Watcher \/ Signal

LifecycleSpec == LifecycleInit /\ [][LifecycleNext]_lifecycleVars

(***************************************************************************)
(* Goroutines are scheduled, and the calls they make return, which is an   *)
(* assumption about the services called: not all calls of the restoration  *)
(* and the migration have a timeout.  Nothing is assumed of signals.       *)
(***************************************************************************)
LifecycleLiveSpec ==
    /\ LifecycleSpec
    /\ WF_lifecycleVars(Main) /\ WF_lifecycleVars(Listen) /\ WF_lifecycleVars(Watcher)
    /\ \A c \in Clients : WF_lifecycleVars(Closer(c))

-----------------------------------------------------------------------------

\* main returns with every connection closed, whether the start failed half way, with
\* some of the clients connected, or a signal came: but for a signal during the start
\* nothing is left open at the database or the engine.
ClosedAtExit == exit \in {"complete", "fatal"} => connected = {}

\* main.go:61 reads shutdownTime, which another goroutine assigned: not before it did,
\* though nothing but the context and the WaitGroup connects the two.
StampedBeforeRead == exit = "complete" => stamped

\* The service does not stop of its own accord: wg.Wait is passed after a signal only.
NoEarlyExit == exit = "complete" => signals > 0

\* A signal ends the process, whenever it comes: before Notify, between Notify and the
\* receive, or while another is being handled.
SignalEnds == signals > 0 ~> ~Running

\* A start that failed ends the process, so that a supervisor can start it again, and does
\* not wait for goroutines that wait for it.
FailedStartEnds == main = "failing" ~> ~Running
=============================================================================
