------------------------------- MODULE Runner -------------------------------
(***************************************************************************)
(* Runner.{h,cpp} with its callers: the main thread (main.cpp), the disk   *)
(* monitor's worker, which calls stop() when space is critical, and the    *)
(* sACN library's receive thread, which calls the universes' handlers.     *)
(* universeMonitors_ and running_ are shared by the first two with no      *)
(* lock.  A universe monitor is its handler and its merge receiver;        *)
(* UniverseNotifyHandler says what happens inside a callback.              *)
(***************************************************************************)
EXTENDS Integers, Sequences, FiniteSets

CONSTANTS
    Universes,          \* universe numbers
    Configs,            \* what a config file may list: sequences of them
    MaxReconfigs,       \* calls of setConfig (main.cpp itself makes none)
    NoUniverse,         \* the receive thread is in no callback
    MaxSpace, DefaultLow, DefaultCritical   \* see DiskSpaceMonitor

\* The schema's uniqueItems: a universe is listed once.
ASSUME ConfigAssumption ==
    /\ Configs \subseteq Seq(Universes)
    /\ \A c \in Configs : \A i, j \in 1 .. Len(c) : c[i] = c[j] => i = j
    /\ NoUniverse \notin Universes
    /\ MaxReconfigs \in Nat

\* What DiskSpaceMonitor assumes of its constants.
ASSUME SpaceAssumption ==
    /\ MaxSpace \in Nat
    /\ DefaultLow \in 0 .. MaxSpace
    /\ DefaultCritical \in 0 .. MaxSpace

VARIABLES
    \* diskSpaceMonitor_
    available, hasPath, lowSpaceThreshold, criticalSpaceThreshold,
    lowSpaceMet, criticalSpaceMet, configMx, workerPc, reading, stopRequested,
    rearmed,
    \* Runner
    config,             \* config_.universes
    running,            \* running_
    monitors,           \* universeMonitors_
    slots,              \* how often onCriticalDiskSpace has been connected
    \* the objects that universe monitors own, and spdlog's registry
    handlers,           \* universes whose notifyHandler_ is alive
    receivers,          \* universes whose merge receiver is started
    registered,         \* universes whose two logger names are registered
    \* threads
    mainPc,             \* where the main thread is
    ix,                 \* its place in the loop over config_.universes
    stopPc,             \* where each thread that may run stop() is in it
    calls,              \* slots the worker's signal has still to call
    rxIn,               \* the universe whose handler the receive thread is in
    \* environment and history
    termRequested, reconfigs,
    raced,              \* two threads have been inside universeMonitors_
    overlapped          \* the critical signal came while start() was under way

disk == <<available, hasPath, lowSpaceThreshold, criticalSpaceThreshold,
          lowSpaceMet, criticalSpaceMet, configMx, workerPc, reading,
          stopRequested, rearmed>>
objects == <<handlers, receivers, registered>>
outside == <<termRequested, reconfigs>>
history == <<raced, overlapped>>
vars == <<disk, config, running, monitors, slots, objects, mainPc, ix, stopPc,
          calls, rxIn, outside, history>>

Disk == INSTANCE DiskSpaceMonitor

Threads == {"main", "worker"}

Init ==
    /\ Disk!Init
    /\ config = <<>>
    /\ running = FALSE
    /\ monitors = <<>>
    /\ slots = 0
    /\ handlers = {} /\ receivers = {} /\ registered = {}
    /\ mainPc = "load"
    /\ ix = 1
    /\ stopPc = [t \in Threads |-> "no"]
    /\ calls = 0
    /\ rxIn = NoUniverse
    /\ termRequested = FALSE
    /\ reconfigs = 0
    /\ raced = FALSE
    /\ overlapped = FALSE

\* The process lives, and what it does is defined: a vector that two threads
\* change at once may become anything, so nothing is claimed from then on.
Alive == ~raced /\ mainPc \notin {"unloaded", "exited", "crashed"}

\* From here to the end of start() or setConfig() the main thread goes on to
\* create monitors.
Starting == {"connect", "setPath", "create", "begin", "mark", "stopForRestart"}

-----------------------------------------------------------------------------
(***************************************************************************)
(* stop(), on either thread.                                               *)
(***************************************************************************)

Stopping(t) ==
    IF t = "main" THEN mainPc \in {"stopForExit", "stopForRestart"}
                  ELSE workerPc = "critical" /\ calls > 0

Other(t) == IF t = "main" THEN "worker" ELSE "main"

\* universeMonitors_.clear() begins.
StopBegins(t) ==
    /\ Alive
    /\ Stopping(t) /\ stopPc[t] = "no"
    /\ stopPc' = [stopPc EXCEPT ![t] = "clear"]
    /\ raced' = (stopPc[Other(t)] = "clear")
    /\ UNCHANGED <<disk, config, running, monitors, slots, objects, mainPc, ix,
                   calls, rxIn, outside, overlapped>>

\* ~UniverseMonitor destroys the members of UniverseMonitor.h:135-138 in
\* reverse order: the handler first ...
DestroyHandler(t) ==
    /\ Alive
    /\ stopPc[t] = "clear" /\ monitors # <<>>
    /\ Head(monitors) \in handlers
    /\ handlers' = handlers \ {Head(monitors)}
    /\ UNCHANGED <<disk, config, running, monitors, slots, receivers,
                   registered, mainPc, ix, stopPc, calls, rxIn, outside,
                   history>>

\* A faulty deleter that forgets the Shutdown.
NotShutDown(u) == receivers

ShutDown(u) == receivers \ {u}

\* ... then the merge receiver, whose deleter calls Shutdown.  Shutdown is
\* taken to wait for a callback in progress and to let none begin after it.
\* The loggers go last; their names stay registered.
ShutdownReceiver(t) ==
    /\ Alive
    /\ stopPc[t] = "clear" /\ monitors # <<>>
    /\ Head(monitors) \notin handlers
    /\ rxIn # Head(monitors)
    /\ receivers' = ShutDown(Head(monitors))
    /\ monitors' = Tail(monitors)
    /\ UNCHANGED <<disk, config, running, slots, handlers, registered, mainPc,
                   ix, stopPc, calls, rxIn, outside, history>>

Cleared(t) ==
    /\ Alive
    /\ stopPc[t] = "clear" /\ monitors = <<>>
    /\ stopPc' = [stopPc EXCEPT ![t] = "flag"]
    /\ UNCHANGED <<disk, config, running, monitors, slots, objects, mainPc, ix,
                   calls, rxIn, outside, history>>

\* A faulty stop() that leaves running_ as it is.
RunningKept == running

RunningAfterStop == FALSE

\* running_ = false, and stop() returns: to the next slot of the signal, to
\* the end of main, or to setConfig, which stores the new config and starts.
StopEnds(t) ==
    /\ Alive
    /\ stopPc[t] = "flag"
    /\ stopPc' = [stopPc EXCEPT ![t] = "no"]
    /\ running' = RunningAfterStop
    /\ IF t = "worker"
       THEN calls' = calls - 1 /\ UNCHANGED <<mainPc, config>>
       ELSE /\ UNCHANGED calls
            /\ IF mainPc = "stopForExit"
               THEN mainPc' = "join" /\ UNCHANGED config
               ELSE mainPc' = "connect" /\ config' \in Configs
    /\ UNCHANGED <<disk, monitors, slots, objects, ix, rxIn, outside, history>>

Stop(t) ==
    \/ StopBegins(t) \/ DestroyHandler(t) \/ ShutdownReceiver(t)
    \/ Cleared(t) \/ StopEnds(t)

-----------------------------------------------------------------------------
(***************************************************************************)
(* start(), on the main thread.                                            *)
(***************************************************************************)

\* A start() that forgets sigCriticalSpace.
NotConnected == slots

Connected == slots + 1

\* Every start() connects both signals again, also after a restart.
ConnectSignals ==
    /\ Alive
    /\ mainPc = "connect"
    /\ slots' = Connected
    /\ mainPc' = "setPath"
    /\ UNCHANGED <<disk, config, running, monitors, objects, ix, stopPc, calls,
                   rxIn, outside, history>>

\* The worker polls from here on.
SetPath ==
    /\ Alive
    /\ mainPc = "setPath"
    /\ Disk!SetPath(TRUE)
    /\ ix' = 1
    /\ mainPc' = "create"
    /\ UNCHANGED <<config, running, monitors, slots, objects, stopPc, calls,
                   rxIn, outside, history>>

\* A loop that stops one universe short.
AllButLastCreated == ix >= Len(config)

AllCreated == ix > Len(config)

\* universeMonitors_.emplace_back(universe), or the end of the loop.
CreateMonitor ==
    /\ Alive
    /\ mainPc = "create"
    /\ IF AllCreated
       THEN mainPc' = "mark" /\ UNCHANGED <<monitors, raced>>
       ELSE /\ monitors' = Append(monitors, config[ix])
            /\ raced' = (stopPc["worker"] = "clear")
            /\ mainPc' = "begin"
    /\ UNCHANGED <<disk, config, running, slots, objects, ix, stopPc, calls,
                   rxIn, outside, overlapped>>

\* UniverseMonitor::start throws out of main: spdlog still has a logger of
\* this universe's name.
StartMonitorThrows ==
    /\ Alive
    /\ mainPc = "begin"
    /\ stopPc["worker"] # "clear" /\ monitors # <<>>
    /\ config[ix] \in registered
    /\ mainPc' = "crashed"
    /\ UNCHANGED <<disk, config, running, monitors, slots, objects, ix, stopPc,
                   calls, rxIn, outside, history>>

\* Loggers made without registering their names.
Unregistered(u) == registered

Registered(u) == registered \cup {u}

\* UniverseMonitor::start: loggers, handler, receiver.  A receiver that cannot
\* start is only reported (ok = FALSE).
StartMonitor(ok) ==
    /\ Alive
    /\ mainPc = "begin"
    /\ stopPc["worker"] # "clear" /\ monitors # <<>>
    /\ config[ix] \notin registered
    /\ registered' = Registered(config[ix])
    /\ handlers' = handlers \cup {config[ix]}
    /\ receivers' = IF ok THEN receivers \cup {config[ix]} ELSE receivers
    /\ ix' = ix + 1
    /\ mainPc' = "create"
    /\ UNCHANGED <<disk, config, running, monitors, slots, stopPc, calls, rxIn,
                   outside, history>>

\* The worker has cleared, or is clearing, the vector that holds the monitor
\* being started.
StartMonitorDestroyed ==
    /\ Alive
    /\ mainPc = "begin"
    /\ stopPc["worker"] = "clear" \/ monitors = <<>>
    /\ raced' = TRUE
    /\ UNCHANGED <<disk, config, running, monitors, slots, objects, mainPc, ix,
                   stopPc, calls, rxIn, outside, overlapped>>

MarkRunning ==
    /\ Alive
    /\ mainPc = "mark"
    /\ running' = TRUE
    /\ mainPc' = "wait"
    /\ UNCHANGED <<disk, config, monitors, slots, objects, ix, stopPc, calls,
                   rxIn, outside, history>>

-----------------------------------------------------------------------------
(***************************************************************************)
(* main(): load, start, wait for a signal, stop, destroy the runner.       *)
(***************************************************************************)

LoadConfig(c) ==
    /\ Alive
    /\ mainPc = "load"
    /\ config' = c
    /\ mainPc' = "connect"
    /\ UNCHANGED <<disk, running, monitors, slots, objects, ix, stopPc, calls,
                   rxIn, outside, history>>

\* No runner has been made, nor the disk monitor it owns, whose worker stands
\* at the top of its loop here and does nothing.
LoadFails ==
    /\ Alive
    /\ mainPc = "load"
    /\ mainPc' = "unloaded"
    /\ UNCHANGED <<disk, config, running, monitors, slots, objects, ix, stopPc,
                   calls, rxIn, outside, history>>

\* The waiter thread sees the flag a signal handler set, and is joined.
WaiterJoined ==
    /\ Alive
    /\ mainPc = "wait" /\ termRequested
    /\ mainPc' = "stopForExit"
    /\ UNCHANGED <<disk, config, running, monitors, slots, objects, ix, stopPc,
                   calls, rxIn, outside, history>>

\* setConfig while running stops and starts again; the new config is chosen
\* when it is stored (StopEnds).  Otherwise it is stored and that is all.
SetConfig ==
    /\ Alive
    /\ mainPc = "wait" /\ ~termRequested
    /\ reconfigs < MaxReconfigs
    /\ reconfigs' = reconfigs + 1
    /\ IF running
       THEN mainPc' = "stopForRestart" /\ UNCHANGED config
       ELSE config' \in Configs /\ UNCHANGED mainPc
    /\ overlapped' = (overlapped \/ (running /\ workerPc = "critical"))
    /\ UNCHANGED <<disk, running, monitors, slots, objects, ix, stopPc, calls,
                   rxIn, termRequested, raced>>

\* A plain thread, joined but never told to stop; or detached, not joined.
NothingRequested == UNCHANGED disk
Detached == TRUE

StopWorker == Disk!RequestStop
WorkerFinished == workerPc = "done"

\* ~Runner: its last member, the disk monitor, goes first.
DestroyRunner ==
    /\ Alive
    /\ mainPc = "join"
    /\ StopWorker
    /\ UNCHANGED <<config, running, monitors, slots, objects, mainPc, ix,
                   stopPc, calls, rxIn, outside, history>>

WorkerJoined ==
    /\ Alive
    /\ mainPc = "join" /\ WorkerFinished
    /\ mainPc' = "exited"
    /\ UNCHANGED <<disk, config, running, monitors, slots, objects, ix, stopPc,
                   calls, rxIn, outside, history>>

Main ==
    \/ \E c \in Configs : LoadConfig(c)
    \/ ConnectSignals \/ SetPath \/ CreateMonitor
    \/ StartMonitorThrows \/ StartMonitorDestroyed
    \/ \E ok \in BOOLEAN : StartMonitor(ok)
    \/ MarkRunning
    \/ WaiterJoined \/ Stop("main") \/ DestroyRunner \/ WorkerJoined

-----------------------------------------------------------------------------
(***************************************************************************)
(* The disk monitor's worker, and onCriticalDiskSpace which it calls.      *)
(***************************************************************************)

\* A poll that finds space critical goes on to call every connected slot.
WorkerPolls ==
    /\ Alive
    /\ Disk!Poll
    /\ calls' = IF workerPc' = "critical" THEN slots ELSE 0
    /\ overlapped' =
          (overlapped \/ (workerPc' = "critical" /\ mainPc \in Starting))
    /\ UNCHANGED <<config, running, monitors, slots, objects, mainPc, ix,
                   stopPc, rxIn, outside, raced>>

\* The rest of its loop; the critical signal ends when its slots are done.
WorkerRuns ==
    /\ Alive
    /\ \/ Disk!LoopTop \/ Disk!Lock \/ Disk!LowSignalled \/ Disk!Wake
       \/ calls = 0 /\ Disk!CriticalSignalled
    /\ UNCHANGED <<config, running, monitors, slots, objects, mainPc, ix,
                   stopPc, calls, rxIn, outside, history>>

Worker == WorkerPolls \/ WorkerRuns \/ Stop("worker")

-----------------------------------------------------------------------------
(***************************************************************************)
(* The receive thread, the file system, the operator.                      *)
(***************************************************************************)

CallbackBegins(u) ==
    /\ Alive
    /\ rxIn = NoUniverse /\ u \in receivers
    /\ rxIn' = u
    /\ UNCHANGED <<disk, config, running, monitors, slots, objects, mainPc, ix,
                   stopPc, calls, outside, history>>

CallbackReturns ==
    /\ Alive
    /\ rxIn # NoUniverse
    /\ rxIn' = NoUniverse
    /\ UNCHANGED <<disk, config, running, monitors, slots, objects, mainPc, ix,
                   stopPc, calls, outside, history>>

SpaceChanges(n) ==
    /\ Alive
    /\ Disk!SpaceChanges(n)
    /\ UNCHANGED <<config, running, monitors, slots, objects, mainPc, ix,
                   stopPc, calls, rxIn, outside, history>>

\* SIGTERM, SIGINT or SIGQUIT.
RequestTerm ==
    /\ Alive
    /\ termRequested' = TRUE
    /\ UNCHANGED <<disk, config, running, monitors, slots, objects, mainPc, ix,
                   stopPc, calls, rxIn, reconfigs, history>>

\* The process is gone, or no longer defined.
Over == ~Alive /\ UNCHANGED vars

Next ==
    \/ Main
    \/ LoadFails
    \/ SetConfig
    \/ Worker
    \/ \E u \in Universes : CallbackBegins(u)
    \/ CallbackReturns
    \/ \E n \in Disk!Space \cup {Disk!Unreadable} : SpaceChanges(n)
    \/ RequestTerm
    \/ Over

\* Threads that can run do; callbacks return.  Nothing makes the disk fill,
\* packets arrive, or the operator act.  The mutex is a std::mutex: a thread
\* that waits for it is not promised to get it, so SetPath has weak fairness.
\* Shutdown does get its turn: between two callbacks the receive thread waits
\* for packets.
Spec ==
    /\ Init /\ [][Next]_vars
    /\ WF_vars(Main) /\ WF_vars(Worker) /\ WF_vars(CallbackReturns)
    /\ SF_vars(ShutdownReceiver("main")) /\ SF_vars(ShutdownReceiver("worker"))

-----------------------------------------------------------------------------

Listed(sequence) == {sequence[i] : i \in 1 .. Len(sequence)}

\* The shape of the state.
TypeOK ==
    /\ Disk!TypeOK
    /\ config \in Configs \cup {<<>>}
    /\ running \in BOOLEAN
    /\ monitors \in Seq(Universes)
    /\ slots \in Nat /\ calls \in 0 .. slots
    /\ calls > 0 => workerPc = "critical"
    /\ handlers \subseteq registered
    /\ receivers \subseteq registered
    /\ registered \subseteq Universes
    /\ mainPc \in Starting \cup {"load", "unloaded", "wait", "stopForExit",
                                 "join", "exited", "crashed"}
    /\ ix \in Nat \ {0}
    /\ stopPc \in [Threads -> {"no", "clear", "flag"}]
    /\ rxIn \in Universes \cup {NoUniverse}
    /\ termRequested \in BOOLEAN /\ reconfigs \in 0 .. MaxReconfigs
    /\ raced \in BOOLEAN /\ overlapped \in BOOLEAN

\* "Stopping logger because of disk space." (Runner.cpp:97): once the critical
\* signal has been delivered and main has nothing left to start, no universe is
\* being logged.
CriticalStopsLogger ==
    Alive /\ mainPc = "wait" /\ criticalSpaceMet => receivers = {}

\* The same where the signal did not come while a start was under way: then
\* nothing survives it, no later step brings a universe back, and running_
\* says so.
CriticalStopLasts ==
    Alive /\ criticalSpaceMet /\ ~overlapped =>
        receivers = {} /\ handlers = {} /\ ~running

\* While the runner says it is running and no thread is in stop(), every
\* configured universe has its monitor, in order, and none is monitored twice.
RunningMonitorsConfig ==
    Alive /\ mainPc = "wait" /\ running /\ ~overlapped
          /\ stopPc["worker"] = "no" =>
        /\ monitors = config
        /\ handlers = Listed(config)

\* Every started receiver belongs to a monitor in the vector, so that the next
\* stop() reaches it: no interleaving of create and clear leaks one.
ReceiversOwned ==
    Alive => receivers \cup handlers \subseteq Listed(monitors)

\* When main returns after a start nothing is left that could call into what it
\* destroyed: no monitor, no receiver nor a callback in one, no handler, and the
\* worker's thread has ended.
CleanExit ==
    mainPc = "exited" /\ ~raced =>
        /\ monitors = <<>> /\ handlers = {} /\ receivers = {}
        /\ rxIn = NoUniverse
        /\ workerPc = "done"

\* The receive thread only ever runs handlers that exist
\* (UniverseMonitor.h:36: the deleter is there to shut the receiver down).
CallbackHasHandler == Alive /\ rxIn # NoUniverse => rxIn \in handlers

\* Runner.h:63: setConfig restarts the application if it was running.
RestartSucceeds == mainPc # "crashed"

\* A signal ends the process, through whatever the worker is doing, provided
\* that a restart under way gets the mutex.
TermLeadsToExit ==
    []<>(mainPc # "setPath") =>
        (termRequested ~> ~Alive)

\* A disk that stays critical ends the logging for good, also when callbacks
\* are in progress and whatever the flags were before.
CriticalEventuallyStops ==
    <>[](available # Disk!Unreadable /\ available <= criticalSpaceThreshold
            /\ hasPath)
        => <>[](receivers = {} \/ overlapped \/ ~Alive)
=============================================================================
