---------------------------- MODULE RunnerProofs ----------------------------
(***************************************************************************)
(* The safety of Runner for any universes and configs, any number of       *)
(* restarts and every interleaving of main, worker and receive thread.     *)
(***************************************************************************)
EXTENDS Runner, SequenceTheorems, TLAPS

\* Where a thread in stop() is otherwise, and what main has done by when; a
\* callback in progress is one of a started receiver.
ControlInv ==
    /\ stopPc["worker"] # "no" => workerPc = "critical" /\ calls > 0
    /\ stopPc["main"] # "no" => mainPc \in {"stopForExit", "stopForRestart"}
    /\ mainPc = "begin" => ix <= Len(config)
    /\ mainPc = "load" => ~hasPath /\ ~stopRequested /\ workerPc = "top"
    /\ mainPc \notin {"load", "unloaded", "connect"} => slots > 0
    /\ rxIn # NoUniverse => rxIn \in receivers

\* Nothing is monitored before start() and after stop(); the monitor that main
\* is starting is the last of the vector, if the worker has not cleared it.
MonitorsInv ==
    Alive =>
        /\ mainPc \in {"load", "connect", "setPath", "join"}
           \/ stopPc["main"] = "flag" => monitors = <<>>
        /\ mainPc = "begin" /\ monitors # <<>> =>
              monitors[Len(monitors)] = config[ix]

\* The first n configured universes have their monitors, and nothing else has.
MonitoredUpTo(n) ==
    /\ n <= Len(config) /\ Len(monitors) = n
    /\ \A i \in 1 .. n : monitors[i] = config[i]

\* A start() that no critical signal disturbs does what it is asked to.
StartInv ==
    Alive /\ ~overlapped =>
        /\ mainPc = "create" =>
              MonitoredUpTo(ix - 1) /\ handlers = Listed(monitors)
        /\ mainPc = "begin" =>
              MonitoredUpTo(ix) /\ handlers = {config[i] : i \in 1 .. ix - 1}
        /\ mainPc = "mark" => monitors = config /\ handlers = Listed(config)
        /\ mainPc = "wait" /\ running /\ stopPc["worker"] = "no" =>
              monitors = config /\ handlers = Listed(config)

\* A critical signal that comes when main is not starting stops everything
\* before its first slot returns, and main does not start again after it.
CriticalInv ==
    Alive /\ ~overlapped =>
        /\ workerPc = "critical" \/ criticalSpaceMet =>
              mainPc \in {"wait", "stopForExit", "join"}
        /\ workerPc = "critical" =>
              /\ calls < slots \/ stopPc["worker"] = "flag" => monitors = <<>>
              /\ calls < slots => ~running
        /\ criticalSpaceMet => monitors = <<>> /\ ~running


\* The disk monitor as part of the runner, with what is proved about it.
DiskProofs == INSTANCE DiskSpaceMonitorProofs

\* The promises alone are not inductive: that a running runner monitors its
\* config (StartInv) needs the worker's stop() to be over before main starts
\* again (CriticalInv), which needs to know where each thread can be
\* (ControlInv) and that stop() leaves the vector empty (MonitorsInv).
IndInv ==
    /\ TypeOK /\ DiskProofs!IndInv /\ ControlInv
    /\ MonitorsInv /\ ReceiversOwned /\ StartInv /\ CriticalInv /\ CleanExit

-----------------------------------------------------------------------------
(***************************************************************************)
(* The disk monitor: whatever the runner does to it, it is a step of       *)
(* DiskSpaceMonitor, so that the invariant proved there holds here.        *)
(***************************************************************************)

LEMMA DiskInit == Disk!Init => DiskProofs!IndInv
<1>1. DiskProofs!ThresholdAssumption
  BY SpaceAssumption DEF DiskProofs!ThresholdAssumption
<1>2. Disk!Init => DiskProofs!Init
  BY DEF Disk!Init, DiskProofs!Init, Disk!Space, DiskProofs!Space,
         Disk!Unreadable, DiskProofs!Unreadable
<1>3. QED
  BY <1>1, <1>2, DiskProofs!InitInv

LEMMA DiskStep ==
    ASSUME [Next]_vars
    PROVE  [Disk!Next]_(Disk!vars)
<1> USE DEF disk, Disk!vars, Disk!settings, Disk!flags
<1>1. CASE UNCHANGED disk
  BY <1>1
<1>2. CASE Disk!SetPath(TRUE)
  BY <1>2 DEF Disk!Next
<1>3. CASE StopWorker
  BY <1>3 DEF StopWorker, Disk!Next
<1>4. CASE Disk!Worker
  BY <1>4 DEF Disk!Next
<1>5. ASSUME NEW n \in Disk!Space \cup {Disk!Unreadable}, SpaceChanges(n)
      PROVE  Disk!Next
  BY <1>5 DEF SpaceChanges, Disk!Next
<1>6. ASSUME NEW t \in Threads, Stop(t)
      PROVE  UNCHANGED disk
  BY <1>6 DEF Stop, StopBegins, DestroyHandler, ShutdownReceiver, Cleared,
              StopEnds
<1>7. Worker => Disk!Worker \/ Stop("worker")
  BY DEF Worker, WorkerPolls, WorkerRuns, Disk!Worker
<1>8. Main => UNCHANGED disk \/ Disk!SetPath(TRUE) \/ StopWorker
                \/ Stop("main")
  BY DEF Main, LoadConfig, ConnectSignals, SetPath, CreateMonitor,
         StartMonitorThrows, StartMonitorDestroyed, StartMonitor, MarkRunning,
         WaiterJoined, DestroyRunner, WorkerJoined
<1>9. LoadFails \/ SetConfig \/ (\E u \in Universes : CallbackBegins(u))
         \/ CallbackReturns \/ RequestTerm \/ Over \/ UNCHANGED vars
      => UNCHANGED disk
  BY DEF LoadFails, SetConfig, CallbackBegins, CallbackReturns, RequestTerm,
         Over, vars
<1>10. QED
  BY <1>1, <1>2, <1>3, <1>4, <1>5, <1>6, <1>7, <1>8, <1>9 DEF Next, Threads

LEMMA DiskInvStep ==
    ASSUME DiskProofs!IndInv, [Next]_vars
    PROVE  DiskProofs!IndInv' /\ Disk!TypeOK'
<1>1. DiskProofs!ThresholdAssumption
  BY SpaceAssumption DEF DiskProofs!ThresholdAssumption
<1>2. [DiskProofs!Next]_(DiskProofs!vars)
  <2> USE DEF Disk!settings, DiskProofs!settings, Disk!flags, DiskProofs!flags,
          Disk!vars, DiskProofs!vars, Disk!Unreadable, DiskProofs!Unreadable,
          Disk!Space, DiskProofs!Space, Disk!MutexFree, DiskProofs!MutexFree
  <2>1. Disk!Worker => DiskProofs!Worker
    BY DEF
        Disk!Worker, DiskProofs!Worker, Disk!LoopTop, DiskProofs!LoopTop,
        Disk!AfterTop, DiskProofs!AfterTop, Disk!Lock, DiskProofs!Lock,
        Disk!Poll, DiskProofs!Poll, Disk!SpaceNow, DiskProofs!SpaceNow,
        Disk!Band, DiskProofs!Band, Disk!Rearmed, DiskProofs!Rearmed,
        Disk!CriticalSignalled, DiskProofs!CriticalSignalled,
        Disk!LowSignalled, DiskProofs!LowSignalled, Disk!Wake, DiskProofs!Wake
  <2>2. Disk!Next => DiskProofs!Next
    BY <2>1
    DEF Disk!Next, DiskProofs!Next, Disk!SetPath, DiskProofs!SetPath,
        Disk!SetLowSpaceThreshold, DiskProofs!SetLowSpaceThreshold,
        Disk!SetCriticalSpaceThreshold, DiskProofs!SetCriticalSpaceThreshold,
        Disk!SetPollPeriod, DiskProofs!SetPollPeriod, Disk!RequestStop,
        DiskProofs!RequestStop, Disk!SpaceChanges, DiskProofs!SpaceChanges
  <2>3. QED
    BY <2>2, DiskStep
<1>3. DiskProofs!IndInv'
  BY <1>1, <1>2, DiskProofs!NextInv
<1>4. Disk!TypeOK'
  BY <1>3 DEF DiskProofs!IndInv, DiskProofs!TypeOK, Disk!TypeOK,
              DiskProofs!Space, Disk!Space, DiskProofs!Unreadable,
              Disk!Unreadable
<1>5. QED
  BY <1>3, <1>4

-----------------------------------------------------------------------------

LEMMA ConfigTyped == TypeOK => config \in Seq(Universes)
<1>1. <<>> \in Seq(Universes)
  BY EmptySeq
<1>2. QED
  BY <1>1, ConfigAssumption DEF TypeOK

LEMMA ConfiguredTyped ==
    ASSUME TypeOK, ix <= Len(config)
    PROVE  config[ix] \in Universes
<1>1. ix \in Nat \ {0}
  BY DEF TypeOK
<1>2. QED
  BY <1>1, ConfigTyped, ElementOfSeq

\* Every step keeps the shape of the state; that of the disk monitor is
\* DiskInvStep's.
LEMMA TypeStep ==
    ASSUME TypeOK, ControlInv, Disk!TypeOK', [Next]_vars
    PROVE  TypeOK'
<1> USE DEF TypeOK, ControlInv, Threads, Starting, disk, Disk!settings,
            Disk!flags, objects, outside, history
<1>1. ASSUME NEW c \in Configs, LoadConfig(c) PROVE TypeOK'
  BY <1>1 DEF LoadConfig
<1>2. CASE ConnectSignals
  BY <1>2 DEF ConnectSignals, Connected
<1>3. CASE SetPath
  BY <1>3 DEF SetPath, Disk!SetPath
<1>4. CASE CreateMonitor
  <2>1. CASE AllCreated
    BY <1>4, <2>1 DEF CreateMonitor
  <2>2. CASE ~AllCreated
    <3>1. config[ix] \in Universes
      BY <2>2, ConfiguredTyped, ConfigTyped DEF AllCreated
    <3>2. monitors' \in Seq(Universes)
      BY <1>4, <2>2, <3>1, AppendProperties DEF CreateMonitor
    <3>3. QED
      BY <1>4, <2>2, <3>2 DEF CreateMonitor
  <2>3. QED
    BY <2>1, <2>2
<1>5. CASE StartMonitorThrows
  BY <1>5 DEF StartMonitorThrows
<1>6. CASE StartMonitorDestroyed
  BY <1>6 DEF StartMonitorDestroyed
<1>7. ASSUME NEW ok \in BOOLEAN, StartMonitor(ok) PROVE TypeOK'
  <2>1. config[ix] \in Universes
    BY <1>7, ConfiguredTyped DEF StartMonitor
  <2>2. registered' \subseteq Universes /\ handlers' \subseteq registered'
        /\ receivers' \subseteq registered'
    BY <1>7, <2>1 DEF StartMonitor, Registered
  <2>3. QED
    BY <1>7, <2>2 DEF StartMonitor
<1>8. CASE MarkRunning
  BY <1>8 DEF MarkRunning
<1>9. CASE WaiterJoined
  BY <1>9 DEF WaiterJoined
<1>10. CASE DestroyRunner
  BY <1>10 DEF DestroyRunner, StopWorker, Disk!RequestStop
<1>11. CASE WorkerJoined
  BY <1>11 DEF WorkerJoined, WorkerFinished
<1>12. CASE LoadFails
  BY <1>12 DEF LoadFails
<1>13. CASE SetConfig
  <2>1. reconfigs' \in 0 .. MaxReconfigs
    BY <1>13, ConfigAssumption DEF SetConfig
  <2>2. QED
    BY <1>13, <2>1 DEF SetConfig
<1>14. ASSUME NEW t \in Threads, StopBegins(t) PROVE TypeOK'
  BY <1>14 DEF StopBegins, Stopping, Other
<1>15. ASSUME NEW t \in Threads, DestroyHandler(t) PROVE TypeOK'
  BY <1>15 DEF DestroyHandler
<1>16. ASSUME NEW t \in Threads, ShutdownReceiver(t) PROVE TypeOK'
  BY <1>16 DEF ShutdownReceiver, ShutDown
<1>17. ASSUME NEW t \in Threads, Cleared(t) PROVE TypeOK'
  BY <1>17 DEF Cleared
<1>18. ASSUME NEW t \in Threads, StopEnds(t) PROVE TypeOK'
  <2>1. stopPc' \in [Threads -> {"no", "clear", "flag"}]
    BY <1>18 DEF StopEnds
  <2>2. CASE t = "worker"
    <3>1. calls > 0
      BY <1>18, <2>2 DEF StopEnds
    <3>2. calls' \in 0 .. slots' /\ workerPc' = "critical"
      BY <1>18, <2>2, <3>1 DEF StopEnds
    <3>3. QED
      BY <1>18, <2>1, <2>2, <3>2 DEF StopEnds, RunningAfterStop
  <2>3. CASE t = "main"
    BY <1>18, <2>1, <2>3 DEF StopEnds, RunningAfterStop
  <2>4. QED
    BY <2>2, <2>3
<1>19. CASE WorkerPolls
  BY <1>19 DEF WorkerPolls, Disk!Poll
<1>20. CASE WorkerRuns
  BY <1>20 DEF WorkerRuns, Disk!LoopTop, Disk!AfterTop, Disk!Lock,
        Disk!LowSignalled, Disk!Wake, Disk!CriticalSignalled
<1>21. ASSUME NEW u \in Universes, CallbackBegins(u) PROVE TypeOK'
  BY <1>21 DEF CallbackBegins
<1>22. CASE CallbackReturns
  BY <1>22 DEF CallbackReturns
<1>23. ASSUME NEW n \in Disk!Space \cup {Disk!Unreadable}, SpaceChanges(n)
       PROVE  TypeOK'
  BY <1>23 DEF SpaceChanges, Disk!SpaceChanges
<1>24. CASE RequestTerm
  BY <1>24 DEF RequestTerm
<1>25. CASE UNCHANGED vars
  BY <1>25 DEF vars
<1>26. QED
  BY <1>1, <1>2, <1>3, <1>4, <1>5, <1>6, <1>7, <1>8, <1>9, <1>10, <1>11, <1>12,
        <1>13, <1>14, <1>15, <1>16, <1>17, <1>18, <1>19, <1>20, <1>21, <1>22,
        <1>23, <1>24, <1>25
  DEF Next, Main, Worker, Stop, Threads, Over

\* What a sequence lists, when it grows and when it shrinks.
LEMMA ListedAppend ==
    ASSUME NEW S, NEW s \in Seq(S), NEW e \in S
    PROVE  Listed(Append(s, e)) = Listed(s) \cup {e}
<1>1. /\ Append(s, e) \in Seq(S)
      /\ Len(Append(s, e)) = Len(s) + 1
      /\ \A i \in 1 .. Len(s) : Append(s, e)[i] = s[i]
      /\ Append(s, e)[Len(s) + 1] = e
  BY AppendProperties
<1>2. Len(s) \in Nat
  OBVIOUS
<1>3. QED
  BY <1>1, <1>2 DEF Listed

LEMMA ListedTail ==
    ASSUME NEW S, NEW s \in Seq(S), s # <<>>
    PROVE  Listed(s) = {Head(s)} \cup Listed(Tail(s))
<1>1. /\ Tail(s) \in Seq(S)
      /\ Len(Tail(s)) = Len(s) - 1
      /\ \A i \in 1 .. Len(Tail(s)) : Tail(s)[i] = s[i + 1]
  BY HeadTailProperties
<1>2. Len(s) \in Nat /\ Len(s) > 0 /\ Head(s) = s[1]
  BY EmptySeq
<1>3. ASSUME NEW i \in 1 .. Len(s)
      PROVE  s[i] \in {Head(s)} \cup Listed(Tail(s))
  <2>1. CASE i = 1
    BY <1>2, <2>1
  <2>2. CASE i # 1
    <3>1. i - 1 \in 1 .. Len(Tail(s)) /\ Tail(s)[i - 1] = s[i]
      BY <1>1, <1>2, <2>2
    <3>2. QED
      BY <3>1 DEF Listed
  <2>3. QED
    BY <2>1, <2>2
<1>4. Listed(Tail(s)) \subseteq Listed(s)
  BY <1>1, <1>2 DEF Listed
<1>5. QED
  BY <1>2, <1>3, <1>4 DEF Listed

LEMMA ListedEmpty == Listed(<<>>) = {}
  BY DEF Listed

\* Where a thread may be in stop(), and what main has done by when.
LEMMA ControlStep ==
    ASSUME TypeOK, ControlInv, [Next]_vars
    PROVE  ControlInv'
<1> USE DEF ControlInv, Threads, Starting, disk, Disk!settings, Disk!flags,
            objects, outside, history
<1>1. ASSUME NEW c \in Configs, LoadConfig(c) PROVE ControlInv'
  BY <1>1 DEF LoadConfig
<1>2. CASE ConnectSignals
  <2>1. slots' > 0
    BY <1>2 DEF ConnectSignals, Connected, TypeOK
  <2>2. QED
    BY <1>2, <2>1 DEF ConnectSignals
<1>3. CASE SetPath
  BY <1>3 DEF SetPath, Disk!SetPath
<1>4. CASE CreateMonitor
  <2>1. ix \in Nat /\ Len(config) \in Nat
    BY ConfigTyped DEF TypeOK
  <2>2. QED
    BY <1>4, <2>1 DEF CreateMonitor, AllCreated
<1>5. CASE StartMonitorThrows
  BY <1>5 DEF StartMonitorThrows
<1>6. CASE StartMonitorDestroyed
  BY <1>6 DEF StartMonitorDestroyed
<1>7. ASSUME NEW ok \in BOOLEAN, StartMonitor(ok) PROVE ControlInv'
  BY <1>7 DEF StartMonitor, Registered
<1>8. CASE MarkRunning
  BY <1>8 DEF MarkRunning
<1>9. CASE WaiterJoined
  BY <1>9 DEF WaiterJoined
<1>10. CASE DestroyRunner
  BY <1>10 DEF DestroyRunner, StopWorker, Disk!RequestStop
<1>11. CASE WorkerJoined
  BY <1>11 DEF WorkerJoined, WorkerFinished
<1>12. CASE LoadFails
  BY <1>12 DEF LoadFails
<1>13. CASE SetConfig
  BY <1>13 DEF SetConfig
<1>14. ASSUME NEW t \in Threads, StopBegins(t) PROVE ControlInv'
  BY <1>14 DEF StopBegins, Stopping, Other
<1>15. ASSUME NEW t \in Threads, DestroyHandler(t) PROVE ControlInv'
  BY <1>15 DEF DestroyHandler
<1>16. ASSUME NEW t \in Threads, ShutdownReceiver(t) PROVE ControlInv'
  BY <1>16 DEF ShutdownReceiver, ShutDown
<1>17. ASSUME NEW t \in Threads, Cleared(t) PROVE ControlInv'
  BY <1>17 DEF Cleared
<1>18. ASSUME NEW t \in Threads, StopEnds(t) PROVE ControlInv'
  <2>1. stopPc \in [Threads -> {"no", "clear", "flag"}]
    BY DEF TypeOK
  <2>2. QED
    BY <1>18, <2>1 DEF StopEnds
<1>19. CASE WorkerPolls
  BY <1>19 DEF WorkerPolls, Disk!Poll
<1>20. CASE WorkerRuns
  BY <1>20 DEF WorkerRuns, Disk!LoopTop, Disk!AfterTop, Disk!Lock,
        Disk!LowSignalled, Disk!Wake, Disk!CriticalSignalled
<1>21. ASSUME NEW u \in Universes, CallbackBegins(u) PROVE ControlInv'
  BY <1>21 DEF CallbackBegins
<1>22. CASE CallbackReturns
  BY <1>22 DEF CallbackReturns
<1>23. ASSUME NEW n \in Disk!Space \cup {Disk!Unreadable}, SpaceChanges(n)
       PROVE  ControlInv'
  BY <1>23 DEF SpaceChanges, Disk!SpaceChanges
<1>24. CASE RequestTerm
  BY <1>24 DEF RequestTerm
<1>25. CASE UNCHANGED vars
  BY <1>25 DEF vars
<1>26. QED
  BY <1>1, <1>2, <1>3, <1>4, <1>5, <1>6, <1>7, <1>8, <1>9, <1>10, <1>11, <1>12,
        <1>13, <1>14, <1>15, <1>16, <1>17, <1>18, <1>19, <1>20, <1>21, <1>22,
        <1>23, <1>24, <1>25
  DEF Next, Main, Worker, Stop, Threads, Over

\* A vector that was cleared stays empty until main appends to it.
LEMMA MonitorsStep ==
    ASSUME TypeOK, ControlInv, MonitorsInv, [Next]_vars
    PROVE  MonitorsInv'
<1> USE DEF MonitorsInv, Alive, Threads, Starting, disk, Disk!settings,
            Disk!flags, objects, outside, history
<1>1. ASSUME NEW c \in Configs, LoadConfig(c) PROVE MonitorsInv'
  BY <1>1 DEF LoadConfig
<1>2. CASE ConnectSignals
  BY <1>2 DEF ConnectSignals, Connected
<1>3. CASE SetPath
  BY <1>3 DEF SetPath, Disk!SetPath
<1>4. CASE CreateMonitor
  <2>1. CASE AllCreated
    BY <1>4, <2>1 DEF CreateMonitor
  <2>2. CASE ~AllCreated
    <3>1. config[ix] \in Universes
      BY <2>2, ConfiguredTyped, ConfigTyped DEF AllCreated, TypeOK
    <3>2. monitors'[Len(monitors')] = config[ix]
      BY <1>4, <2>2, <3>1, AppendProperties DEF CreateMonitor, TypeOK
    <3>3. stopPc["main"] = "no"
      BY <1>4 DEF CreateMonitor, ControlInv
    <3>4. QED
      BY <1>4, <2>2, <3>2, <3>3 DEF CreateMonitor
  <2>3. QED
    BY <2>1, <2>2
<1>5. CASE StartMonitorThrows
  BY <1>5 DEF StartMonitorThrows
<1>6. CASE StartMonitorDestroyed
  BY <1>6 DEF StartMonitorDestroyed
<1>7. ASSUME NEW ok \in BOOLEAN, StartMonitor(ok) PROVE MonitorsInv'
  BY <1>7 DEF StartMonitor, Registered
<1>8. CASE MarkRunning
  BY <1>8 DEF MarkRunning
<1>9. CASE WaiterJoined
  BY <1>9 DEF WaiterJoined
<1>10. CASE DestroyRunner
  BY <1>10 DEF DestroyRunner, StopWorker, Disk!RequestStop
<1>11. CASE WorkerJoined
  BY <1>11 DEF WorkerJoined, WorkerFinished
<1>12. CASE LoadFails
  BY <1>12 DEF LoadFails
<1>13. CASE SetConfig
  BY <1>13 DEF SetConfig
<1>14. ASSUME NEW t \in Threads, StopBegins(t) PROVE MonitorsInv'
  BY <1>14 DEF StopBegins, Stopping, Other
<1>15. ASSUME NEW t \in Threads, DestroyHandler(t) PROVE MonitorsInv'
  BY <1>15 DEF DestroyHandler
<1>16. ASSUME NEW t \in Threads, ShutdownReceiver(t) PROVE MonitorsInv'
  BY <1>16 DEF ShutdownReceiver, ShutDown
<1>17. ASSUME NEW t \in Threads, Cleared(t) PROVE MonitorsInv'
  BY <1>17 DEF Cleared
<1>18. ASSUME NEW t \in Threads, StopEnds(t) PROVE MonitorsInv'
  BY <1>18 DEF StopEnds, RunningAfterStop, Stopping
<1>19. CASE WorkerPolls
  BY <1>19 DEF WorkerPolls, Disk!Poll
<1>20. CASE WorkerRuns
  BY <1>20 DEF WorkerRuns, Disk!LoopTop, Disk!AfterTop, Disk!Lock,
        Disk!LowSignalled, Disk!Wake, Disk!CriticalSignalled
<1>21. ASSUME NEW u \in Universes, CallbackBegins(u) PROVE MonitorsInv'
  BY <1>21 DEF CallbackBegins
<1>22. CASE CallbackReturns
  BY <1>22 DEF CallbackReturns
<1>23. ASSUME NEW n \in Disk!Space \cup {Disk!Unreadable}, SpaceChanges(n)
       PROVE  MonitorsInv'
  BY <1>23 DEF SpaceChanges, Disk!SpaceChanges
<1>24. CASE RequestTerm
  BY <1>24 DEF RequestTerm
<1>25. CASE UNCHANGED vars
  BY <1>25 DEF vars
<1>26. QED
  BY <1>1, <1>2, <1>3, <1>4, <1>5, <1>6, <1>7, <1>8, <1>9, <1>10, <1>11, <1>12,
        <1>13, <1>14, <1>15, <1>16, <1>17, <1>18, <1>19, <1>20, <1>21, <1>22,
        <1>23, <1>24, <1>25
  DEF Next, Main, Worker, Stop, Threads, Over

\* A receiver starts in the last monitor of the vector and is shut down
\* before its monitor leaves it.
LEMMA OwnedStep ==
    ASSUME TypeOK, ControlInv, MonitorsInv, ReceiversOwned, [Next]_vars
    PROVE  ReceiversOwned'
<1> USE DEF ReceiversOwned, Alive, Threads, Starting, disk, Disk!settings,
            Disk!flags, objects, outside, history
<1>1. ASSUME NEW c \in Configs, LoadConfig(c) PROVE ReceiversOwned'
  BY <1>1 DEF LoadConfig
<1>2. CASE ConnectSignals
  BY <1>2 DEF ConnectSignals, Connected
<1>3. CASE SetPath
  BY <1>3 DEF SetPath, Disk!SetPath
<1>4. CASE CreateMonitor
  <2>1. CASE AllCreated
    BY <1>4, <2>1 DEF CreateMonitor
  <2>2. CASE ~AllCreated
    <3>1. config[ix] \in Universes
      BY <2>2, ConfiguredTyped, ConfigTyped DEF AllCreated, TypeOK
    <3>2. monitors' = Append(monitors, config[ix]) /\ monitors \in
        Seq(Universes)
      BY <1>4, <2>2 DEF CreateMonitor, TypeOK
    <3>3. Listed(monitors') = Listed(monitors) \cup {config[ix]}
      BY <3>1, <3>2, ListedAppend
    <3>4. QED
      BY <1>4, <2>2, <3>3 DEF CreateMonitor
  <2>3. QED
    BY <2>1, <2>2
<1>5. CASE StartMonitorThrows
  BY <1>5 DEF StartMonitorThrows
<1>6. CASE StartMonitorDestroyed
  BY <1>6 DEF StartMonitorDestroyed
<1>7. ASSUME NEW ok \in BOOLEAN, StartMonitor(ok) PROVE ReceiversOwned'
  <2>1. Len(monitors) \in 1 .. Len(monitors)
    BY <1>7, EmptySeq DEF StartMonitor, TypeOK
  <2>2. config[ix] \in Listed(monitors)
    BY <1>7, <2>1 DEF StartMonitor, MonitorsInv, Listed
  <2>3. QED
    BY <1>7, <2>2 DEF StartMonitor
<1>8. CASE MarkRunning
  BY <1>8 DEF MarkRunning
<1>9. CASE WaiterJoined
  BY <1>9 DEF WaiterJoined
<1>10. CASE DestroyRunner
  BY <1>10 DEF DestroyRunner, StopWorker, Disk!RequestStop
<1>11. CASE WorkerJoined
  BY <1>11 DEF WorkerJoined, WorkerFinished
<1>12. CASE LoadFails
  BY <1>12 DEF LoadFails
<1>13. CASE SetConfig
  BY <1>13 DEF SetConfig
<1>14. ASSUME NEW t \in Threads, StopBegins(t) PROVE ReceiversOwned'
  BY <1>14 DEF StopBegins, Stopping, Other
<1>15. ASSUME NEW t \in Threads, DestroyHandler(t) PROVE ReceiversOwned'
  BY <1>15 DEF DestroyHandler
<1>16. ASSUME NEW t \in Threads, ShutdownReceiver(t) PROVE ReceiversOwned'
  <2>1. Listed(monitors) = {Head(monitors)} \cup Listed(Tail(monitors))
    BY <1>16, ListedTail DEF ShutdownReceiver, TypeOK
  <2>2. QED
    BY <1>16, <2>1 DEF ShutdownReceiver, ShutDown
<1>17. ASSUME NEW t \in Threads, Cleared(t) PROVE ReceiversOwned'
  BY <1>17 DEF Cleared
<1>18. ASSUME NEW t \in Threads, StopEnds(t) PROVE ReceiversOwned'
  BY <1>18 DEF StopEnds, RunningAfterStop, Stopping
<1>19. CASE WorkerPolls
  BY <1>19 DEF WorkerPolls, Disk!Poll
<1>20. CASE WorkerRuns
  BY <1>20 DEF WorkerRuns, Disk!LoopTop, Disk!AfterTop, Disk!Lock,
        Disk!LowSignalled, Disk!Wake, Disk!CriticalSignalled
<1>21. ASSUME NEW u \in Universes, CallbackBegins(u) PROVE ReceiversOwned'
  BY <1>21 DEF CallbackBegins
<1>22. CASE CallbackReturns
  BY <1>22 DEF CallbackReturns
<1>23. ASSUME NEW n \in Disk!Space \cup {Disk!Unreadable}, SpaceChanges(n)
       PROVE  ReceiversOwned'
  BY <1>23 DEF SpaceChanges, Disk!SpaceChanges
<1>24. CASE RequestTerm
  BY <1>24 DEF RequestTerm
<1>25. CASE UNCHANGED vars
  BY <1>25 DEF vars
<1>26. QED
  BY <1>1, <1>2, <1>3, <1>4, <1>5, <1>6, <1>7, <1>8, <1>9, <1>10, <1>11, <1>12,
        <1>13, <1>14, <1>15, <1>16, <1>17, <1>18, <1>19, <1>20, <1>21, <1>22,
        <1>23, <1>24, <1>25
  DEF Next, Main, Worker, Stop, Threads, Over

LEMMA NothingMonitored ==
    ASSUME ReceiversOwned, Alive, monitors = <<>>
    PROVE  handlers = {} /\ receivers = {}
  BY ListedEmpty DEF ReceiversOwned

LEMMA SameSequence ==
    ASSUME TypeOK, MonitoredUpTo(Len(config))
    PROVE  monitors = config
<1>1. monitors \in Seq(Universes) /\ config \in Seq(Universes)
  BY ConfigTyped DEF TypeOK
<1>2. QED
  BY <1>1, SeqEqual DEF MonitoredUpTo

LEMMA UpToNext ==
    ASSUME NEW n \in Nat
    PROVE  1 .. n + 1 = 1 .. n \cup {n + 1}
  OBVIOUS

\* The loop over config_.universes, when the worker keeps out of it.
LEMMA StartStep ==
    ASSUME TypeOK, ControlInv, MonitorsInv, ReceiversOwned, CriticalInv,
      StartInv, [Next]_vars
    PROVE  StartInv'
<1> USE DEF StartInv, MonitoredUpTo, Alive, Threads, Starting, disk,
            Disk!settings, Disk!flags, objects, outside, history
<1>1. ASSUME NEW c \in Configs, LoadConfig(c) PROVE StartInv'
  BY <1>1 DEF LoadConfig
<1>2. CASE ConnectSignals
  BY <1>2 DEF ConnectSignals, Connected
<1>3. CASE SetPath
  <2>1. monitors = <<>>
    BY <1>3 DEF SetPath, MonitorsInv
  <2>2. handlers = {}
    BY <1>3, <2>1, NothingMonitored DEF SetPath
  <2>3. Len(config) \in Nat /\ Len(<<>>) = 0 /\ Listed(<<>>) = {}
    BY ConfigTyped, EmptySeq, ListedEmpty
  <2>4. /\ monitors' = <<>> /\ handlers' = {} /\ config' = config
        /\ ix' = 1 /\ mainPc' = "create"
    BY <1>3, <2>1, <2>2 DEF SetPath
  <2>5. MonitoredUpTo(ix - 1)'
    BY <2>3, <2>4
  <2>6. QED
    BY <2>3, <2>4, <2>5 DEF Listed
<1>4. CASE CreateMonitor
  <2> SUFFICES ASSUME Alive', ~overlapped'
               PROVE  StartInv'
    OBVIOUS
  <2>1. /\ MonitoredUpTo(ix - 1) /\ handlers = Listed(monitors)
        /\ ix' = ix /\ config' = config /\ handlers' = handlers
    BY <1>4 DEF CreateMonitor
  <2>2. /\ ix \in Nat \ {0} /\ Len(config) \in Nat
        /\ monitors \in Seq(Universes)
    BY ConfigTyped DEF TypeOK
  <2>3. CASE AllCreated
    <3>1. MonitoredUpTo(Len(config))
      BY <2>1, <2>2, <2>3 DEF AllCreated
    <3>2. monitors = config
      BY <3>1, SameSequence
    <3>3. QED
      BY <1>4, <2>1, <2>3, <3>2 DEF CreateMonitor, Listed
  <2>4. CASE ~AllCreated
    <3>1. config[ix] \in Universes /\ ix <= Len(config)
      BY <2>2, <2>4, ConfiguredTyped DEF AllCreated
    <3>2. monitors' = Append(monitors, config[ix]) /\ mainPc' = "begin"
      BY <1>4, <2>4 DEF CreateMonitor
    <3>3. /\ Len(monitors') = Len(monitors) + 1
          /\ \A i \in 1 .. Len(monitors) : monitors'[i] = monitors[i]
          /\ monitors'[Len(monitors) + 1] = config[ix]
      BY <2>2, <3>1, <3>2, AppendProperties
    <3>4. Len(monitors) = ix - 1
      BY <2>1
    <3>5. MonitoredUpTo(ix)'
      BY <2>1, <2>2, <3>1, <3>3, <3>4
    <3>6. handlers = {config[i] : i \in 1 .. ix - 1}
      BY <2>1, <3>4 DEF Listed
    <3>7. QED
      BY <2>1, <3>2, <3>5, <3>6
  <2>5. QED
    BY <2>3, <2>4
<1>5. CASE StartMonitorThrows
  BY <1>5 DEF StartMonitorThrows
<1>6. CASE StartMonitorDestroyed
  BY <1>6 DEF StartMonitorDestroyed
<1>7. ASSUME NEW ok \in BOOLEAN, StartMonitor(ok) PROVE StartInv'
  <2> SUFFICES ASSUME Alive', ~overlapped'
               PROVE  StartInv'
    OBVIOUS
  <2>1. /\ MonitoredUpTo(ix) /\ handlers = {config[i] : i \in 1 .. ix - 1}
        /\ ix' = ix + 1 /\ config' = config /\ monitors' = monitors
        /\ handlers' = handlers \cup {config[ix]} /\ mainPc' = "create"
    BY <1>7 DEF StartMonitor
  <2>2. ix \in Nat \ {0}
    BY DEF TypeOK
  <2>3. ix' - 1 = ix
    BY <2>1, <2>2
  <2>4. MonitoredUpTo(ix - 1)'
    BY <2>1, <2>3
  <2>5. handlers' = {config[i] : i \in 1 .. ix}
    BY <2>1, <2>2
  <2>6. handlers' = Listed(monitors)
    BY <2>1, <2>5 DEF Listed
  <2>7. handlers' = Listed(monitors)'
    BY <2>1, <2>6 DEF Listed
  <2>8. QED
    BY <2>1, <2>4, <2>7
<1>8. CASE MarkRunning
  BY <1>8 DEF MarkRunning
<1>9. CASE WaiterJoined
  BY <1>9 DEF WaiterJoined
<1>10. CASE DestroyRunner
  BY <1>10 DEF DestroyRunner, StopWorker, Disk!RequestStop
<1>11. CASE WorkerJoined
  BY <1>11 DEF WorkerJoined, WorkerFinished
<1>12. CASE LoadFails
  BY <1>12 DEF LoadFails
<1>13. CASE SetConfig
  BY <1>13 DEF SetConfig
<1>14. ASSUME NEW t \in Threads, StopBegins(t) PROVE StartInv'
  BY <1>14 DEF StopBegins, Stopping, Other
<1>15. ASSUME NEW t \in Threads, DestroyHandler(t) PROVE StartInv'
  BY <1>15, EmptySeq DEF DestroyHandler, ControlInv, CriticalInv
<1>16. ASSUME NEW t \in Threads, ShutdownReceiver(t) PROVE StartInv'
  BY <1>16 DEF ShutdownReceiver, ControlInv, CriticalInv
<1>17. ASSUME NEW t \in Threads, Cleared(t) PROVE StartInv'
  BY <1>17 DEF Cleared
<1>18. ASSUME NEW t \in Threads, StopEnds(t) PROVE StartInv'
  BY <1>18 DEF StopEnds, RunningAfterStop, Stopping
<1>19. CASE WorkerPolls
  BY <1>19 DEF WorkerPolls, Disk!Poll
<1>20. CASE WorkerRuns
  BY <1>20 DEF WorkerRuns, Disk!LoopTop, Disk!AfterTop, Disk!Lock,
        Disk!LowSignalled, Disk!Wake, Disk!CriticalSignalled
<1>21. ASSUME NEW u \in Universes, CallbackBegins(u) PROVE StartInv'
  BY <1>21 DEF CallbackBegins
<1>22. CASE CallbackReturns
  BY <1>22 DEF CallbackReturns
<1>23. ASSUME NEW n \in Disk!Space \cup {Disk!Unreadable}, SpaceChanges(n)
       PROVE  StartInv'
  BY <1>23 DEF SpaceChanges, Disk!SpaceChanges
<1>24. CASE RequestTerm
  BY <1>24 DEF RequestTerm
<1>25. CASE UNCHANGED vars
  BY <1>25 DEF vars
<1>26. QED
  BY <1>1, <1>2, <1>3, <1>4, <1>5, <1>6, <1>7, <1>8, <1>9, <1>10, <1>11, <1>12,
        <1>13, <1>14, <1>15, <1>16, <1>17, <1>18, <1>19, <1>20, <1>21, <1>22,
        <1>23, <1>24, <1>25
  DEF Next, Main, Worker, Stop, Threads, Over

\* The worker's stop() inside the critical signal, and main after it.
LEMMA CriticalStep ==
    ASSUME TypeOK, ControlInv, MonitorsInv, ReceiversOwned, CriticalInv,
      [Next]_vars
    PROVE  CriticalInv'
<1> USE DEF CriticalInv, Alive, Threads, Starting, disk, Disk!settings,
            Disk!flags, objects, outside, history
<1>1. ASSUME NEW c \in Configs, LoadConfig(c) PROVE CriticalInv'
  BY <1>1 DEF LoadConfig
<1>2. CASE ConnectSignals
  BY <1>2 DEF ConnectSignals, Connected
<1>3. CASE SetPath
  BY <1>3 DEF SetPath, Disk!SetPath
<1>4. CASE CreateMonitor
  BY <1>4 DEF CreateMonitor, AllCreated
<1>5. CASE StartMonitorThrows
  BY <1>5 DEF StartMonitorThrows
<1>6. CASE StartMonitorDestroyed
  BY <1>6 DEF StartMonitorDestroyed
<1>7. ASSUME NEW ok \in BOOLEAN, StartMonitor(ok) PROVE CriticalInv'
  BY <1>7 DEF StartMonitor, Registered
<1>8. CASE MarkRunning
  BY <1>8 DEF MarkRunning
<1>9. CASE WaiterJoined
  BY <1>9 DEF WaiterJoined
<1>10. CASE DestroyRunner
  BY <1>10 DEF DestroyRunner, StopWorker, Disk!RequestStop
<1>11. CASE WorkerJoined
  BY <1>11 DEF WorkerJoined, WorkerFinished
<1>12. CASE LoadFails
  BY <1>12 DEF LoadFails
<1>13. CASE SetConfig
  BY <1>13 DEF SetConfig
<1>14. ASSUME NEW t \in Threads, StopBegins(t) PROVE CriticalInv'
  BY <1>14 DEF StopBegins, Stopping, Other
<1>15. ASSUME NEW t \in Threads, DestroyHandler(t) PROVE CriticalInv'
  BY <1>15 DEF DestroyHandler
<1>16. ASSUME NEW t \in Threads, ShutdownReceiver(t) PROVE CriticalInv'
  BY <1>16 DEF ShutdownReceiver, ShutDown
<1>17. ASSUME NEW t \in Threads, Cleared(t) PROVE CriticalInv'
  BY <1>17 DEF Cleared
<1>18. ASSUME NEW t \in Threads, StopEnds(t) PROVE CriticalInv'
  BY <1>18 DEF StopEnds, RunningAfterStop, ControlInv, TypeOK
<1>19. CASE WorkerPolls
  <2> SUFFICES ASSUME Alive', ~overlapped'
               PROVE  CriticalInv'
    OBVIOUS
  <2>1. /\ workerPc = "poll" /\ stopPc["worker"] = "no"
        /\ criticalSpaceMet' => criticalSpaceMet
        /\ UNCHANGED <<running, monitors, slots, mainPc, stopPc, raced>>
    BY <1>19 DEF WorkerPolls, Disk!Poll, ControlInv
  <2>2. CASE workerPc' = "critical"
    <3>1. calls' = slots /\ mainPc \notin Starting
      BY <1>19, <2>2 DEF WorkerPolls
    <3>2. mainPc \in {"wait", "stopForExit", "join"}
      BY <1>19, <2>1, <3>1 DEF WorkerPolls, TypeOK, ControlInv
    <3>3. ~(calls' < slots')
      BY <2>1, <3>1 DEF TypeOK
    <3>4. criticalSpaceMet => monitors = <<>> /\ ~running
      BY <1>19, <2>1 DEF WorkerPolls
    <3>5. QED
      BY <2>1, <3>2, <3>3, <3>4
  <2>3. CASE workerPc' # "critical"
    <3>1. Alive /\ ~overlapped
      BY <1>19 DEF WorkerPolls
    <3>2. QED
      BY <2>1, <2>3, <3>1
  <2>4. QED
    BY <2>2, <2>3
<1>20. CASE WorkerRuns
  BY <1>20 DEF WorkerRuns, Disk!LoopTop, Disk!AfterTop, Disk!Lock,
        Disk!LowSignalled, Disk!Wake, Disk!CriticalSignalled, ControlInv,
        TypeOK
<1>21. ASSUME NEW u \in Universes, CallbackBegins(u) PROVE CriticalInv'
  BY <1>21 DEF CallbackBegins
<1>22. CASE CallbackReturns
  BY <1>22 DEF CallbackReturns
<1>23. ASSUME NEW n \in Disk!Space \cup {Disk!Unreadable}, SpaceChanges(n)
       PROVE  CriticalInv'
  BY <1>23 DEF SpaceChanges, Disk!SpaceChanges
<1>24. CASE RequestTerm
  BY <1>24 DEF RequestTerm
<1>25. CASE UNCHANGED vars
  BY <1>25 DEF vars
<1>26. QED
  BY <1>1, <1>2, <1>3, <1>4, <1>5, <1>6, <1>7, <1>8, <1>9, <1>10, <1>11, <1>12,
        <1>13, <1>14, <1>15, <1>16, <1>17, <1>18, <1>19, <1>20, <1>21, <1>22,
        <1>23, <1>24, <1>25
  DEF Next, Main, Worker, Stop, Threads, Over

\* main returns after stop() and the join, and the worker's loop has ended then.
LEMMA ExitStep ==
    ASSUME TypeOK, ControlInv, MonitorsInv, ReceiversOwned, CleanExit,
      [Next]_vars
    PROVE  CleanExit'
<1> USE DEF CleanExit, Alive, Threads, Starting, disk, Disk!settings,
            Disk!flags, objects, outside, history
<1>1. ASSUME NEW c \in Configs, LoadConfig(c) PROVE CleanExit'
  BY <1>1 DEF LoadConfig
<1>2. CASE ConnectSignals
  BY <1>2 DEF ConnectSignals, Connected
<1>3. CASE SetPath
  BY <1>3 DEF SetPath, Disk!SetPath
<1>4. CASE CreateMonitor
  BY <1>4 DEF CreateMonitor, AllCreated
<1>5. CASE StartMonitorThrows
  BY <1>5 DEF StartMonitorThrows
<1>6. CASE StartMonitorDestroyed
  BY <1>6 DEF StartMonitorDestroyed
<1>7. ASSUME NEW ok \in BOOLEAN, StartMonitor(ok) PROVE CleanExit'
  BY <1>7 DEF StartMonitor, Registered
<1>8. CASE MarkRunning
  BY <1>8 DEF MarkRunning
<1>9. CASE WaiterJoined
  BY <1>9 DEF WaiterJoined
<1>10. CASE DestroyRunner
  BY <1>10 DEF DestroyRunner, StopWorker, Disk!RequestStop
<1>11. CASE WorkerJoined
  <2>1. /\ monitors = <<>> /\ handlers = {} /\ receivers = {}
        /\ workerPc = "done"
        /\ UNCHANGED <<disk, monitors, handlers, receivers, rxIn>>
    BY <1>11, NothingMonitored DEF WorkerJoined, WorkerFinished, MonitorsInv
  <2>2. rxIn = NoUniverse
    BY <2>1 DEF ControlInv
  <2>3. QED
    BY <2>1, <2>2
<1>12. CASE LoadFails
  BY <1>12 DEF LoadFails
<1>13. CASE SetConfig
  BY <1>13 DEF SetConfig
<1>14. ASSUME NEW t \in Threads, StopBegins(t) PROVE CleanExit'
  BY <1>14 DEF StopBegins, Stopping, Other
<1>15. ASSUME NEW t \in Threads, DestroyHandler(t) PROVE CleanExit'
  BY <1>15 DEF DestroyHandler
<1>16. ASSUME NEW t \in Threads, ShutdownReceiver(t) PROVE CleanExit'
  BY <1>16 DEF ShutdownReceiver, ShutDown
<1>17. ASSUME NEW t \in Threads, Cleared(t) PROVE CleanExit'
  BY <1>17 DEF Cleared
<1>18. ASSUME NEW t \in Threads, StopEnds(t) PROVE CleanExit'
  BY <1>18 DEF StopEnds, RunningAfterStop, Stopping
<1>19. CASE WorkerPolls
  BY <1>19 DEF WorkerPolls, Disk!Poll
<1>20. CASE WorkerRuns
  BY <1>20 DEF WorkerRuns, Disk!LoopTop, Disk!AfterTop, Disk!Lock,
        Disk!LowSignalled, Disk!Wake, Disk!CriticalSignalled
<1>21. ASSUME NEW u \in Universes, CallbackBegins(u) PROVE CleanExit'
  BY <1>21 DEF CallbackBegins
<1>22. CASE CallbackReturns
  BY <1>22 DEF CallbackReturns
<1>23. ASSUME NEW n \in Disk!Space \cup {Disk!Unreadable}, SpaceChanges(n)
       PROVE  CleanExit'
  BY <1>23 DEF SpaceChanges, Disk!SpaceChanges
<1>24. CASE RequestTerm
  BY <1>24 DEF RequestTerm
<1>25. CASE UNCHANGED vars
  BY <1>25 DEF vars
<1>26. QED
  BY <1>1, <1>2, <1>3, <1>4, <1>5, <1>6, <1>7, <1>8, <1>9, <1>10, <1>11, <1>12,
        <1>13, <1>14, <1>15, <1>16, <1>17, <1>18, <1>19, <1>20, <1>21, <1>22,
        <1>23, <1>24, <1>25
  DEF Next, Main, Worker, Stop, Threads, Over

-----------------------------------------------------------------------------

LEMMA InitInv == Init => IndInv
<1> SUFFICES ASSUME Init PROVE IndInv
  OBVIOUS
<1>1. DiskProofs!IndInv
  BY DiskInit DEF Init
<1>2. Disk!TypeOK
  BY <1>1 DEF DiskProofs!IndInv, DiskProofs!TypeOK, Disk!TypeOK,
              DiskProofs!Space, Disk!Space, DiskProofs!Unreadable,
              Disk!Unreadable
<1>3. monitors \in Seq(Universes)
  BY EmptySeq DEF Init
<1>4. TypeOK
  <2>1. stopPc \in [Threads -> {"no", "clear", "flag"}]
    BY DEF Init
  <2>2. calls \in 0 .. slots /\ slots \in Nat /\ ~(calls > 0)
    BY DEF Init
  <2>3. reconfigs \in 0 .. MaxReconfigs
    BY ConfigAssumption DEF Init
  <2>4. /\ config \in Configs \cup {<<>>}
        /\ running \in BOOLEAN /\ termRequested \in BOOLEAN
        /\ raced \in BOOLEAN /\ overlapped \in BOOLEAN
    BY DEF Init
  <2>5. /\ handlers \subseteq registered /\ receivers \subseteq registered
        /\ registered \subseteq Universes
        /\ rxIn \in Universes \cup {NoUniverse}
    BY DEF Init
  <2>6. ix \in Nat \ {0} /\ mainPc = "load"
    BY DEF Init
  <2>7. QED
    BY <1>2, <1>3, <2>1, <2>2, <2>3, <2>4, <2>5, <2>6 DEF TypeOK
<1>5. ControlInv
  BY DEF Init, ControlInv, Threads, Disk!Init
<1>6. MonitorsInv /\ ReceiversOwned /\ StartInv /\ CleanExit
  BY DEF Init, MonitorsInv, ReceiversOwned, StartInv, CleanExit
<1>7. CriticalInv
  BY DEF Init, CriticalInv, Disk!Init
<1>8. QED
  BY <1>1, <1>4, <1>5, <1>6, <1>7 DEF IndInv

LEMMA NextInv == IndInv /\ [Next]_vars => IndInv'
<1> SUFFICES ASSUME IndInv, [Next]_vars PROVE IndInv'
  OBVIOUS
<1> USE DEF IndInv
<1>1. DiskProofs!IndInv' /\ Disk!TypeOK'
  BY DiskInvStep
<1>2. TypeOK' /\ ControlInv'
  BY <1>1, TypeStep, ControlStep
<1>3. MonitorsInv' /\ ReceiversOwned'
  BY MonitorsStep, OwnedStep
<1>4. StartInv' /\ CriticalInv' /\ CleanExit'
  BY StartStep, CriticalStep, ExitStep
<1>5. QED
  BY <1>1, <1>2, <1>3, <1>4

LEMMA Invariance == Spec => []IndInv
  BY InitInv, NextInv, PTL DEF Spec

\* The shape of Runner's state and of its disk monitor's.
THEOREM TypeCorrect == Spec => []TypeOK
<1>1. IndInv => TypeOK
  BY DEF IndInv
<1>2. QED
  BY <1>1, Invariance, PTL

\* No interleaving of create and clear leaks a receiver that stop() would not
\* reach.
THEOREM ReceiversAreOwned == Spec => []ReceiversOwned
<1>1. IndInv => ReceiversOwned
  BY DEF IndInv
<1>2. QED
  BY <1>1, Invariance, PTL

\* A critical signal that meets no start under way ends the logging for good:
\* nothing survives it and no later step of main brings a universe back.
THEOREM CriticalStopIsFinal == Spec => []CriticalStopLasts
<1>1. IndInv => CriticalStopLasts
  BY NothingMonitored DEF IndInv, CriticalInv, CriticalStopLasts
<1>2. QED
  BY <1>1, Invariance, PTL

\* While the runner says it runs, what it monitors is what it was configured
\* to, after any number of restarts.
THEOREM RunningIsComplete == Spec => []RunningMonitorsConfig
<1>1. IndInv => RunningMonitorsConfig
  BY DEF IndInv, StartInv, RunningMonitorsConfig
<1>2. QED
  BY <1>1, Invariance, PTL

\* After a start main returns only when no monitor, receiver, callback or handler
\* is left and the worker's thread has ended.
THEOREM ExitIsClean == Spec => []CleanExit
<1>1. IndInv => CleanExit
  BY DEF IndInv
<1>2. QED
  BY <1>1, Invariance, PTL

\* The disk monitor keeps its promises inside the runner, whose stop() runs in
\* the middle of its critical signal: that signal is a new one and its reading
\* is critical until the last slot has returned.
THEOREM MonitorPromises ==
    Spec => [](DiskProofs!SignalMatchesThresholds
                 /\ DiskProofs!OneSignalPerShortage)
<1>1. IndInv => DiskProofs!SignalMatchesThresholds
                  /\ DiskProofs!OneSignalPerShortage
  BY DEF IndInv, DiskProofs!IndInv
<1>2. QED
  BY <1>1, Invariance, PTL
=============================================================================
