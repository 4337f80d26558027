------------------------- MODULE DiskSpaceMonitor -------------------------
(***************************************************************************)
(* DiskSpaceMonitor.{h,cpp}: a worker thread polls the space available at  *)
(* a path and emits a signal when it falls into the low or the critical    *)
(* band.  Setters run on other threads, under the mutex the worker holds   *)
(* from its poll to the end of its sleep.  Time is abstracted: a sleep     *)
(* ends sometime.                                                          *)
(***************************************************************************)
EXTENDS Integers

CONSTANTS
    MaxSpace,           \* the size of the file system, in coarse units
    DefaultLow,         \* the initial lowSpaceThreshold_
    DefaultCritical     \* the initial criticalSpaceThreshold_

ASSUME ThresholdAssumption ==
    /\ MaxSpace \in Nat
    /\ DefaultLow \in 0 .. MaxSpace
    /\ DefaultCritical \in 0 .. MaxSpace

Unreadable == -1        \* std::filesystem::space throws
Space == 0 .. MaxSpace

VARIABLES
    available,          \* the file system: what space() would return now
    hasPath,            \* path_ is not empty
    lowSpaceThreshold,
    criticalSpaceThreshold,
    lowSpaceMet,
    criticalSpaceMet,
    configMx,           \* configMx_ is held by the worker
    workerPc,           \* where the worker is in its loop
    reading,            \* its local "space"
    stopRequested,      \* worker_'s stop token
    rearmed             \* history: a poll saw plenty since the last critical
                        \* signal, or there was none

settings == <<hasPath, lowSpaceThreshold, criticalSpaceThreshold>>
flags == <<lowSpaceMet, criticalSpaceMet>>
vars == <<available, settings, flags, configMx, workerPc, reading,
          stopRequested, rearmed>>

Init ==
    /\ available \in Space
    /\ hasPath = FALSE          \* Runner's member is default-constructed
    /\ lowSpaceThreshold = DefaultLow
    /\ criticalSpaceThreshold = DefaultCritical
    /\ lowSpaceMet = FALSE
    /\ criticalSpaceMet = FALSE
    /\ configMx = FALSE
    /\ workerPc = "top"
    /\ reading = Unreadable
    /\ stopRequested = FALSE
    /\ rearmed = TRUE

-----------------------------------------------------------------------------

\* A faulty order of the tests.
BandLowFirst(n) ==
    IF n = Unreadable THEN "unreadable"
    ELSE IF n <= lowSpaceThreshold THEN "low"
    ELSE IF n <= criticalSpaceThreshold THEN "critical"
    ELSE "plenty"

\* The band of a reading, in the order the code tests the thresholds.
Band(n) ==
    IF n = Unreadable THEN "unreadable"
    ELSE IF n <= criticalSpaceThreshold THEN "critical"
    ELSE IF n <= lowSpaceThreshold THEN "low"
    ELSE "plenty"

\* A faulty loop condition that looks at the path first.
AfterTopPathFirst == IF hasPath THEN "lock" ELSE "done"

AfterTop == IF stopRequested THEN "done" ELSE "lock"

\* The top of the loop: stop, or poll if path_ is set.  (With no path the
\* worker spins.)  path_ is read here without the mutex.
LoopTop ==
    /\ workerPc = "top"
    /\ stopRequested \/ hasPath
    /\ workerPc' = AfterTop
    /\ UNCHANGED <<available, settings, flags, configMx, reading,
                   stopRequested, rearmed>>

\* A faulty poll that goes on without the mutex.
LockForgotten ==
    /\ workerPc = "lock"
    /\ workerPc' = "poll"
    /\ UNCHANGED <<available, settings, flags, configMx, reading, stopRequested,
                   rearmed>>

Lock ==
    /\ workerPc = "lock"
    /\ ~configMx
    /\ configMx' = TRUE
    /\ workerPc' = "poll"
    /\ UNCHANGED <<available, settings, flags, reading, stopRequested,
                   rearmed>>

\* What space(path_) yields: it throws for a path emptied since the test.
SpaceNow == IF hasPath THEN available ELSE Unreadable

\* A faulty re-arming: any reading above the critical band.
RearmedAboveCritical(band) == band \in {"low", "plenty"}

\* Both flags are cleared when there is plenty of space.
Rearmed(band) == band = "plenty"

\* Read the space and choose: a signal to emit, flags to clear, or nothing.
Poll ==
    /\ workerPc = "poll"
    /\ reading' = SpaceNow
    /\ LET band == Band(reading')
       IN  /\ workerPc' = CASE band = "critical" /\ ~criticalSpaceMet -> "critical"
                            [] band = "low" /\ ~lowSpaceMet -> "low"
                            [] OTHER -> "sleep"
           /\ criticalSpaceMet' = (criticalSpaceMet /\ ~Rearmed(band))
           /\ lowSpaceMet' = (lowSpaceMet /\ ~Rearmed(band))
           /\ rearmed' = (rearmed \/ band = "plenty")
    /\ UNCHANGED <<available, settings, configMx, stopRequested>>

\* The slots of sigCriticalSpace have returned.
CriticalSignalled ==
    /\ workerPc = "critical"
    /\ criticalSpaceMet' = TRUE
    /\ rearmed' = FALSE
    /\ workerPc' = "sleep"
    /\ UNCHANGED <<available, settings, lowSpaceMet, configMx, reading,
                   stopRequested>>

\* The slots of sigLowSpace have returned.
LowSignalled ==
    /\ workerPc = "low"
    /\ lowSpaceMet' = TRUE
    /\ workerPc' = "sleep"
    /\ UNCHANGED <<available, settings, criticalSpaceMet, configMx, reading,
                   stopRequested, rearmed>>

\* The sleep ends, and with it the scope of the lock and of the reading.
Wake ==
    /\ workerPc = "sleep"
    /\ configMx' = FALSE
    /\ reading' = Unreadable
    /\ workerPc' = "top"
    /\ UNCHANGED <<available, settings, flags, stopRequested, rearmed>>

Worker ==
    LoopTop \/ Lock \/ Poll \/ CriticalSignalled \/ LowSignalled \/ Wake

-----------------------------------------------------------------------------

\* A faulty setter that does not wait for the mutex.
MutexIgnored == TRUE

MutexFree == ~configMx

SetPath(has) ==
    /\ MutexFree
    /\ hasPath' = has
    /\ UNCHANGED <<available, lowSpaceThreshold, criticalSpaceThreshold, flags,
                   configMx, workerPc, reading, stopRequested, rearmed>>

SetLowSpaceThreshold(n) ==
    /\ MutexFree
    /\ lowSpaceThreshold' = n
    /\ UNCHANGED <<available, hasPath, criticalSpaceThreshold, flags, configMx,
                   workerPc, reading, stopRequested, rearmed>>

SetCriticalSpaceThreshold(n) ==
    /\ MutexFree
    /\ criticalSpaceThreshold' = n
    /\ UNCHANGED <<available, hasPath, lowSpaceThreshold, flags, configMx,
                   workerPc, reading, stopRequested, rearmed>>

\* pollPeriod_ only says how long the next sleep is.
SetPollPeriod == MutexFree /\ UNCHANGED vars

\* The destructor of worker_ requests the stop; its join returns when the
\* worker is done.
RequestStop ==
    /\ ~stopRequested
    /\ stopRequested' = TRUE
    /\ UNCHANGED <<available, settings, flags, configMx, workerPc, reading,
                   rearmed>>

\* Files grow or are deleted, the drive is pulled or comes back.
SpaceChanges(n) ==
    /\ available' = n
    /\ UNCHANGED <<settings, flags, configMx, workerPc, reading, stopRequested,
                   rearmed>>

Next ==
    \/ Worker
    \/ \E has \in BOOLEAN : SetPath(has)
    \/ \E n \in Space : SetLowSpaceThreshold(n) \/ SetCriticalSpaceThreshold(n)
    \/ SetPollPeriod
    \/ RequestStop
    \/ \E n \in Space \cup {Unreadable} : SpaceChanges(n)

\* The operating system runs the worker, and its sleeps end.
Spec == Init /\ [][Next]_vars /\ WF_vars(Worker)

-----------------------------------------------------------------------------

\* The shape of the state; the worker holds the mutex from poll to wake.
TypeOK ==
    /\ available \in Space \cup {Unreadable}
    /\ hasPath \in BOOLEAN
    /\ lowSpaceThreshold \in Space /\ criticalSpaceThreshold \in Space
    /\ lowSpaceMet \in BOOLEAN /\ criticalSpaceMet \in BOOLEAN
    /\ workerPc \in {"top", "lock", "poll", "critical", "low", "sleep", "done"}
    /\ configMx \in BOOLEAN
    /\ configMx <=> workerPc \in {"poll", "critical", "low", "sleep"}
    /\ reading \in Space \cup {Unreadable}
    /\ stopRequested \in BOOLEAN
    /\ rearmed \in BOOLEAN

\* DiskSpaceMonitor.h:68,74: while a signal is being delivered, the reading it
\* carries is in its band, by the thresholds as they are then and not as they
\* were when the reading was compared.
SignalMatchesThresholds ==
    /\ workerPc = "critical" => Band(reading) = "critical"
    /\ workerPc = "low" => Band(reading) = "low"

\* One critical signal per shortage: another is emitted only after a poll has
\* seen plenty of space since, whatever the thresholds and the drive did.
OneSignalPerShortage ==
    workerPc = "critical" => rearmed

\* A shortage that lasts is signalled: if from some time on a path is set and
\* its space is critical, the critical signal is delivered and stays latched,
\* even though the path, thresholds and low band may have come and gone before.
ShortageSignalled ==
    <>[](hasPath /\ available # Unreadable
           /\ available <= criticalSpaceThreshold)
        => <>[](stopRequested \/ criticalSpaceMet)

\* Destroying the monitor returns: the join waits for one sleep at most, never
\* for a worker that waits for the path or for the mutex.
StopReturns == stopRequested ~> workerPc = "done"
=============================================================================
