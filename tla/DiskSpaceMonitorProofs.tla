---------------------- MODULE DiskSpaceMonitorProofs ----------------------
(***************************************************************************)
(* The safety of the disk monitor for every size of file system and every  *)
(* pair of thresholds, also a critical one above the low one.              *)
(***************************************************************************)
EXTENDS DiskSpaceMonitor, TLAPS

\* An unlatched flag means that the worker may signal again; that is why the
\* signal it is about to emit is a new one.
ReadyToSignal == criticalSpaceMet \/ rearmed

\* SignalMatchesThresholds and OneSignalPerShortage are inductive with it: the
\* first because the worker holds the mutex (TypeOK), so no setter runs between
\* the comparison and the end of the signal.
IndInv ==
    /\ TypeOK
    /\ SignalMatchesThresholds
    /\ OneSignalPerShortage
    /\ ReadyToSignal

-----------------------------------------------------------------------------

LEMMA InitInv == Init => IndInv
<1> SUFFICES ASSUME Init PROVE IndInv
  OBVIOUS
<1>1. TypeOK
  BY ThresholdAssumption DEF Init, TypeOK, Space
<1>2. QED
  BY <1>1 DEF Init, IndInv, SignalMatchesThresholds, OneSignalPerShortage,
              ReadyToSignal

LEMMA PollInv ==
    ASSUME IndInv, Poll
    PROVE  IndInv'
<1> USE DEF IndInv, TypeOK, Poll, settings, Space, Unreadable
<1> DEFINE band == Band(reading')
<1>1. reading' \in Space \cup {Unreadable}
  BY DEF SpaceNow
<1>2. band \in {"unreadable", "critical", "low", "plenty"}
  BY DEF Band
<1>3. Band(reading)' = band
  BY DEF Band
<1>4. workerPc' \in {"critical", "low", "sleep"}
  OBVIOUS
<1>5. TypeOK'
  BY <1>1, <1>4
<1>6. SignalMatchesThresholds'
  BY <1>3 DEF SignalMatchesThresholds
<1>7. OneSignalPerShortage' /\ ReadyToSignal'
  BY <1>2 DEF OneSignalPerShortage, ReadyToSignal, Rearmed
<1>8. QED
  BY <1>5, <1>6, <1>7

LEMMA WorkerInv ==
    ASSUME IndInv, Worker
    PROVE  IndInv'
<1> USE DEF IndInv, TypeOK, SignalMatchesThresholds, OneSignalPerShortage,
            ReadyToSignal, settings, flags
<1>1. CASE LoopTop
  BY <1>1 DEF LoopTop, AfterTop, Band
<1>2. CASE Lock
  BY <1>2 DEF Lock, Band
<1>3. CASE Poll
  BY <1>3, PollInv
<1>4. CASE CriticalSignalled
  <2>1. TypeOK'
    BY <1>4 DEF CriticalSignalled
  <2>2. SignalMatchesThresholds' /\ OneSignalPerShortage' /\ ReadyToSignal'
    BY <1>4 DEF CriticalSignalled
  <2>3. QED
    BY <2>1, <2>2
<1>5. CASE LowSignalled
  BY <1>5 DEF LowSignalled, Band
<1>6. CASE Wake
  <2>1. TypeOK'
    BY <1>6 DEF Wake
  <2>2. SignalMatchesThresholds' /\ OneSignalPerShortage' /\ ReadyToSignal'
    BY <1>6 DEF Wake
  <2>3. QED
    BY <2>1, <2>2
<1>7. QED
  BY <1>1, <1>2, <1>3, <1>4, <1>5, <1>6 DEF Worker

LEMMA NextInv == IndInv /\ [Next]_vars => IndInv'
<1> SUFFICES ASSUME IndInv, [Next]_vars PROVE IndInv'
  OBVIOUS
<1>1. CASE Worker
  BY <1>1, WorkerInv
<1> USE DEF IndInv, TypeOK, SignalMatchesThresholds, OneSignalPerShortage,
            ReadyToSignal, settings, flags, MutexFree
<1>2. ASSUME NEW has \in BOOLEAN, SetPath(has) PROVE IndInv'
  BY <1>2 DEF SetPath
<1>3. ASSUME NEW n \in Space, SetLowSpaceThreshold(n) PROVE IndInv'
  BY <1>3 DEF SetLowSpaceThreshold
<1>4. ASSUME NEW n \in Space, SetCriticalSpaceThreshold(n) PROVE IndInv'
  BY <1>4 DEF SetCriticalSpaceThreshold
<1>5. CASE RequestStop
  BY <1>5 DEF RequestStop, Band
<1>6. ASSUME NEW n \in Space \cup {Unreadable}, SpaceChanges(n) PROVE IndInv'
  BY <1>6 DEF SpaceChanges, Band
<1>7. CASE UNCHANGED vars
  BY <1>7 DEF vars, Band
<1>8. QED
  BY <1>1, <1>2, <1>3, <1>4, <1>5, <1>6, <1>7 DEF Next, SetPollPeriod

LEMMA Invariance == Spec => []IndInv
  BY InitInv, NextInv, PTL DEF Spec

\* The worker holds the mutex exactly from its poll to the end of its sleep.
THEOREM TypeCorrect == Spec => []TypeOK
<1>1. IndInv => TypeOK
  BY DEF IndInv
<1>2. QED
  BY <1>1, Invariance, PTL

\* No setter can make a signal under way carry a reading outside its band.
THEOREM SignalsMatch == Spec => []SignalMatchesThresholds
<1>1. IndInv => SignalMatchesThresholds
  BY DEF IndInv
<1>2. QED
  BY <1>1, Invariance, PTL

\* The critical signal, which stops the logger, comes once per shortage.
THEOREM SignalsOnce == Spec => []OneSignalPerShortage
<1>1. IndInv => OneSignalPerShortage
  BY DEF IndInv
<1>2. QED
  BY <1>1, Invariance, PTL
===========================================================================
