----------------------- MODULE UniverseNotifyHandler -----------------------
(***************************************************************************)
(* UniverseMonitor.{h,cpp}: the handler that turns the callbacks of one    *)
(* universe's sACN merge receiver into rows of two logs, "sources" and     *)
(* "data".  The library calls it from its receive thread, one callback at  *)
(* a time.  The library's own state (who is live, what the slots merge to) *)
(* is external, modelled from what the callbacks read of it.               *)
(***************************************************************************)
EXTENDS Integers, Sequences, FiniteSets

CONSTANTS
    Cids,               \* the UUIDs that sources may carry
    Infos,              \* records [ip, port, name]: the rest of a source
    Slots,              \* the DMX addresses of the universe
    Levels,             \* a level with its priority
    NoOwner, NoLevel,   \* an address nobody drives
    MaxSourceRows,      \* no new event once the source log has this many rows
    MaxDataRows         \* ... or the data log this many

ASSUME NoOwnerAssumption == NoOwner \notin Cids
ASSUME SlotsAssumption == Slots # {}
ASSUME BoundAssumption == MaxSourceRows \in Nat /\ MaxDataRows \in Nat

VARIABLES
    live,               \* library: the tracked sources, a function of CIDs
    merged,             \* library: the merge result, a datum for each slot
    sampling,           \* library: the sampling period has not ended
    pending,            \* library: callbacks still to make for this event
    lost,               \* library: the lostSources argument of that event
    pc,                 \* receive thread: between callbacks or inside one
    toLog,              \* sources the callback's loop has yet to visit
    lastSources,        \* handler: lastSources_
    lastData,           \* handler: lastData_
    cidIpAddr,          \* handler: cidIpAddrMap_
    abbreviations,      \* handler: abbreviationMap_, as ordinals
    sourceLog,          \* rows handed to sourceLogger_
    dataLog             \* rows handed to dataLogger_

library == <<live, merged, sampling, pending, lost>>
handler == <<lastSources, lastData, cidIpAddr, abbreviations>>
logs == <<sourceLog, dataLog>>
vars == <<library, pc, toLog, handler, logs>>

Naming == INSTANCE OrdinalNames WITH names <- abbreviations

Datum == [level : Levels, owner : Cids]
Unsourced == [level |-> NoLevel, owner |-> NoOwner]

\* What a merge of the live sources may come to: every slot is driven by one
\* of them or by nobody.
MergesOf(sources) ==
    [Slots -> [level : Levels, owner : DOMAIN sources] \cup {Unsourced}]

\* ComparableSources: the active sources with all that GetSource says of them.
ComparableSources ==
    {[cid |-> c, info |-> live[c]] : c \in DOMAIN live}

Init ==
    /\ live = [c \in {} |-> [ip |-> 0]]
    /\ merged = [s \in Slots |-> Unsourced]
    /\ sampling = TRUE
    /\ pending = <<>>
    /\ lost = {}
    /\ pc = "idle"
    /\ toLog = {}
    /\ lastSources = {}
    /\ lastData = <<>>      \* all zero: a merge never yields a source with
                            \* priority 0, so it differs from every merge
    /\ cidIpAddr = [c \in {} |-> 0]
    /\ abbreviations = [c \in {} |-> 0]
    /\ sourceLog = <<>>
    /\ dataLog = <<>>

-----------------------------------------------------------------------------
(***************************************************************************)
(* The library's events.                                                   *)
(***************************************************************************)

Quiet == pc = "idle" /\ pending = <<>>

CanEvent ==
    /\ Quiet
    /\ Len(sourceLog) < MaxSourceRows
    /\ Len(dataLog) < MaxDataRows

\* The sampling period ends and its merge result is passed on.
SamplingEnds ==
    /\ CanEvent
    /\ sampling
    /\ sampling' = FALSE
    /\ pending' = <<"merged">>
    /\ UNCHANGED <<live, merged, lost, pc, toLog, handler, logs>>

\* A packet of source c, new or known, changes what is merged.
PacketReceived(c, info) ==
    /\ CanEvent
    /\ live' = [d \in DOMAIN live \cup {c} |-> IF d = c THEN info ELSE live[d]]
    /\ merged' \in MergesOf(live')
    /\ pending' = IF sampling THEN <<>> ELSE <<"merged">>
    /\ UNCHANGED <<sampling, lost, pc, toLog, handler, logs>>

\* Sources time out or terminate.  The merge result changes with them; the two
\* callbacks of this event come in either order.
SourcesLost(gone) ==
    /\ CanEvent
    /\ gone # {}
    /\ live' = [d \in DOMAIN live \ gone |-> live[d]]
    /\ merged' \in MergesOf(live')
    /\ lost' = {[cid |-> c, info |-> live[c]] : c \in gone}
    /\ pending' \in IF sampling
                    THEN {<<"lost">>}
                    ELSE {<<"merged", "lost">>, <<"lost", "merged">>}
    /\ UNCHANGED <<sampling, pc, toLog, handler, logs>>

-----------------------------------------------------------------------------
(***************************************************************************)
(* HandleMergedData.                                                       *)
(***************************************************************************)

SourceRow(state, source, ip) ==
    [state |-> state,
     marker |-> Naming!NameFor(abbreviations, source.cid),
     cid |-> source.cid,
     ip |-> ip,
     name |-> source.info.name]

\* Faulty comparisons: one leaves the CID out, one looks at nothing else.
NewSourcesByInfo ==
    {s \in ComparableSources : \A t \in lastSources : t.info # s.info}
NewSourcesByCid ==
    {s \in ComparableSources : \A t \in lastSources : t.cid # s.cid}

\* The comparison with lastSources_: the loop visits the sources that are not
\* in it.  When nothing changed there are none.
NewSources == ComparableSources \ lastSources

HandleMergedData ==
    /\ pc = "idle"
    /\ pending # <<>> /\ Head(pending) = "merged"
    /\ pc' = "merged"
    /\ toLog' = NewSources
    /\ UNCHANGED <<library, handler, logs>>

\* One round of the loop: announce a source, and remember where it is.
LogNewSource(source) ==
    /\ pc = "merged"
    /\ source \in toLog
    /\ LET cid == source.cid
           ip == source.info.ip
           action == IF cid \in DOMAIN cidIpAddr THEN "moved" ELSE "started"
       IN  /\ sourceLog' = Append(sourceLog, SourceRow(action, source, ip))
           /\ cidIpAddr' = [c \in DOMAIN cidIpAddr \cup {cid} |->
                               IF c = cid THEN ip ELSE cidIpAddr[c]]
           /\ abbreviations' = Naming!WithName(abbreviations, cid)
    /\ toLog' = toLog \ {source}
    /\ UNCHANGED <<library, pc, lastSources, lastData, dataLog>>

\* The row's marker for the source that drives a slot.
OwnerName(owner) ==
    IF owner = NoOwner THEN 0 ELSE Naming!NameFor(abbreviations, owner)

\* "after" is not in the file: how many source rows were logged before it.
DataRow ==
    [slots |-> [s \in Slots |-> [level |-> merged[s].level,
                                 marker |-> OwnerName(merged[s].owner)]],
     after |-> Len(sourceLog)]

\* A faulty lastSources_ that only grows.
EverySourceSoFar == lastSources \cup ComparableSources

SourcesToRemember == ComparableSources

\* Faulty comparisons: of the levels alone, or none.
LevelsChanged ==
    lastData = <<>> \/ \E s \in Slots : merged[s].level # lastData[s].level
DataReceived == TRUE

DataChanged == merged # lastData

\* After the loop: remember the sources, and log the data if it changed.  Its
\* calls of abbreviationForUuid find every active source named by now (see
\* ActiveSourcesNamed), so they add nothing to the map.
CompareData ==
    /\ pc = "merged"
    /\ toLog = {}
    /\ lastSources' = SourcesToRemember
    /\ dataLog' = IF DataChanged THEN Append(dataLog, DataRow) ELSE dataLog
    /\ lastData' = merged
    /\ pc' = "idle"
    /\ pending' = Tail(pending)
    /\ UNCHANGED <<live, merged, sampling, lost, toLog, cidIpAddr,
                   abbreviations, sourceLog>>

-----------------------------------------------------------------------------
(***************************************************************************)
(* HandleSourcesLost.                                                      *)
(***************************************************************************)

HandleSourcesLost ==
    /\ pc = "idle"
    /\ pending # <<>> /\ Head(pending) = "lost"
    /\ pc' = "lost"
    /\ toLog' = lost
    /\ UNCHANGED <<library, handler, logs>>

\* A faulty round that leaves the address of a lost source in the map.
AddressKept(cid) == cidIpAddr

AddressErased(cid) == [c \in DOMAIN cidIpAddr \ {cid} |-> cidIpAddr[c]]

\* One round of its loop: the address is the one last logged for the source.
LogLostSource(source) ==
    /\ pc = "lost"
    /\ source \in toLog
    /\ LET cid == source.cid
           ip == IF cid \in DOMAIN cidIpAddr THEN cidIpAddr[cid] ELSE "Unknown"
       IN  /\ sourceLog' = Append(sourceLog, SourceRow("stopped", source, ip))
           /\ cidIpAddr' = AddressErased(cid)
           /\ abbreviations' = Naming!WithName(abbreviations, cid)
    /\ toLog' = toLog \ {source}
    /\ UNCHANGED <<library, pc, lastSources, lastData, dataLog>>

\* The callback returns; the library drops the list it passed.
LostSourcesLogged ==
    /\ pc = "lost"
    /\ toLog = {}
    /\ pc' = "idle"
    /\ pending' = Tail(pending)
    /\ lost' = {}
    /\ UNCHANGED <<live, merged, sampling, toLog, handler, logs>>

-----------------------------------------------------------------------------

Next ==
    \/ SamplingEnds
    \/ \E c \in Cids, info \in Infos : PacketReceived(c, info)
    \/ \E gone \in SUBSET DOMAIN live : SourcesLost(gone)
    \/ HandleMergedData
    \/ \E source \in toLog : LogNewSource(source)
    \/ CompareData
    \/ HandleSourcesLost
    \/ \E source \in toLog : LogLostSource(source)
    \/ LostSourcesLogged

Spec == Init /\ [][Next]_vars

-----------------------------------------------------------------------------

SourceRows ==
    [state : {"started", "moved", "stopped"}, marker : Nat \ {0}, cid : Cids,
     ip : {info.ip : info \in Infos} \cup {"Unknown"},
     name : {info.name : info \in Infos}]

DataRows ==
    [slots : [Slots -> [level : Levels \cup {NoLevel}, marker : Nat]],
     after : Nat]

Sources == [cid : Cids, info : Infos]

\* The shape of the state.  Between two callbacks the merge result is owned by
\* live sources only, so every lookup of an owner's name finds one.
TypeOK ==
    /\ DOMAIN live \subseteq Cids /\ live \in [DOMAIN live -> Infos]
    /\ merged \in MergesOf(live)
    /\ sampling \in BOOLEAN
    /\ pending \in {<<>>, <<"merged">>, <<"lost">>,
                    <<"merged", "lost">>, <<"lost", "merged">>}
    /\ lost \in SUBSET Sources
    /\ pc \in {"idle", "merged", "lost"}
    /\ pc # "idle" => pending # <<>> /\ Head(pending) = pc
    /\ toLog \in SUBSET Sources
    /\ lastSources \in SUBSET Sources
    /\ lastData \in {<<>>} \cup [Slots -> Datum \cup {Unsourced}]
    /\ DOMAIN cidIpAddr \subseteq Cids
    /\ cidIpAddr \in [DOMAIN cidIpAddr -> {info.ip : info \in Infos}]
    /\ DOMAIN abbreviations \subseteq Cids
    /\ abbreviations \in [DOMAIN abbreviations -> Nat \ {0}]
    /\ sourceLog \in Seq(SourceRows)
    /\ dataLog \in Seq(DataRows)

\* When the data is compared every active source has a marker that the source
\* log has announced: HandleMergedData logs sources before data, and skips only
\* those lastSources_ says it has logged before.
ActiveSourcesNamed ==
    pc = "merged" /\ toLog = {} =>
        \A c \in DOMAIN live :
            /\ c \in DOMAIN abbreviations
            /\ \E i \in DOMAIN sourceLog :
                  /\ sourceLog[i].cid = c
                  /\ sourceLog[i].marker = abbreviations[c]

\* Over the whole source log a marker stands for one CID and a CID has one
\* marker, through loss and return of the source and its renaming.
MarkersUnambiguous ==
    \A i, j \in DOMAIN sourceLog :
        sourceLog[i].marker = sourceLog[j].marker
            <=> sourceLog[i].cid = sourceLog[j].cid

\* Source row i announces the source of this marker, and up to row n no later
\* row says that it stopped.
AnnouncedAt(marker, i, n) ==
    /\ sourceLog[i].marker = marker
    /\ \A j \in i .. n :
          sourceLog[j].marker = marker => sourceLog[j].state # "stopped"

\* The data log never attributes an address to a source which the source log,
\* as it stood when the data row was written, has not announced or has already
\* said to be gone.
DataRowsAttributed ==
    \A k \in DOMAIN dataLog : \A s \in Slots :
        LET marker == dataLog[k].slots[s].marker
            after == dataLog[k].after
        IN  marker # 0 => \E i \in 1 .. after : AnnouncedAt(marker, i, after)

\* The rows of the source log that are about c, and the last of them.
RowsOf(c) == {i \in DOMAIN sourceLog : sourceLog[i].cid = c}
LastRow(c) ==
    sourceLog[CHOOSE i \in RowsOf(c) : \A j \in RowsOf(c) : j <= i]

\* Between events, replaying the source log gives exactly the live sources,
\* each with its current address and name.
LogTracksSources ==
    Quiet /\ ~sampling =>
        \A c \in Cids :
            IF c \in DOMAIN live
            THEN /\ RowsOf(c) # {}
                 /\ LastRow(c).state # "stopped"
                 /\ LastRow(c).ip = live[c].ip
                 /\ LastRow(c).name = live[c].name
            ELSE RowsOf(c) # {} => LastRow(c).state = "stopped"

\* Between events the last data row is the merge result, with each marker read
\* back through the source log.
DataLogTracksMerge ==
    Quiet /\ ~sampling =>
        /\ dataLog # <<>>
        /\ \A s \in Slots :
              LET datum == dataLog[Len(dataLog)].slots[s]
              IN  /\ datum.level = merged[s].level
                  /\ IF merged[s].owner = NoOwner
                     THEN datum.marker = 0
                     ELSE \E i \in DOMAIN sourceLog :
                             /\ sourceLog[i].marker = datum.marker
                             /\ sourceLog[i].cid = merged[s].owner

\* "This program logs changes": a new data row differs from the one before.
OnlyChangesLogged ==
    [][\A n \in DOMAIN dataLog :
          n = Len(dataLog) /\ dataLog' # dataLog
              => dataLog'[n + 1].slots # dataLog[n].slots]_vars

Reported ==
    [c \in Cids |-> IF RowsOf(c) = {} THEN "never" ELSE LastRow(c).state]

Ledger == INSTANCE SourceLedger WITH reported <- Reported

\* The source log follows each source's life: nothing moves before it started
\* or after it stopped, and nothing starts twice without a stop between, in
\* whatever order the library reports a loss and the merge that follows it.
FollowsLifecycle == Ledger!Spec
=============================================================================
