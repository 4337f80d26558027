-------------------- MODULE UniverseNotifyHandlerProofs --------------------
(***************************************************************************)
(* The two logs of a universe can be read together, for any number of      *)
(* sources, slots and levels and however long the logs grow.               *)
(***************************************************************************)
EXTENDS UniverseNotifyHandler, FiniteSetTheorems, SequenceTheorems, TLAPS

\* Names are given out by counting, so a new one is above all the others.
NamesInv ==
    /\ IsFiniteSet(DOMAIN abbreviations)
    /\ \A c \in DOMAIN abbreviations :
          abbreviations[c] <= Cardinality(DOMAIN abbreviations)
    /\ \A c, d \in DOMAIN abbreviations :
          abbreviations[c] = abbreviations[d] => c = d

\* Every row carries the name its source has in the map.
RowsInv ==
    \A i \in DOMAIN sourceLog :
        /\ sourceLog[i].cid \in DOMAIN abbreviations
        /\ sourceLog[i].marker = abbreviations[sourceLog[i].cid]

\* What the library's callbacks may still bring: while it samples, no merge;
\* sources reported lost are not live.
LibraryInv ==
    /\ sampling => lastSources = {} /\ pending \in {<<>>, <<"lost">>}
    /\ pending \in {<<>>, <<"merged">>} => lost = {}
    /\ \A t \in lost : t.cid \notin DOMAIN live

LoopInv ==
    /\ pc = "idle" => toLog = {}
    /\ pc = "lost" => toLog \subseteq lost
    /\ pc = "merged" => toLog \subseteq ComparableSources

\* The last row about c does not say that it stopped.
Announced(c) ==
    /\ c \in DOMAIN abbreviations
    /\ \E i \in 1 .. Len(sourceLog) :
          AnnouncedAt(abbreviations[c], i, Len(sourceLog))

\* lastSources_ can be trusted: a source in it that is live has been announced.
\* A source that left is forgotten by the merge that follows the loss, so it
\* cannot come back and find itself remembered.
AnnouncedInv ==
    /\ \A t \in lastSources : t.cid \in DOMAIN live => Announced(t.cid)
    /\ pending \in {<<>>, <<"lost">>} =>
          \A t \in lastSources : t.cid \in DOMAIN live
    /\ pc = "merged" =>
          \A s \in ComparableSources \ toLog : Announced(s.cid)

DataInv ==
    /\ \A k \in DOMAIN dataLog : dataLog[k].after <= Len(sourceLog)
    /\ DataRowsAttributed

IndInv ==
    /\ TypeOK
    /\ NamesInv
    /\ RowsInv
    /\ LibraryInv
    /\ LoopInv
    /\ AnnouncedInv
    /\ DataInv

-----------------------------------------------------------------------------
(***************************************************************************)
(* What the two loops have in common: a row is appended for a source that  *)
(* gets a name if it has none.                                             *)
(***************************************************************************)

\* A row for source, in state.
RowAdded(state, source) ==
    /\ \E ip \in {info.ip : info \in Infos} \cup {"Unknown"} :
          sourceLog' = Append(sourceLog, SourceRow(state, source, ip))
    /\ abbreviations' = Naming!WithName(abbreviations, source.cid)

LEMMA SameCardinality == \A S : Naming!Cardinality(S) = Cardinality(S)
  BY DEF Naming!Cardinality, Cardinality

LEMMA NamesGrow ==
    ASSUME TypeOK, NamesInv, NEW cid \in Cids,
           abbreviations' = Naming!WithName(abbreviations, cid)
    PROVE  /\ NamesInv'
           /\ DOMAIN abbreviations' = DOMAIN abbreviations \cup {cid}
           /\ \A c \in DOMAIN abbreviations :
                 abbreviations'[c] = abbreviations[c]
           /\ abbreviations'[cid] = Naming!NameFor(abbreviations, cid)
           /\ abbreviations' \in [DOMAIN abbreviations' -> Nat \ {0}]
<1> DEFINE D == DOMAIN abbreviations
           n == Cardinality(D)
<1>1. /\ IsFiniteSet(D) /\ n \in Nat
      /\ \A c \in D : abbreviations[c] \in Nat \ {0} /\ abbreviations[c] <= n
      /\ \A c, d \in D : abbreviations[c] = abbreviations[d] => c = d
  BY FS_CardinalityType DEF NamesInv, TypeOK
<1>2. /\ DOMAIN abbreviations' = D \cup {cid}
      /\ \A c \in D : abbreviations'[c] = abbreviations[c]
      /\ abbreviations'[cid] = Naming!NameFor(abbreviations, cid)
  BY DEF Naming!WithName, Naming!NameFor
<1>3. CASE cid \in D
  <2>1. D \cup {cid} = D
    BY <1>3
  <2>2. abbreviations' = abbreviations
    BY <1>1, <2>1, <1>3 DEF Naming!WithName, Naming!NameFor, TypeOK
  <2>3. QED
    BY <1>2, <2>2 DEF NamesInv, TypeOK
<1>4. CASE cid \notin D
  <2>1. abbreviations'[cid] = n + 1
    BY <1>2, <1>4, SameCardinality DEF Naming!NameFor, Naming!NextName
  <2>2. IsFiniteSet(D \cup {cid}) /\ Cardinality(D \cup {cid}) = n + 1
    BY <1>1, <1>4, FS_AddElement
  <2>3. NamesInv'
    BY <1>1, <1>2, <2>1, <2>2 DEF NamesInv
  <2>4. abbreviations' = [c \in D \cup {cid} |-> abbreviations'[c]]
    BY <1>2 DEF Naming!WithName
  <2>5. \A c \in D \cup {cid} : abbreviations'[c] \in Nat \ {0}
    BY <1>1, <1>2, <2>1
  <2>6. QED
    BY <1>2, <2>3, <2>4, <2>5
<1>5. QED
  BY <1>3, <1>4

LEMMA RowAddedFacts ==
    ASSUME TypeOK, NamesInv, RowsInv,
           NEW state \in {"started", "moved", "stopped"},
           NEW source \in Sources, RowAdded(state, source)
    PROVE  /\ sourceLog' \in Seq(SourceRows)
           /\ Len(sourceLog') = Len(sourceLog) + 1
           /\ \A i \in 1 .. Len(sourceLog) : sourceLog'[i] = sourceLog[i]
           /\ sourceLog'[Len(sourceLog) + 1].state = state
           /\ sourceLog'[Len(sourceLog) + 1].cid = source.cid
           /\ sourceLog'[Len(sourceLog) + 1].marker = abbreviations'[source.cid]
           /\ RowsInv'
<1>1. PICK ip \in {info.ip : info \in Infos} \cup {"Unknown"} :
         sourceLog' = Append(sourceLog, SourceRow(state, source, ip))
  BY DEF RowAdded
<1> DEFINE row == SourceRow(state, source, ip)
<1>2. /\ source.cid \in Cids
      /\ source.info \in Infos
  BY DEF Sources
<1>3. /\ abbreviations'[source.cid] = Naming!NameFor(abbreviations, source.cid)
      /\ DOMAIN abbreviations' = DOMAIN abbreviations \cup {source.cid}
      /\ \A c \in DOMAIN abbreviations : abbreviations'[c] = abbreviations[c]
      /\ abbreviations'[source.cid] \in Nat \ {0}
  BY <1>2, NamesGrow DEF RowAdded
<1>4. /\ row \in SourceRows
      /\ row.state = state /\ row.cid = source.cid
      /\ row.marker = abbreviations'[source.cid]
  BY <1>2, <1>3 DEF SourceRow, SourceRows
<1>5. sourceLog \in Seq(SourceRows)
  BY DEF TypeOK
<1> HIDE DEF row
<1>6. /\ sourceLog' \in Seq(SourceRows)
      /\ Len(sourceLog') = Len(sourceLog) + 1
      /\ \A i \in 1 .. Len(sourceLog) : sourceLog'[i] = sourceLog[i]
      /\ sourceLog'[Len(sourceLog) + 1] = row
  BY <1>1, <1>4, <1>5 DEF row
<1>7. RowsInv'
  BY <1>3, <1>4, <1>5, <1>6 DEF RowsInv
<1>8. QED
  BY <1>4, <1>6, <1>7

\* Another source's row leaves what was announced announced.
LEMMA StaysAnnounced ==
    ASSUME TypeOK, NamesInv, RowsInv,
           NEW state \in {"started", "moved", "stopped"},
           NEW source \in Sources, RowAdded(state, source),
           NEW c \in Cids, Announced(c),
           state # "stopped" \/ source.cid # c
    PROVE  Announced(c)'
<1>1. source.cid \in Cids
  BY DEF Sources
<1>2. /\ NamesInv'
      /\ DOMAIN abbreviations' = DOMAIN abbreviations \cup {source.cid}
      /\ \A d \in DOMAIN abbreviations : abbreviations'[d] = abbreviations[d]
  BY <1>1, NamesGrow DEF RowAdded
<1>3. PICK i \in 1 .. Len(sourceLog) :
         AnnouncedAt(abbreviations[c], i, Len(sourceLog))
  BY DEF Announced
<1>4. c \in DOMAIN abbreviations /\ abbreviations'[c] = abbreviations[c]
  BY <1>2 DEF Announced
<1>5. Len(sourceLog) \in Nat
  BY DEF TypeOK
<1> DEFINE n == Len(sourceLog) + 1
<1>6. /\ Len(sourceLog') = n
      /\ \A j \in 1 .. Len(sourceLog) : sourceLog'[j] = sourceLog[j]
      /\ sourceLog'[n].state = state
      /\ sourceLog'[n].marker = abbreviations'[source.cid]
  BY RowAddedFacts
<1>7. sourceLog'[n].marker = abbreviations'[c] => sourceLog'[n].state # "stopped"
  BY <1>2, <1>4, <1>6 DEF NamesInv
<1>8. /\ i \in 1 .. n
      /\ sourceLog'[i].marker = abbreviations'[c]
      /\ \A j \in i .. n : sourceLog'[j].marker = abbreviations'[c]
                              => sourceLog'[j].state # "stopped"
  <2>1. i \in 1 .. n /\ sourceLog'[i].marker = abbreviations'[c]
    BY <1>3, <1>4, <1>5, <1>6 DEF AnnouncedAt
  <2>2. ASSUME NEW j \in i .. n, sourceLog'[j].marker = abbreviations'[c]
        PROVE  sourceLog'[j].state # "stopped"
    <3>1. CASE j = n
      BY <1>7, <2>2, <3>1
    <3>2. CASE j # n
      <4>1. j \in i .. Len(sourceLog) /\ j \in 1 .. Len(sourceLog)
        BY <1>5, <2>2, <3>2
      <4>2. sourceLog'[j] = sourceLog[j]
        BY <1>6, <4>1
      <4>3. sourceLog[j].marker = abbreviations[c]
        BY <1>4, <2>2, <4>2
      <4>4. QED
        BY <1>3, <4>1, <4>2, <4>3 DEF AnnouncedAt
    <3>3. QED
      BY <3>1, <3>2
  <2>3. QED
    BY <2>1, <2>2
<1>9. AnnouncedAt(abbreviations[c], i, Len(sourceLog))'
  BY <1>6, <1>8 DEF AnnouncedAt
<1>10. i \in 1 .. Len(sourceLog') /\ c \in DOMAIN abbreviations'
  BY <1>2, <1>4, <1>6, <1>8
<1>11. QED
  BY <1>9, <1>10 DEF Announced

\* A source whose row has just been added, and is no "stopped", is announced.
LEMMA BecomesAnnounced ==
    ASSUME TypeOK, NamesInv, RowsInv,
           NEW state \in {"started", "moved"},
           NEW source \in Sources, RowAdded(state, source)
    PROVE  Announced(source.cid)'
<1>1. source.cid \in DOMAIN abbreviations'
  BY NamesGrow DEF RowAdded, Sources
<1> DEFINE n == Len(sourceLog) + 1
<1>2. /\ Len(sourceLog') = n /\ n \in Nat \ {0}
      /\ sourceLog'[n].state = state
      /\ sourceLog'[n].marker = abbreviations'[source.cid]
  BY RowAddedFacts DEF TypeOK
<1>3. \A j \in n .. n : j = n
  BY <1>2
<1>4. QED
  BY <1>1, <1>2, <1>3 DEF Announced, AnnouncedAt

\* Data rows refer to a prefix of the source log, which never changes.
LEMMA DataInvKept ==
    ASSUME TypeOK, DataInv, UNCHANGED dataLog,
           Len(sourceLog') >= Len(sourceLog), Len(sourceLog') \in Nat,
           \A i \in 1 .. Len(sourceLog) : sourceLog'[i] = sourceLog[i]
    PROVE  DataInv'
<1>1. Len(sourceLog) \in Nat /\ \A k \in DOMAIN dataLog :
         dataLog[k].after \in Nat /\ dataLog[k].after <= Len(sourceLog)
  <2>1. sourceLog \in Seq(SourceRows) /\ dataLog \in Seq(DataRows)
    BY DEF TypeOK
  <2>2. \A k \in DOMAIN dataLog : dataLog[k] \in DataRows
    BY <2>1
  <2>3. \A k \in DOMAIN dataLog : dataLog[k].after \in Nat
    BY <2>2 DEF DataRows
  <2>4. QED
    BY <2>1, <2>3 DEF DataInv
<1>2. \A k \in DOMAIN dataLog' : dataLog'[k].after <= Len(sourceLog')
  BY <1>1
<1>3. ASSUME NEW k \in DOMAIN dataLog', NEW slot \in Slots,
             dataLog'[k].slots[slot].marker # 0
      PROVE  \E i \in 1 .. dataLog'[k].after :
                AnnouncedAt(dataLog[k].slots[slot].marker, i, dataLog[k].after)'
  <2>1. PICK i \in 1 .. dataLog[k].after :
           AnnouncedAt(dataLog[k].slots[slot].marker, i, dataLog[k].after)
    BY <1>3 DEF DataInv, DataRowsAttributed
  <2>2. \A j \in i .. dataLog[k].after : sourceLog'[j] = sourceLog[j]
    BY <1>1, <1>3, <2>1
  <2>3. AnnouncedAt(dataLog[k].slots[slot].marker, i, dataLog[k].after)'
    BY <1>1, <1>3, <2>1, <2>2 DEF AnnouncedAt
  <2>4. QED
    BY <2>1, <2>3
<1>4. QED
  BY <1>2, <1>3 DEF DataInv, DataRowsAttributed

-----------------------------------------------------------------------------
(***************************************************************************)
(* The events of the library: the handler and its logs do not change.      *)
(***************************************************************************)

LEMMA PendingFacts ==
    /\ Head(<<"merged">>) = "merged" /\ Tail(<<"merged">>) = <<>>
    /\ Head(<<"lost">>) = "lost" /\ Tail(<<"lost">>) = <<>>
    /\ Head(<<"merged", "lost">>) = "merged"
    /\ Tail(<<"merged", "lost">>) = <<"lost">>
    /\ Head(<<"lost", "merged">>) = "lost"
    /\ Tail(<<"lost", "merged">>) = <<"merged">>
    /\ <<"merged">> # <<>> /\ <<"lost">> # <<>> /\ <<"merged">> # <<"lost">>
    /\ <<"merged", "lost">> \notin {<<>>, <<"merged">>, <<"lost">>}
    /\ <<"lost", "merged">> \notin {<<>>, <<"merged">>, <<"lost">>}
  OBVIOUS

LEMMA ComparableSourcesType ==
    ASSUME TypeOK
    PROVE  /\ ComparableSources \subseteq Sources
           /\ \A s \in ComparableSources : s.cid \in DOMAIN live
           /\ \A s \in ComparableSources : s.info = live[s.cid]
  BY DEF TypeOK, ComparableSources, Sources

\* The parts of the invariant that only speak of the handler.
LEMMA HandlerKept ==
    ASSUME IndInv, UNCHANGED <<handler, logs>>
    PROVE  /\ NamesInv' /\ RowsInv' /\ DataInv'
           /\ \A c \in Cids : Announced(c) => Announced(c)'
<1> USE DEF handler, logs
<1>1. NamesInv' /\ RowsInv'
  BY DEF IndInv, NamesInv, RowsInv
<1>2. DataInv'
  BY DEF IndInv, DataInv, DataRowsAttributed, AnnouncedAt
<1>3. \A c \in Cids : Announced(c) => Announced(c)'
  BY DEF Announced, AnnouncedAt
<1>4. QED
  BY <1>1, <1>2, <1>3

LEMMA SamplingEndsInv ==
    ASSUME IndInv, SamplingEnds
    PROVE  IndInv'
<1> USE DEF SamplingEnds, CanEvent, Quiet, IndInv
<1>1. /\ NamesInv' /\ RowsInv' /\ DataInv'
      /\ \A c \in Cids : Announced(c) => Announced(c)'
  BY HandlerKept
<1>2. TypeOK'
  BY DEF TypeOK, handler, logs, MergesOf, Sources
<1>3. LibraryInv'
  BY PendingFacts DEF LibraryInv, handler
<1>4. LoopInv'
  BY DEF LoopInv
<1>5. AnnouncedInv'
  BY PendingFacts DEF AnnouncedInv, LibraryInv, handler
<1>6. QED
  BY <1>1, <1>2, <1>3, <1>4, <1>5

LEMMA PacketReceivedInv ==
    ASSUME IndInv, NEW c \in Cids, NEW info \in Infos, PacketReceived(c, info)
    PROVE  IndInv'
<1> USE DEF PacketReceived, CanEvent, Quiet, IndInv
<1>1. /\ NamesInv' /\ RowsInv' /\ DataInv'
      /\ \A d \in Cids : Announced(d) => Announced(d)'
  BY HandlerKept
<1>2. TypeOK'
  <2>1. /\ DOMAIN live' = DOMAIN live \cup {c}
        /\ live' \in [DOMAIN live' -> Infos]
    BY DEF TypeOK
  <2>2. merged' \in MergesOf(live)'
    BY DEF MergesOf
  <2>3. QED
    BY <2>1, <2>2 DEF TypeOK, handler, logs
<1>3. LibraryInv'
  BY PendingFacts DEF LibraryInv, handler
<1>4. LoopInv'
  BY DEF LoopInv
<1>5. AnnouncedInv'
  <2>1. \A t \in lastSources : t.cid \in Cids /\ Announced(t.cid)
    BY DEF AnnouncedInv, TypeOK, Sources
  <2>2. pending' = <<"lost">> => FALSE
    BY PendingFacts
  <2>3. pending' = <<>> => lastSources' = {}
    BY PendingFacts DEF LibraryInv, handler
  <2>4. QED
    BY <1>1, <2>1, <2>2, <2>3 DEF AnnouncedInv, handler
<1>6. QED
  BY <1>1, <1>2, <1>3, <1>4, <1>5

LEMMA SourcesLostInv ==
    ASSUME IndInv, NEW gone \in SUBSET DOMAIN live, SourcesLost(gone)
    PROVE  IndInv'
<1> USE DEF SourcesLost, CanEvent, Quiet, IndInv
<1>1. /\ NamesInv' /\ RowsInv' /\ DataInv'
      /\ \A d \in Cids : Announced(d) => Announced(d)'
  BY HandlerKept
<1>2. pending' \in {<<"lost">>, <<"merged", "lost">>, <<"lost", "merged">>}
  OBVIOUS
<1>3. TypeOK'
  <2>1. /\ DOMAIN live' = DOMAIN live \ gone
        /\ live' \in [DOMAIN live' -> Infos]
    BY DEF TypeOK
  <2>2. merged' \in MergesOf(live)'
    BY DEF MergesOf
  <2>3. lost' \in SUBSET Sources
    BY DEF TypeOK, Sources
  <2>4. QED
    BY <1>2, <2>1, <2>2, <2>3 DEF TypeOK, handler, logs
<1>4. LibraryInv'
  BY <1>2, PendingFacts DEF LibraryInv, handler
<1>5. LoopInv'
  BY DEF LoopInv
<1>6. AnnouncedInv'
  <2>1. \A t \in lastSources : t.cid \in Cids
    BY DEF TypeOK, Sources
  <2>2. pending' = <<"lost">> => lastSources' = {}
    BY PendingFacts DEF LibraryInv, handler
  <2>3. pending' # <<>> /\ pc' # "merged"
    BY <1>2, PendingFacts
  <2>4. QED
    BY <1>1, <2>1, <2>2, <2>3 DEF AnnouncedInv, handler
<1>7. QED
  BY <1>1, <1>3, <1>4, <1>5, <1>6

-----------------------------------------------------------------------------
(***************************************************************************)
(* HandleMergedData.                                                       *)
(***************************************************************************)

LEMMA HandleMergedDataInv ==
    ASSUME IndInv, HandleMergedData
    PROVE  IndInv'
<1> USE DEF HandleMergedData, IndInv, library
<1>1. /\ NamesInv' /\ RowsInv' /\ DataInv'
      /\ \A d \in Cids : Announced(d) => Announced(d)'
  BY HandlerKept
<1>2. toLog' \subseteq ComparableSources
  BY DEF NewSources
<1>3. TypeOK'
  BY <1>2, ComparableSourcesType DEF TypeOK, handler, logs, MergesOf, Sources
<1>4. LibraryInv'
  BY DEF LibraryInv, handler
<1>5. LoopInv'
  BY <1>2 DEF LoopInv, ComparableSources
<1>6. AnnouncedInv'
  <2>1. \A t \in lastSources : t.cid \in Cids
    BY DEF TypeOK, Sources
  <2>2. ComparableSources' = ComparableSources
    BY DEF ComparableSources
  <2>3. \A s \in ComparableSources \ toLog' :
           s \in lastSources /\ s.cid \in DOMAIN live
    BY ComparableSourcesType DEF NewSources
  <2>4. QED
    BY <1>1, <2>1, <2>2, <2>3 DEF AnnouncedInv, handler
<1>7. QED
  BY <1>1, <1>3, <1>4, <1>5, <1>6

LEMMA LogNewSourceInv ==
    ASSUME IndInv, NEW source \in toLog, LogNewSource(source)
    PROVE  IndInv'
<1> USE DEF IndInv, library
<1>1. source \in Sources /\ source \in ComparableSources
  BY DEF LogNewSource, LoopInv, TypeOK
<1>2. PICK state \in {"started", "moved"} : RowAdded(state, source)
  <2> DEFINE action == IF source.cid \in DOMAIN cidIpAddr THEN "moved"
                                                          ELSE "started"
  <2>1. source.info.ip \in {info.ip : info \in Infos}
    BY <1>1 DEF Sources
  <2>2. sourceLog' = Append(sourceLog, SourceRow(action, source, source.info.ip))
    BY DEF LogNewSource
  <2>3. abbreviations' = Naming!WithName(abbreviations, source.cid)
    BY DEF LogNewSource
  <2>4. QED
    BY <2>1, <2>2, <2>3 DEF RowAdded
<1>3. NamesInv' /\ abbreviations' \in [DOMAIN abbreviations' -> Nat \ {0}]
        /\ DOMAIN abbreviations' = DOMAIN abbreviations \cup {source.cid}
  BY <1>1, <1>2, NamesGrow DEF RowAdded, Sources
<1>4. /\ sourceLog' \in Seq(SourceRows) /\ RowsInv'
      /\ Len(sourceLog') = Len(sourceLog) + 1
      /\ \A i \in 1 .. Len(sourceLog) : sourceLog'[i] = sourceLog[i]
  BY <1>1, <1>2, RowAddedFacts
<1>5. \A c \in Cids : Announced(c) => Announced(c)'
  BY <1>1, <1>2, StaysAnnounced
<1>6. Announced(source.cid)'
  BY <1>1, <1>2, BecomesAnnounced
<1>7. TypeOK'
  <2>1. source.cid \in Cids /\ source.info.ip \in {info.ip : info \in Infos}
    BY <1>1 DEF Sources
  <2>2. /\ DOMAIN cidIpAddr' = DOMAIN cidIpAddr \cup {source.cid}
        /\ cidIpAddr' \in [DOMAIN cidIpAddr' -> {info.ip : info \in Infos}]
    BY <2>1 DEF LogNewSource, TypeOK
  <2>3. toLog' \in SUBSET Sources
    BY DEF LogNewSource, TypeOK
  <2>4. UNCHANGED <<live, merged, sampling, pending, lost, pc, lastSources,
                    lastData, dataLog>>
    BY DEF LogNewSource
  <2>5. QED
    BY <1>3, <1>4, <2>1, <2>2, <2>3, <2>4 DEF TypeOK, MergesOf
<1>8. LibraryInv'
  BY DEF LibraryInv, LogNewSource
<1>9. LoopInv'
  BY DEF LoopInv, LogNewSource, ComparableSources
<1>10. AnnouncedInv'
  <2>1. \A t \in lastSources : t.cid \in Cids
    BY DEF TypeOK, Sources
  <2>2. ComparableSources' = ComparableSources
    BY DEF ComparableSources, LogNewSource
  <2>3. \A s \in ComparableSources : s.cid \in Cids
    BY ComparableSourcesType DEF Sources
  <2>4. \A s \in ComparableSources \ toLog' : Announced(s.cid)'
    BY <1>5, <1>6, <2>3 DEF AnnouncedInv, LogNewSource
  <2>5. UNCHANGED <<live, pending, pc, lastSources>>
    BY DEF LogNewSource
  <2>6. QED
    BY <1>5, <2>1, <2>2, <2>4, <2>5 DEF AnnouncedInv
<1>11. DataInv'
  <2>1. Len(sourceLog) \in Nat /\ UNCHANGED dataLog
    BY DEF TypeOK, LogNewSource
  <2>2. QED
    BY <1>4, <2>1, DataInvKept
<1>12. QED
  BY <1>3, <1>4, <1>7, <1>8, <1>9, <1>10, <1>11

\* Every marker of the data row about to be written has been announced.
LEMMA DataRowFacts ==
    ASSUME IndInv, pc = "merged", toLog = {}
    PROVE  /\ DataRow \in DataRows
           /\ DataRow.after = Len(sourceLog)
           /\ \A s \in Slots : DataRow.slots[s].marker # 0 =>
                 \E i \in 1 .. Len(sourceLog) :
                    AnnouncedAt(DataRow.slots[s].marker, i, Len(sourceLog))
<1> USE DEF IndInv
<1>1. \A c \in DOMAIN live : c \in Cids /\ Announced(c)
  <2>1. ASSUME NEW c \in DOMAIN live PROVE Announced(c)
    <3>1. [cid |-> c, info |-> live[c]] \in ComparableSources \ toLog
      BY DEF ComparableSources
    <3>2. QED
      BY <3>1 DEF AnnouncedInv
  <2>2. QED
    BY <2>1 DEF TypeOK
<1>2. ASSUME NEW s \in Slots
      PROVE  /\ merged[s].level \in Levels \cup {NoLevel}
             /\ merged[s].owner = NoOwner \/ merged[s].owner \in DOMAIN live
  BY DEF TypeOK, MergesOf, Unsourced
<1>3. ASSUME NEW s \in Slots
      PROVE  \/ OwnerName(merged[s].owner) = 0
             \/ /\ merged[s].owner \in DOMAIN live
                /\ OwnerName(merged[s].owner) = abbreviations[merged[s].owner]
                /\ OwnerName(merged[s].owner) \in Nat
  BY <1>1, <1>2 DEF OwnerName, Naming!NameFor, Announced, TypeOK
<1>4. Len(sourceLog) \in Nat
  BY DEF TypeOK
<1>5. DataRow \in DataRows
  <2>1. [s \in Slots |-> [level |-> merged[s].level,
                          marker |-> OwnerName(merged[s].owner)]]
           \in [Slots -> [level : Levels \cup {NoLevel}, marker : Nat]]
    BY <1>2, <1>3
  <2>2. QED
    BY <1>4, <2>1 DEF DataRow, DataRows
<1>6. \A s \in Slots : DataRow.slots[s].marker = OwnerName(merged[s].owner)
  BY DEF DataRow
<1>7. ASSUME NEW s \in Slots, DataRow.slots[s].marker # 0
      PROVE  \E i \in 1 .. Len(sourceLog) :
                AnnouncedAt(DataRow.slots[s].marker, i, Len(sourceLog))
  <2>1. Announced(merged[s].owner)
    BY <1>1, <1>3, <1>6, <1>7
  <2>2. DataRow.slots[s].marker = abbreviations[merged[s].owner]
    BY <1>3, <1>6, <1>7
  <2>3. QED
    BY <2>1, <2>2 DEF Announced
<1>8. QED
  BY <1>5, <1>7 DEF DataRow

LEMMA CompareDataInv ==
    ASSUME IndInv, CompareData
    PROVE  IndInv'
<1> USE DEF IndInv
<1>1. NamesInv' /\ RowsInv' /\ \A c \in Cids : Announced(c) => Announced(c)'
  BY DEF CompareData, NamesInv, RowsInv, Announced, AnnouncedAt
<1>2. /\ pending \in {<<"merged">>, <<"merged", "lost">>}
      /\ pending' \in {<<>>, <<"lost">>}
      /\ pending = <<"merged">> => pending' = <<>>
  BY PendingFacts DEF CompareData, TypeOK
<1>3. TypeOK'
  <2>1. lastSources' \in SUBSET Sources
    BY ComparableSourcesType DEF CompareData, SourcesToRemember
  <2>2. dataLog' \in Seq(DataRows)
    BY DataRowFacts DEF CompareData, TypeOK
  <2>3. lastData' \in {<<>>} \cup [Slots -> Datum \cup {Unsourced}]
    BY DEF CompareData, TypeOK, MergesOf, Datum
  <2>4. QED
    BY <1>2, <2>1, <2>2, <2>3 DEF CompareData, TypeOK, MergesOf
<1>4. LibraryInv'
  BY <1>2, PendingFacts DEF LibraryInv, CompareData
<1>5. LoopInv'
  BY DEF LoopInv, CompareData
<1>6. AnnouncedInv'
  <2>1. \A s \in ComparableSources :
           s.cid \in DOMAIN live /\ s.cid \in Cids /\ Announced(s.cid)
    BY ComparableSourcesType DEF AnnouncedInv, CompareData, Sources
  <2>2. QED
    BY <1>1, <2>1 DEF AnnouncedInv, CompareData, SourcesToRemember
<1>7. DataInv'
  <2>1. CASE dataLog' = dataLog
    BY <2>1 DEF CompareData, DataInv, DataRowsAttributed, AnnouncedAt
  <2>2. CASE dataLog' = Append(dataLog, DataRow)
    <3>1. dataLog \in Seq(DataRows) /\ DataRow \in DataRows
            /\ Len(sourceLog) \in Nat
      BY DataRowFacts DEF CompareData, TypeOK
    <3>2. ASSUME NEW k \in DOMAIN dataLog'
          PROVE  \/ k \in DOMAIN dataLog /\ dataLog'[k] = dataLog[k]
                 \/ dataLog'[k] = DataRow
      BY <2>2, <3>1
    <3>3. \A k \in DOMAIN dataLog' : dataLog'[k].after <= Len(sourceLog)
      BY <3>1, <3>2, DataRowFacts DEF CompareData, DataInv
    <3>4. ASSUME NEW k \in DOMAIN dataLog', NEW s \in Slots,
                 dataLog'[k].slots[s].marker # 0
          PROVE  \E i \in 1 .. dataLog'[k].after :
                    AnnouncedAt(dataLog'[k].slots[s].marker, i,
                                dataLog'[k].after)
      <4>1. CASE k \in DOMAIN dataLog /\ dataLog'[k] = dataLog[k]
        BY <3>4, <4>1 DEF DataInv, DataRowsAttributed
      <4>2. CASE dataLog'[k] = DataRow
        BY <3>4, <4>2, DataRowFacts DEF CompareData
      <4>3. QED
        BY <3>2, <4>1, <4>2
    <3>5. UNCHANGED sourceLog
      BY DEF CompareData
    <3>6. QED
      BY <3>3, <3>4, <3>5 DEF DataInv, DataRowsAttributed, AnnouncedAt
  <2>3. QED
    BY <2>1, <2>2 DEF CompareData
<1>8. QED
  BY <1>1, <1>3, <1>4, <1>5, <1>6, <1>7

-----------------------------------------------------------------------------
(***************************************************************************)
(* HandleSourcesLost.                                                      *)
(***************************************************************************)

LEMMA HandleSourcesLostInv ==
    ASSUME IndInv, HandleSourcesLost
    PROVE  IndInv'
<1> USE DEF HandleSourcesLost, IndInv, library
<1>1. /\ NamesInv' /\ RowsInv' /\ DataInv'
      /\ \A d \in Cids : Announced(d) => Announced(d)'
  BY HandlerKept
<1>2. TypeOK'
  BY DEF TypeOK, handler, logs, MergesOf, Sources
<1>3. LibraryInv' /\ LoopInv'
  BY DEF LibraryInv, LoopInv, handler
<1>4. AnnouncedInv'
  <2>1. \A t \in lastSources : t.cid \in Cids
    BY DEF TypeOK, Sources
  <2>2. QED
    BY <1>1, <2>1 DEF AnnouncedInv, handler
<1>5. QED
  BY <1>1, <1>2, <1>3, <1>4

LEMMA LogLostSourceInv ==
    ASSUME IndInv, NEW source \in toLog, LogLostSource(source)
    PROVE  IndInv'
<1> USE DEF IndInv, library
<1>1. source \in Sources /\ source \in lost
  BY DEF LogLostSource, LoopInv, TypeOK
<1>2. RowAdded("stopped", source)
  <2> DEFINE ip == IF source.cid \in DOMAIN cidIpAddr
                   THEN cidIpAddr[source.cid] ELSE "Unknown"
  <2>1. ip \in {info.ip : info \in Infos} \cup {"Unknown"}
    BY DEF TypeOK
  <2>2. sourceLog' = Append(sourceLog, SourceRow("stopped", source, ip))
    BY DEF LogLostSource
  <2>3. abbreviations' = Naming!WithName(abbreviations, source.cid)
    BY DEF LogLostSource
  <2> HIDE DEF ip
  <2>4. QED
    BY <2>1, <2>2, <2>3 DEF RowAdded
<1>3. NamesInv' /\ abbreviations' \in [DOMAIN abbreviations' -> Nat \ {0}]
        /\ DOMAIN abbreviations' = DOMAIN abbreviations \cup {source.cid}
  BY <1>1, <1>2, NamesGrow DEF RowAdded, Sources
<1>4. /\ sourceLog' \in Seq(SourceRows) /\ RowsInv'
      /\ Len(sourceLog') = Len(sourceLog) + 1
      /\ \A i \in 1 .. Len(sourceLog) : sourceLog'[i] = sourceLog[i]
  BY <1>1, <1>2, RowAddedFacts
<1>5. \A c \in DOMAIN live : Announced(c) => Announced(c)'
  <2>1. \A c \in DOMAIN live : c \in Cids /\ source.cid # c
    BY <1>1 DEF LibraryInv, TypeOK
  <2>2. QED
    BY <1>1, <1>2, <2>1, StaysAnnounced
<1>6. TypeOK'
  <2>1. source.cid \in Cids
    BY <1>1 DEF Sources
  <2>2. /\ DOMAIN cidIpAddr' = DOMAIN cidIpAddr \ {source.cid}
        /\ cidIpAddr' \in [DOMAIN cidIpAddr' -> {info.ip : info \in Infos}]
    BY DEF LogLostSource, TypeOK, AddressErased
  <2>3. toLog' \in SUBSET Sources
    BY DEF LogLostSource, TypeOK
  <2>4. UNCHANGED <<live, merged, sampling, pending, lost, pc, lastSources,
                    lastData, dataLog>>
    BY DEF LogLostSource
  <2>5. QED
    BY <1>3, <1>4, <2>1, <2>2, <2>3, <2>4 DEF TypeOK, MergesOf
<1>7. LibraryInv' /\ LoopInv'
  BY DEF LibraryInv, LoopInv, LogLostSource
<1>8. AnnouncedInv'
  BY <1>5 DEF AnnouncedInv, LogLostSource
<1>9. DataInv'
  <2>1. Len(sourceLog) \in Nat /\ UNCHANGED dataLog
    BY DEF TypeOK, LogLostSource
  <2>2. QED
    BY <1>4, <2>1, DataInvKept
<1>10. QED
  BY <1>3, <1>4, <1>6, <1>7, <1>8, <1>9

LEMMA LostSourcesLoggedInv ==
    ASSUME IndInv, LostSourcesLogged
    PROVE  IndInv'
<1> USE DEF LostSourcesLogged, IndInv
<1>1. /\ NamesInv' /\ RowsInv' /\ DataInv'
      /\ \A d \in Cids : Announced(d) => Announced(d)'
  BY HandlerKept
<1>2. /\ pending \in {<<"lost">>, <<"lost", "merged">>}
      /\ pending = <<"lost">> => pending' = <<>>
      /\ pending = <<"lost", "merged">> => pending' = <<"merged">>
  BY PendingFacts DEF TypeOK
<1>3. TypeOK'
  BY <1>2 DEF TypeOK, handler, logs, MergesOf, Sources
<1>4. LibraryInv' /\ LoopInv'
  BY <1>2, PendingFacts DEF LibraryInv, LoopInv, handler
<1>5. AnnouncedInv'
  <2>1. \A t \in lastSources : t.cid \in Cids
    BY DEF TypeOK, Sources
  <2>2. QED
    BY <1>1, <1>2, <2>1, PendingFacts DEF AnnouncedInv, handler
<1>6. QED
  BY <1>1, <1>3, <1>4, <1>5

-----------------------------------------------------------------------------

LEMMA InitInv == Init => IndInv
<1> SUFFICES ASSUME Init PROVE IndInv
  OBVIOUS
<1> USE DEF Init
<1>1. TypeOK
  BY DEF TypeOK, MergesOf, Sources
<1>2. NamesInv
  <2>1. DOMAIN abbreviations = {}
    OBVIOUS
  <2>2. QED
    BY <2>1, FS_EmptySet DEF NamesInv
<1>3. RowsInv /\ LibraryInv /\ LoopInv /\ AnnouncedInv /\ DataInv
  BY DEF RowsInv, LibraryInv, LoopInv, AnnouncedInv, DataInv,
         DataRowsAttributed
<1>4. QED
  BY <1>1, <1>2, <1>3 DEF IndInv

LEMMA NextInv == IndInv /\ [Next]_vars => IndInv'
<1> SUFFICES ASSUME IndInv, [Next]_vars PROVE IndInv'
  OBVIOUS
<1>1. CASE UNCHANGED vars
  <2>1. /\ NamesInv' /\ RowsInv' /\ DataInv'
        /\ \A d \in Cids : Announced(d) => Announced(d)'
    BY <1>1, HandlerKept DEF vars
  <2>2. TypeOK' /\ LibraryInv' /\ LoopInv'
    BY <1>1 DEF vars, library, handler, logs, IndInv, TypeOK, LibraryInv,
                LoopInv, MergesOf, Sources, ComparableSources
  <2>3. AnnouncedInv'
    BY <1>1 DEF vars, library, handler, logs, IndInv, AnnouncedInv,
                Announced, AnnouncedAt, ComparableSources
  <2>4. QED
    BY <2>1, <2>2, <2>3 DEF IndInv
<1>2. QED
  BY <1>1, SamplingEndsInv, PacketReceivedInv, SourcesLostInv,
     HandleMergedDataInv, LogNewSourceInv, CompareDataInv,
     HandleSourcesLostInv, LogLostSourceInv, LostSourcesLoggedInv
     DEF Next

LEMMA Invariance == Spec => []IndInv
  BY InitInv, NextInv, PTL DEF Spec

\* Both logs are well formed; the owners of a merge always have names to log.
THEOREM TypeCorrect == Spec => []TypeOK
<1>1. IndInv => TypeOK
  BY DEF IndInv
<1>2. QED
  BY <1>1, Invariance, PTL

\* A marker stands for one source in the whole source log.
THEOREM MarkersIdentify == Spec => []MarkersUnambiguous
<1>1. IndInv => MarkersUnambiguous
  BY DEF IndInv, NamesInv, RowsInv, MarkersUnambiguous
<1>2. QED
  BY <1>1, Invariance, PTL

\* When HandleMergedData compares the data, every active source is announced:
\* its lookups by owner succeed and add no name.
THEOREM SourcesNamedFirst == Spec => []ActiveSourcesNamed
<1>1. IndInv => ActiveSourcesNamed
  <2>1. SUFFICES ASSUME IndInv, pc = "merged", toLog = {}, NEW c \in DOMAIN live
                 PROVE  /\ c \in DOMAIN abbreviations
                        /\ \E i \in DOMAIN sourceLog :
                              /\ sourceLog[i].cid = c
                              /\ sourceLog[i].marker = abbreviations[c]
    BY DEF ActiveSourcesNamed
  <2>2. [cid |-> c, info |-> live[c]] \in ComparableSources \ toLog
    BY <2>1 DEF ComparableSources
  <2>3. Announced(c)
    BY <2>1, <2>2 DEF IndInv, AnnouncedInv
  <2>4. PICK i \in 1 .. Len(sourceLog) :
           sourceLog[i].marker = abbreviations[c]
    BY <2>3 DEF Announced, AnnouncedAt
  <2>5. i \in DOMAIN sourceLog
    BY <2>1, <2>4 DEF IndInv, TypeOK
  <2>6. sourceLog[i].cid = c
    BY <2>1, <2>3, <2>4, <2>5 DEF IndInv, NamesInv, RowsInv, Announced
  <2>7. QED
    BY <2>3, <2>4, <2>5, <2>6 DEF Announced
<1>2. QED
  BY <1>1, Invariance, PTL

\* Whoever reads a data row finds each of its owners announced, and not yet
\* stopped, in the part of the source log that was written before it.
THEOREM DataRowsReadable == Spec => []DataRowsAttributed
<1>1. IndInv => DataRowsAttributed
  BY DEF IndInv, DataInv
<1>2. QED
  BY <1>1, Invariance, PTL

-----------------------------------------------------------------------------
(***************************************************************************)
(* What a reader may conclude from the last rows of a universe's two logs: *)
(* who is live, where, and what the merge is, on top of the invariant      *)
(* above.                                                                  *)
(***************************************************************************)

\* Every CID with rows has a last one.
LastInv ==
    \A c \in Cids : RowsOf(c) # {} =>
        \E i \in RowsOf(c) : \A j \in RowsOf(c) : j <= i

\* The source log says that c is there.
Started(c) == RowsOf(c) # {} /\ LastRow(c).state # "stopped"

\* cidIpAddrMap_ holds exactly the sources that the log says are there.
AddressInv == \A c \in Cids : c \in DOMAIN cidIpAddr <=> Started(c)

\* The log is up to date about this source.
Tracked(source) ==
    /\ source.cid \in DOMAIN cidIpAddr
    /\ LastRow(source.cid).ip = source.info.ip
    /\ LastRow(source.cid).name = source.info.name

\* The sources a loss has still to log.
StillLost == IF pc = "lost" THEN toLog ELSE lost

\* No merge is outstanding.
Settled == ~sampling /\ pending \in {<<>>, <<"lost">>}

\* Outside the loop the log knows what lastSources_ holds; inside, what the
\* loop has not to visit any more.  What the log has and the library has not is
\* on its way to be logged as lost.
TrackInv ==
    /\ pc # "merged" =>
          \A t \in lastSources : t.cid \in DOMAIN live => Tracked(t)
    /\ pc = "merged" => \A s \in ComparableSources \ toLog : Tracked(s)
    /\ \A c \in DOMAIN cidIpAddr \ DOMAIN live :
          \E t \in StillLost : t.cid = c
    /\ Settled => lastSources = ComparableSources

\* A row's slots say what data says, in the names of the moment.
Encodes(slots, data) ==
    \A s \in Slots :
        /\ slots[s].level = data[s].level
        /\ \/ data[s].owner = NoOwner /\ slots[s].marker = 0
           \/ /\ data[s].owner \in DOMAIN abbreviations
              /\ slots[s].marker = abbreviations[data[s].owner]

\* lastData_ is what the last row says.
LastDataInv ==
    /\ dataLog # <<>> <=> lastData # <<>>
    /\ dataLog # <<>> => Encodes(dataLog[Len(dataLog)].slots, lastData)
    /\ Settled => lastData = merged

LogInv == IndInv /\ LastInv /\ AddressInv /\ TrackInv /\ LastDataInv

-----------------------------------------------------------------------------
(***************************************************************************)
(* The last row of a source, when rows are added.                          *)
(***************************************************************************)

LEMMA GreatestIsChosen ==
    ASSUME NEW S \in SUBSET Nat, NEW i \in S, \A j \in S : j <= i
    PROVE  (CHOOSE k \in S : \A j \in S : j <= k) = i
<1> DEFINE g == CHOOSE k \in S : \A j \in S : j <= k
<1>1. g \in S /\ \A j \in S : j <= g
  OBVIOUS
<1> HIDE DEF g
<1>2. g <= i /\ i <= g /\ g \in Nat /\ i \in Nat
  BY <1>1
<1>3. g = i
  BY <1>2
<1>4. QED
  BY <1>3 DEF g

LEMMA RowIndices ==
    ASSUME TypeOK
    PROVE  /\ Len(sourceLog) \in Nat
           /\ DOMAIN sourceLog = 1 .. Len(sourceLog)
           /\ \A c : RowsOf(c) \subseteq 1 .. Len(sourceLog)
  BY DEF TypeOK, RowsOf

LEMMA LastRowFacts ==
    ASSUME TypeOK, LastInv, NEW c \in Cids, RowsOf(c) # {}
    PROVE  \E i \in RowsOf(c) : /\ \A j \in RowsOf(c) : j <= i
                                /\ LastRow(c) = sourceLog[i]
<1>1. PICK i \in RowsOf(c) : \A j \in RowsOf(c) : j <= i
  BY DEF LastInv
<1>2. RowsOf(c) \subseteq Nat
  BY RowIndices
<1>3. (CHOOSE k \in RowsOf(c) : \A j \in RowsOf(c) : j <= k) = i
  BY <1>1, <1>2, GreatestIsChosen
<1>4. QED
  BY <1>1, <1>3 DEF LastRow

\* What one more row changes: the last row of its own source, and no other.
LEMMA RowAppended ==
    ASSUME TypeOK, NamesInv, RowsInv, LastInv,
           NEW state \in {"started", "moved", "stopped"},
           NEW source \in Sources,
           NEW ip \in {info.ip : info \in Infos} \cup {"Unknown"},
           sourceLog' = Append(sourceLog, SourceRow(state, source, ip)),
           abbreviations' = Naming!WithName(abbreviations, source.cid)
    PROVE  /\ LastInv'
           /\ RowsOf(source.cid)' # {}
           /\ LastRow(source.cid)' = SourceRow(state, source, ip)
           /\ \A c \in Cids \ {source.cid} :
                 /\ RowsOf(c)' = RowsOf(c)
                 /\ RowsOf(c) # {} => LastRow(c)' = LastRow(c)
<1> DEFINE n == Len(sourceLog) + 1
           row == SourceRow(state, source, ip)
<1>1. /\ sourceLog' \in Seq(SourceRows) /\ Len(sourceLog') = n
      /\ \A i \in 1 .. Len(sourceLog) : sourceLog'[i] = sourceLog[i]
  BY RowAddedFacts DEF RowAdded
<1>2. /\ Len(sourceLog) \in Nat
      /\ DOMAIN sourceLog = 1 .. Len(sourceLog)
      /\ \A c : RowsOf(c) \subseteq 1 .. Len(sourceLog)
  BY RowIndices
<1>3. sourceLog'[n] = row /\ row.cid = source.cid
  <2>1. sourceLog \in Seq(SourceRows \cup {row})
    BY SeqMonotonic DEF TypeOK
  <2>2. row.cid = source.cid
    BY DEF SourceRow
  <2> HIDE DEF row
  <2>3. QED
    BY <2>1, <2>2, AppendProperties DEF row
<1> HIDE DEF row
<1>4. DOMAIN sourceLog' = DOMAIN sourceLog \cup {n} /\ n \notin DOMAIN sourceLog
  BY <1>1, <1>2
<1>5. ASSUME NEW c \in Cids \ {source.cid}
      PROVE  RowsOf(c)' = RowsOf(c)
  BY <1>1, <1>2, <1>3, <1>4 DEF RowsOf
<1>6. RowsOf(source.cid)' = RowsOf(source.cid) \cup {n}
  BY <1>1, <1>2, <1>3, <1>4 DEF RowsOf
<1>7. n \in RowsOf(source.cid)' /\ \A j \in RowsOf(source.cid)' : j <= n
  BY <1>2, <1>6
<1>8. LastRow(source.cid)' = row
  <2>1. RowsOf(source.cid)' \subseteq Nat
    BY <1>2, <1>6
  <2>2. (CHOOSE k \in RowsOf(source.cid)' :
            \A j \in RowsOf(source.cid)' : j <= k) = n
    BY <1>7, <2>1, GreatestIsChosen
  <2>3. QED
    BY <1>3, <2>2 DEF LastRow
<1>9. ASSUME NEW c \in Cids \ {source.cid}, RowsOf(c) # {}
      PROVE  LastRow(c)' = LastRow(c)
  <2>1. PICK i \in RowsOf(c) : /\ \A j \in RowsOf(c) : j <= i
                               /\ LastRow(c) = sourceLog[i]
    BY <1>9, LastRowFacts
  <2>2. RowsOf(c)' = RowsOf(c) /\ RowsOf(c) \subseteq Nat
    BY <1>2, <1>5
  <2>3. (CHOOSE k \in RowsOf(c)' : \A j \in RowsOf(c)' : j <= k) = i
    BY <2>1, <2>2, GreatestIsChosen
  <2>4. sourceLog'[i] = sourceLog[i]
    BY <1>1, <1>2, <2>1
  <2>5. QED
    BY <2>1, <2>3, <2>4 DEF LastRow
<1>10. LastInv'
  <2>1. ASSUME NEW c \in Cids, RowsOf(c)' # {}
        PROVE  \E i \in RowsOf(c)' : \A j \in RowsOf(c)' : j <= i
    <3>1. CASE c = source.cid
      BY <1>7, <3>1
    <3>2. CASE c # source.cid
      BY <1>5, <2>1, <3>2 DEF LastInv
    <3>3. QED
      BY <3>1, <3>2
  <2>2. QED
    BY <2>1 DEF LastInv
<1>11. QED
  BY <1>5, <1>7, <1>8, <1>9, <1>10 DEF row

\* A name, once given, does not change, so what a row encodes stays the same.
LEMMA StaysEncoded ==
    ASSUME TypeOK, LastDataInv, UNCHANGED <<dataLog, lastData>>,
           \A c \in DOMAIN abbreviations : /\ c \in DOMAIN abbreviations'
                                           /\ abbreviations'[c] = abbreviations[c]
    PROVE  /\ dataLog' # <<>> <=> lastData' # <<>>
           /\ dataLog' # <<>> =>
                 Encodes(dataLog[Len(dataLog)].slots, lastData)'
  BY DEF LastDataInv, Encodes

-----------------------------------------------------------------------------
(***************************************************************************)
(* The events of the library, and the steps that add no row.               *)
(***************************************************************************)

\* What does not depend on the library.
LEMMA LogsKept ==
    ASSUME LogInv, UNCHANGED <<cidIpAddr, sourceLog>>
    PROVE  /\ LastInv' /\ AddressInv'
           /\ \A source : Tracked(source) => Tracked(source)'
  BY DEF LogInv, LastInv, AddressInv, Started, Tracked, RowsOf, LastRow

LEMMA LastDataKept ==
    ASSUME LogInv, UNCHANGED <<abbreviations, dataLog, lastData>>,
           Settled' => merged' = merged /\ Settled
    PROVE  LastDataInv'
<1>1. /\ dataLog' # <<>> <=> lastData' # <<>>
      /\ dataLog' # <<>> => Encodes(dataLog[Len(dataLog)].slots, lastData)'
  BY StaysEncoded DEF LogInv, IndInv
<1>2. QED
  BY <1>1 DEF LogInv, LastDataInv

LEMMA SamplingEndsLog ==
    ASSUME LogInv, SamplingEnds
    PROVE  LastInv' /\ AddressInv' /\ TrackInv' /\ LastDataInv'
<1> USE DEF SamplingEnds, CanEvent, Quiet, handler, logs
<1>1. /\ LastInv' /\ AddressInv'
      /\ \A source : Tracked(source) => Tracked(source)'
  BY LogsKept
<1>2. ~Settled'
  BY PendingFacts DEF Settled
<1>3. TrackInv'
  BY <1>1, <1>2 DEF LogInv, TrackInv, StillLost
<1>4. LastDataInv'
  BY <1>2, LastDataKept
<1>5. QED
  BY <1>1, <1>3, <1>4

LEMMA PacketReceivedLog ==
    ASSUME LogInv, NEW c \in Cids, NEW info \in Infos, PacketReceived(c, info)
    PROVE  LastInv' /\ AddressInv' /\ TrackInv' /\ LastDataInv'
<1> USE DEF PacketReceived, CanEvent, Quiet, handler, logs
<1>1. /\ LastInv' /\ AddressInv'
      /\ \A source : Tracked(source) => Tracked(source)'
  BY LogsKept
<1>2. ~Settled'
  BY PendingFacts DEF Settled
<1>3. \A t \in lastSources : t.cid \in DOMAIN live
  BY DEF LogInv, IndInv, AnnouncedInv
<1>4. DOMAIN live \subseteq DOMAIN live'
  OBVIOUS
<1>5. TrackInv'
  BY <1>1, <1>2, <1>3, <1>4 DEF LogInv, TrackInv, StillLost
<1>6. LastDataInv'
  BY <1>2, LastDataKept
<1>7. QED
  BY <1>1, <1>5, <1>6

LEMMA SourcesLostLog ==
    ASSUME LogInv, NEW gone \in SUBSET DOMAIN live, SourcesLost(gone)
    PROVE  LastInv' /\ AddressInv' /\ TrackInv' /\ LastDataInv'
<1> USE DEF SourcesLost, CanEvent, Quiet, handler, logs
<1>1. /\ LastInv' /\ AddressInv'
      /\ \A source : Tracked(source) => Tracked(source)'
  BY LogsKept
<1>2. ~Settled'
  BY PendingFacts DEF Settled
<1>3. lost = {} /\ DOMAIN live' = DOMAIN live \ gone
  BY DEF LogInv, IndInv, LibraryInv
<1>4. ASSUME NEW d \in DOMAIN cidIpAddr' \ DOMAIN live'
      PROVE  \E t \in StillLost' : t.cid = d
  <2>1. d \in gone
    BY <1>3 DEF LogInv, TrackInv, StillLost
  <2>2. [cid |-> d, info |-> live[d]] \in lost'
    BY <2>1
  <2>3. QED
    BY <2>2 DEF StillLost
<1>5. TrackInv'
  BY <1>1, <1>2, <1>3, <1>4 DEF LogInv, TrackInv
<1>6. LastDataInv'
  BY <1>2, LastDataKept
<1>7. QED
  BY <1>1, <1>5, <1>6

LEMMA HandleMergedDataLog ==
    ASSUME LogInv, HandleMergedData
    PROVE  LastInv' /\ AddressInv' /\ TrackInv' /\ LastDataInv'
<1> USE DEF HandleMergedData, library, handler, logs
<1>1. /\ LastInv' /\ AddressInv'
      /\ \A source : Tracked(source) => Tracked(source)'
  BY LogsKept
<1>2. Settled' <=> Settled
  BY DEF Settled
<1>3. ComparableSources' = ComparableSources
  BY DEF ComparableSources
<1>4. \A s \in ComparableSources \ toLog' :
         s \in lastSources /\ s.cid \in DOMAIN live
  BY ComparableSourcesType DEF NewSources, LogInv, IndInv
<1>5. TrackInv'
  BY <1>1, <1>2, <1>3, <1>4 DEF LogInv, TrackInv, StillLost
<1>6. LastDataInv'
  BY <1>2, LastDataKept
<1>7. QED
  BY <1>1, <1>5, <1>6

LEMMA HandleSourcesLostLog ==
    ASSUME LogInv, HandleSourcesLost
    PROVE  LastInv' /\ AddressInv' /\ TrackInv' /\ LastDataInv'
<1> USE DEF HandleSourcesLost, library, handler, logs
<1>1. /\ LastInv' /\ AddressInv'
      /\ \A source : Tracked(source) => Tracked(source)'
  BY LogsKept
<1>2. Settled' <=> Settled
  BY DEF Settled
<1>3. ComparableSources' = ComparableSources
  BY DEF ComparableSources
<1>4. TrackInv'
  BY <1>1, <1>2, <1>3 DEF LogInv, TrackInv, StillLost
<1>5. LastDataInv'
  BY <1>2, LastDataKept
<1>6. QED
  BY <1>1, <1>4, <1>5

LEMMA LostSourcesLoggedLog ==
    ASSUME LogInv, LostSourcesLogged
    PROVE  LastInv' /\ AddressInv' /\ TrackInv' /\ LastDataInv'
<1> USE DEF LostSourcesLogged, handler, logs
<1>1. /\ LastInv' /\ AddressInv'
      /\ \A source : Tracked(source) => Tracked(source)'
  BY LogsKept
<1>2. pending = <<"lost">> \/ pending' = <<"merged">>
  BY PendingFacts DEF LogInv, IndInv, TypeOK
<1>3. Settled' => Settled
  BY <1>2, PendingFacts DEF Settled
<1>4. ComparableSources' = ComparableSources
  BY DEF ComparableSources
<1>5. DOMAIN cidIpAddr \subseteq DOMAIN live
  BY DEF LogInv, TrackInv, StillLost
<1>6. TrackInv'
  BY <1>1, <1>3, <1>4, <1>5 DEF LogInv, TrackInv
<1>7. LastDataInv'
  BY <1>3, LastDataKept
<1>8. QED
  BY <1>1, <1>6, <1>7

-----------------------------------------------------------------------------
(***************************************************************************)
(* The rounds of the two loops, and the comparison of the data.            *)
(***************************************************************************)

\* A row about one source leaves the log up to date about the others.
LEMMA OthersTracked ==
    ASSUME TypeOK, NEW cid \in Cids,
           \A c \in Cids \ {cid} :
              /\ c \in DOMAIN cidIpAddr => c \in DOMAIN cidIpAddr'
              /\ Started(c) => LastRow(c)' = LastRow(c),
           AddressInv
    PROVE  \A s \in Sources : s.cid # cid /\ Tracked(s) => Tracked(s)'
<1> SUFFICES ASSUME NEW s \in Sources, s.cid # cid, Tracked(s)
             PROVE  Tracked(s)'
  OBVIOUS
<1>1. s.cid \in Cids \ {cid}
  BY DEF Sources
<1>2. s.cid \in DOMAIN cidIpAddr /\ Started(s.cid)
  BY <1>1 DEF Tracked, AddressInv
<1>3. QED
  BY <1>1, <1>2 DEF Tracked

LEMMA LogNewSourceLog ==
    ASSUME LogInv, NEW source \in toLog, LogNewSource(source)
    PROVE  LastInv' /\ AddressInv' /\ TrackInv' /\ LastDataInv'
<1> USE DEF library
<1>1. source \in Sources /\ source \in ComparableSources /\ pc = "merged"
  BY DEF LogInv, IndInv, LogNewSource, LoopInv, TypeOK
<1>2. source.cid \in Cids /\ source.info \in Infos
  BY <1>1 DEF Sources
<1> DEFINE state == IF source.cid \in DOMAIN cidIpAddr THEN "moved"
                                                       ELSE "started"
           row == SourceRow(state, source, source.info.ip)
<1>3. /\ sourceLog' = Append(sourceLog, row)
      /\ abbreviations' = Naming!WithName(abbreviations, source.cid)
      /\ DOMAIN cidIpAddr' = DOMAIN cidIpAddr \cup {source.cid}
      /\ toLog' = toLog \ {source}
      /\ UNCHANGED <<library, pc, lastSources, lastData, dataLog>>
  BY DEF LogNewSource
<1>4. /\ LastInv'
      /\ RowsOf(source.cid)' # {} /\ LastRow(source.cid)' = row
      /\ \A c \in Cids \ {source.cid} :
            /\ RowsOf(c)' = RowsOf(c)
            /\ RowsOf(c) # {} => LastRow(c)' = LastRow(c)
  <2>1. /\ state \in {"started", "moved", "stopped"}
        /\ source.info.ip \in {info.ip : info \in Infos} \cup {"Unknown"}
    BY <1>2
  <2> HIDE DEF state
  <2>2. QED
    BY <1>1, <1>3, <2>1, RowAppended DEF LogInv, IndInv
<1>5. /\ row.state # "stopped"
      /\ row.ip = source.info.ip /\ row.name = source.info.name
  BY DEF SourceRow
<1> HIDE DEF row, state
<1>6. Started(source.cid)'
  BY <1>4, <1>5 DEF Started
<1>7. \A c \in Cids \ {source.cid} : Started(c)' <=> Started(c)
  BY <1>4 DEF Started
<1>8. AddressInv'
  BY <1>3, <1>6, <1>7 DEF LogInv, AddressInv
<1>9. Tracked(source)'
  BY <1>3, <1>4, <1>5 DEF Tracked
<1>10. \A s \in Sources : s.cid # source.cid /\ Tracked(s) => Tracked(s)'
  BY <1>2, <1>3, <1>4, OthersTracked DEF LogInv, IndInv, Started
<1>11. TrackInv'
  <2>1. ComparableSources' = ComparableSources
    BY <1>3 DEF ComparableSources
  <2>2. ASSUME NEW s \in ComparableSources \ toLog'
        PROVE  Tracked(s)'
    <3>1. CASE s = source
      BY <1>9, <3>1
    <3>2. CASE s # source
      <4>1. s \in Sources /\ s.cid # source.cid
        BY <1>1, <3>2 DEF LogInv, IndInv, TypeOK, ComparableSources, Sources
      <4>2. Tracked(s)
        BY <1>1, <1>3, <2>2, <3>2 DEF LogInv, TrackInv
      <4>3. QED
        BY <1>10, <4>1, <4>2
    <3>3. QED
      BY <3>1, <3>2
  <2>3. source.cid \in DOMAIN live
    BY <1>1, ComparableSourcesType DEF LogInv, IndInv
  <2>4. \A c \in DOMAIN cidIpAddr' \ DOMAIN live' :
           \E t \in StillLost' : t.cid = c
    BY <1>1, <1>3, <2>3 DEF LogInv, TrackInv, StillLost
  <2>5. Settled' => lastSources' = ComparableSources'
    BY <1>3, <2>1 DEF LogInv, TrackInv, Settled
  <2>6. QED
    BY <1>1, <1>3, <2>1, <2>2, <2>4, <2>5 DEF TrackInv
<1>12. LastDataInv'
  <2>1. \A c \in DOMAIN abbreviations :
           /\ c \in DOMAIN abbreviations'
           /\ abbreviations'[c] = abbreviations[c]
    BY <1>2, <1>3, NamesGrow DEF LogInv, IndInv
  <2>2. /\ dataLog' # <<>> <=> lastData' # <<>>
        /\ dataLog' # <<>> => Encodes(dataLog[Len(dataLog)].slots, lastData)'
    BY <1>3, <2>1, StaysEncoded DEF LogInv, IndInv
  <2>3. QED
    BY <1>3, <2>2 DEF LogInv, LastDataInv, Settled
<1>13. QED
  BY <1>4, <1>8, <1>11, <1>12

LEMMA LogLostSourceLog ==
    ASSUME LogInv, NEW source \in toLog, LogLostSource(source)
    PROVE  LastInv' /\ AddressInv' /\ TrackInv' /\ LastDataInv'
<1> USE DEF library
<1>1. source \in Sources /\ source \in lost /\ pc = "lost"
  BY DEF LogInv, IndInv, LogLostSource, LoopInv, TypeOK
<1>2. source.cid \in Cids
  BY <1>1 DEF Sources
<1> DEFINE ip == IF source.cid \in DOMAIN cidIpAddr
                 THEN cidIpAddr[source.cid] ELSE "Unknown"
           row == SourceRow("stopped", source, ip)
<1>3. /\ sourceLog' = Append(sourceLog, row)
      /\ abbreviations' = Naming!WithName(abbreviations, source.cid)
      /\ DOMAIN cidIpAddr' = DOMAIN cidIpAddr \ {source.cid}
      /\ toLog' = toLog \ {source}
      /\ UNCHANGED <<library, pc, lastSources, lastData, dataLog>>
  BY DEF LogLostSource, AddressErased
<1>4. /\ LastInv'
      /\ RowsOf(source.cid)' # {} /\ LastRow(source.cid)' = row
      /\ \A c \in Cids \ {source.cid} :
            /\ RowsOf(c)' = RowsOf(c)
            /\ RowsOf(c) # {} => LastRow(c)' = LastRow(c)
  <2>1. ip \in {info.ip : info \in Infos} \cup {"Unknown"}
    BY DEF LogInv, IndInv, TypeOK
  <2> HIDE DEF ip
  <2>2. QED
    BY <1>1, <1>3, <2>1, RowAppended DEF LogInv, IndInv
<1>5. row.state = "stopped"
  BY DEF SourceRow
<1> HIDE DEF row, ip
<1>6. ~Started(source.cid)'
  BY <1>4, <1>5 DEF Started
<1>7. \A c \in Cids \ {source.cid} : Started(c)' <=> Started(c)
  BY <1>4 DEF Started
<1>8. AddressInv'
  BY <1>3, <1>6, <1>7 DEF LogInv, AddressInv
<1>9. \A s \in Sources : s.cid # source.cid /\ Tracked(s) => Tracked(s)'
  BY <1>2, <1>3, <1>4, OthersTracked DEF LogInv, IndInv, Started
<1>10. TrackInv'
  <2>1. ComparableSources' = ComparableSources
    BY <1>3 DEF ComparableSources
  <2>2. source.cid \notin DOMAIN live
    BY <1>1 DEF LogInv, IndInv, LibraryInv
  <2>3. ASSUME NEW t \in lastSources', t.cid \in DOMAIN live'
        PROVE  Tracked(t)'
    <3>1. t \in Sources /\ t.cid # source.cid
      BY <1>3, <2>2, <2>3 DEF LogInv, IndInv, TypeOK
    <3>2. Tracked(t)
      BY <1>1, <1>3, <2>3 DEF LogInv, TrackInv
    <3>3. QED
      BY <1>9, <3>1, <3>2
  <2>4. \A c \in DOMAIN cidIpAddr' \ DOMAIN live' :
           \E t \in StillLost' : t.cid = c
    BY <1>1, <1>3 DEF LogInv, TrackInv, StillLost
  <2>5. Settled' => lastSources' = ComparableSources'
    BY <1>3, <2>1 DEF LogInv, TrackInv, Settled
  <2>6. QED
    BY <1>1, <1>3, <2>1, <2>3, <2>4, <2>5 DEF TrackInv
<1>11. LastDataInv'
  <2>1. \A c \in DOMAIN abbreviations :
           /\ c \in DOMAIN abbreviations'
           /\ abbreviations'[c] = abbreviations[c]
    BY <1>2, <1>3, NamesGrow DEF LogInv, IndInv
  <2>2. /\ dataLog' # <<>> <=> lastData' # <<>>
        /\ dataLog' # <<>> => Encodes(dataLog[Len(dataLog)].slots, lastData)'
    BY <1>3, <2>1, StaysEncoded DEF LogInv, IndInv
  <2>3. QED
    BY <1>3, <2>2 DEF LogInv, LastDataInv, Settled
<1>12. QED
  BY <1>4, <1>8, <1>10, <1>11

\* After the loop every owner of the merge has a name.
LEMMA OwnersNamed ==
    ASSUME IndInv, pc = "merged", toLog = {}
    PROVE  /\ \A s \in Slots : \/ merged[s].owner = NoOwner
                               \/ merged[s].owner \in DOMAIN abbreviations
           /\ Encodes(DataRow.slots, merged)
<1>1. \A c \in DOMAIN live : c \in DOMAIN abbreviations
  <2>1. \A c \in DOMAIN live : [cid |-> c, info |-> live[c]]
                                  \in ComparableSources \ toLog
    BY DEF ComparableSources
  <2>2. QED
    BY <2>1 DEF IndInv, AnnouncedInv, Announced
<1>2. \A s \in Slots : \/ merged[s].owner = NoOwner
                       \/ merged[s].owner \in DOMAIN live
  BY DEF IndInv, TypeOK, MergesOf, Unsourced
<1>3. \A s \in Slots : /\ DataRow.slots[s].level = merged[s].level
                       /\ DataRow.slots[s].marker = OwnerName(merged[s].owner)
  BY DEF DataRow
<1>4. ASSUME NEW s \in Slots, merged[s].owner # NoOwner
      PROVE  OwnerName(merged[s].owner) = abbreviations[merged[s].owner]
  BY <1>1, <1>2, <1>4 DEF OwnerName, Naming!NameFor
<1>5. ASSUME NEW s \in Slots, merged[s].owner = NoOwner
      PROVE  OwnerName(merged[s].owner) = 0
  BY <1>5 DEF OwnerName
<1>6. QED
  BY <1>1, <1>2, <1>3, <1>4, <1>5 DEF Encodes

LEMMA MergeNotEmpty ==
    ASSUME TypeOK
    PROVE  merged # <<>>
<1>1. DOMAIN merged = Slots
  BY DEF TypeOK, MergesOf
<1>2. DOMAIN <<>> = {}
  BY EmptySeq
<1>3. QED
  BY <1>1, <1>2, SlotsAssumption

LEMMA CompareDataLog ==
    ASSUME LogInv, CompareData
    PROVE  LastInv' /\ AddressInv' /\ TrackInv' /\ LastDataInv'
<1> USE DEF CompareData
<1>1. /\ LastInv' /\ AddressInv'
      /\ \A source : Tracked(source) => Tracked(source)'
  BY LogsKept
<1>2. ComparableSources' = ComparableSources
  BY DEF ComparableSources
<1>3. TrackInv'
  <2>1. \A s \in ComparableSources : Tracked(s)'
    BY <1>1 DEF LogInv, TrackInv
  <2>2. \A c \in DOMAIN cidIpAddr' \ DOMAIN live' :
           \E t \in StillLost' : t.cid = c
    BY DEF LogInv, TrackInv, StillLost
  <2>3. QED
    BY <1>2, <2>1, <2>2 DEF TrackInv, SourcesToRemember
<1>4. LastDataInv'
  <2>1. Encodes(DataRow.slots, merged) /\ merged # <<>>
    BY OwnersNamed, MergeNotEmpty DEF LogInv, IndInv
  <2>2. dataLog \in Seq(DataRows) /\ DataRow \in DataRows
    BY DataRowFacts DEF LogInv, IndInv, TypeOK
  <2>3. CASE DataChanged
    <3>1. dataLog' = Append(dataLog, DataRow)
      BY <2>3
    <3>2. dataLog' # <<>> /\ dataLog'[Len(dataLog')] = DataRow
      BY <2>2, <3>1, AppendProperties, EmptySeq
    <3>3. Encodes(dataLog[Len(dataLog)].slots, lastData)'
      BY <2>1, <3>2 DEF Encodes
    <3>4. QED
      BY <2>1, <3>2, <3>3 DEF LastDataInv
  <2>4. CASE ~DataChanged
    <3>1. lastData = merged /\ dataLog' = dataLog
      BY <2>4 DEF DataChanged
    <3>2. dataLog # <<>> /\ Encodes(dataLog[Len(dataLog)].slots, lastData)
      BY <2>1, <3>1 DEF LogInv, LastDataInv
    <3>3. QED
      BY <2>1, <3>1, <3>2 DEF LastDataInv, Encodes
  <2>5. QED
    BY <2>3, <2>4
<1>5. QED
  BY <1>1, <1>3, <1>4

-----------------------------------------------------------------------------

LEMMA LogInit == Init => LogInv
<1> SUFFICES ASSUME Init PROVE LogInv
  OBVIOUS
<1>1. IndInv
  BY InitInv
<1>2. \A c \in Cids : RowsOf(c) = {}
  BY EmptySeq DEF Init, RowsOf
<1>3. LastInv /\ AddressInv
  BY <1>2 DEF Init, LastInv, AddressInv, Started
<1>4. TrackInv /\ LastDataInv
  BY DEF Init, TrackInv, LastDataInv, StillLost, Settled
<1>5. QED
  BY <1>1, <1>3, <1>4 DEF LogInv

LEMMA LogNext == LogInv /\ [Next]_vars => LogInv'
<1> SUFFICES ASSUME LogInv, [Next]_vars PROVE LogInv'
  OBVIOUS
<1>1. IndInv'
  BY NextInv DEF LogInv
<1>2. LastInv' /\ AddressInv' /\ TrackInv' /\ LastDataInv'
  <2>1. CASE UNCHANGED vars
    <3> USE <2>1 DEF vars, library, handler, logs
    <3>1. /\ LastInv' /\ AddressInv'
          /\ \A source : Tracked(source) => Tracked(source)'
      BY LogsKept
    <3>2. LastDataInv'
      BY LastDataKept DEF Settled
    <3>3. TrackInv'
      BY <3>1 DEF LogInv, TrackInv, StillLost, Settled, ComparableSources
    <3>4. QED
      BY <3>1, <3>2, <3>3
  <2>2. QED
    BY <2>1, SamplingEndsLog, PacketReceivedLog, SourcesLostLog,
       HandleMergedDataLog, LogNewSourceLog, CompareDataLog,
       HandleSourcesLostLog, LogLostSourceLog, LostSourcesLoggedLog
       DEF Next
<1>3. QED
  BY <1>1, <1>2 DEF LogInv

LEMMA LogInvariance == Spec => []LogInv
  BY LogInit, LogNext, PTL DEF Spec

\* Whoever replays the source log between events knows who is live, and the
\* address and name of each.
THEOREM SourceLogIsCurrent == Spec => []LogTracksSources
<1>1. LogInv => LogTracksSources
  <2> SUFFICES ASSUME LogInv, Quiet, ~sampling, NEW c \in Cids
               PROVE  IF c \in DOMAIN live
                      THEN /\ RowsOf(c) # {}
                           /\ LastRow(c).state # "stopped"
                           /\ LastRow(c).ip = live[c].ip
                           /\ LastRow(c).name = live[c].name
                      ELSE RowsOf(c) # {} => LastRow(c).state = "stopped"
    BY DEF LogTracksSources
  <2>1. pc = "idle" /\ Settled /\ lost = {}
    BY DEF Quiet, Settled, LogInv, IndInv, LibraryInv
  <2>2. c \in DOMAIN cidIpAddr <=> RowsOf(c) # {} /\ LastRow(c).state # "stopped"
    BY DEF LogInv, AddressInv, Started
  <2>3. CASE c \in DOMAIN live
    <3> DEFINE source == [cid |-> c, info |-> live[c]]
    <3>1. source \in lastSources
      BY <2>1, <2>3 DEF LogInv, TrackInv, ComparableSources
    <3>2. Tracked(source)
      BY <2>1, <2>3, <3>1 DEF LogInv, TrackInv
    <3>3. /\ c \in DOMAIN cidIpAddr
          /\ LastRow(c).ip = live[c].ip /\ LastRow(c).name = live[c].name
      BY <3>2 DEF Tracked
    <3>4. QED
      BY <2>2, <2>3, <3>3
  <2>4. CASE c \notin DOMAIN live
    <3>1. c \notin DOMAIN cidIpAddr
      BY <2>1, <2>4 DEF LogInv, TrackInv, StillLost
    <3>2. QED
      BY <2>2, <2>4, <3>1
  <2>5. QED
    BY <2>3, <2>4
<1>2. QED
  BY <1>1, LogInvariance, PTL

\* Whoever reads the last data row between events knows the merge, and finds
\* its owners by their markers in the source log.
THEOREM DataLogIsCurrent == Spec => []DataLogTracksMerge
<1>1. LogInv => DataLogTracksMerge
  <2> SUFFICES ASSUME LogInv, Quiet, ~sampling
               PROVE  /\ dataLog # <<>>
                      /\ \A s \in Slots :
                            LET datum == dataLog[Len(dataLog)].slots[s]
                            IN  /\ datum.level = merged[s].level
                                /\ IF merged[s].owner = NoOwner
                                   THEN datum.marker = 0
                                   ELSE \E i \in DOMAIN sourceLog :
                                           /\ sourceLog[i].marker = datum.marker
                                           /\ sourceLog[i].cid = merged[s].owner
    BY DEF DataLogTracksMerge
  <2>1. pc = "idle" /\ Settled
    BY DEF Quiet, Settled
  <2>2. lastData = merged /\ lastSources = ComparableSources
    BY <2>1 DEF LogInv, LastDataInv, TrackInv
  <2>3. dataLog # <<>> /\ Encodes(dataLog[Len(dataLog)].slots, merged)
    BY <2>2, MergeNotEmpty DEF LogInv, IndInv, LastDataInv
  <2>4. ASSUME NEW s \in Slots, merged[s].owner # NoOwner
        PROVE  \E i \in DOMAIN sourceLog :
                  /\ sourceLog[i].marker = abbreviations[merged[s].owner]
                  /\ sourceLog[i].cid = merged[s].owner
    <3> DEFINE c == merged[s].owner
               source == [cid |-> c, info |-> live[c]]
    <3>1. c \in DOMAIN live
      BY <2>4 DEF LogInv, IndInv, TypeOK, MergesOf, Unsourced
    <3>2. source \in lastSources
      BY <2>2, <3>1 DEF ComparableSources
    <3>3. Announced(c)
      BY <3>1, <3>2 DEF LogInv, IndInv, AnnouncedInv
    <3>4. PICK i \in DOMAIN sourceLog : sourceLog[i].marker = abbreviations[c]
      BY <3>3, RowIndices DEF Announced, AnnouncedAt, LogInv, IndInv
    <3>5. sourceLog[i].cid = c
      BY <3>3, <3>4 DEF LogInv, IndInv, NamesInv, RowsInv, Announced
    <3>6. QED
      BY <3>4, <3>5
  <2>5. ASSUME NEW s \in Slots
        PROVE  LET datum == dataLog[Len(dataLog)].slots[s]
               IN  /\ datum.level = merged[s].level
                   /\ IF merged[s].owner = NoOwner
                      THEN datum.marker = 0
                      ELSE \E i \in DOMAIN sourceLog :
                              /\ sourceLog[i].marker = datum.marker
                              /\ sourceLog[i].cid = merged[s].owner
    <3>1. NoOwner \notin DOMAIN abbreviations
      BY NoOwnerAssumption DEF LogInv, IndInv, TypeOK
    <3>2. QED
      BY <2>3, <2>4, <3>1 DEF Encodes
  <2>6. QED
    BY <2>3, <2>5
<1>2. QED
  BY <1>1, LogInvariance, PTL

\* Two merges that a row encodes alike are the same merge.
LEMMA EncodingIsInjective ==
    ASSUME NamesInv, TypeOK, NEW slots,
           NEW one \in [Slots -> Datum \cup {Unsourced}],
           NEW other \in [Slots -> Datum \cup {Unsourced}],
           Encodes(slots, one), Encodes(slots, other)
    PROVE  one = other
<1>1. ASSUME NEW s \in Slots
      PROVE  one[s] = other[s]
  <2>1. one[s].level = other[s].level
    BY DEF Encodes
  <2>2. one[s].owner = other[s].owner
    <3>1. \A c \in DOMAIN abbreviations : abbreviations[c] # 0
      BY DEF TypeOK
    <3>2. QED
      BY <3>1 DEF Encodes, NamesInv
  <2>3. one[s] \in Datum \cup {Unsourced} /\ other[s] \in Datum \cup {Unsourced}
    OBVIOUS
  <2>4. QED
    BY <2>1, <2>2, <2>3 DEF Datum, Unsourced
<1>2. QED
  BY <1>1

\* A data row that is written differs from the one before it: what is compared
\* is lastData_ with the merge, and lastData_ is what the last row says.
THEOREM LogsOnlyChanges == Spec => OnlyChangesLogged
<1> DEFINE Differs == \A n \in DOMAIN dataLog :
               n = Len(dataLog) /\ dataLog' # dataLog
                  => dataLog'[n + 1].slots # dataLog[n].slots
<1>1. LogInv /\ [Next]_vars => [Differs]_vars
  <2> SUFFICES ASSUME LogInv, Next, NEW n \in DOMAIN dataLog,
                      n = Len(dataLog), dataLog' # dataLog
               PROVE  dataLog'[n + 1].slots # dataLog[n].slots
    OBVIOUS
  <2>1. CompareData
    BY DEF Next, SamplingEnds, PacketReceived, SourcesLost, HandleMergedData,
           LogNewSource, HandleSourcesLost, LogLostSource, LostSourcesLogged,
           logs
  <2>2. dataLog \in Seq(DataRows) /\ DataRow \in DataRows
    BY <2>1, DataRowFacts DEF CompareData, LogInv, IndInv, TypeOK
  <2>3. merged # lastData /\ dataLog' = Append(dataLog, DataRow)
    BY <2>1 DEF CompareData, DataChanged
  <2>4. dataLog'[n + 1] = DataRow
    BY <2>2, <2>3, AppendProperties
  <2>5. dataLog # <<>> /\ Encodes(dataLog[n].slots, lastData) /\ lastData # <<>>
    BY <2>2, EmptySeq DEF LogInv, LastDataInv
  <2>6. Encodes(DataRow.slots, merged)
    BY <2>1, OwnersNamed DEF CompareData, LogInv, IndInv
  <2>7. /\ merged \in [Slots -> Datum \cup {Unsourced}]
        /\ lastData \in [Slots -> Datum \cup {Unsourced}]
    BY <2>5 DEF LogInv, IndInv, TypeOK, MergesOf, Datum
  <2>8. QED
    BY <2>3, <2>4, <2>5, <2>6, <2>7, EncodingIsInjective DEF LogInv, IndInv
<1>2. QED
  BY <1>1, LogInvariance, PTL DEF Spec, OnlyChangesLogged

-----------------------------------------------------------------------------
(***************************************************************************)
(* The source log implements SourceLedger: each row is one report.         *)
(***************************************************************************)

LEMMA ReportedUnchanged ==
    ASSUME UNCHANGED sourceLog
    PROVE  Reported' = Reported
  BY DEF Reported, RowsOf, LastRow

\* A row about source is a report that the ledger allows.
LEMMA RowReports ==
    ASSUME TypeOK, NamesInv, RowsInv, LastInv,
           NEW source \in Sources,
           NEW state \in Ledger!Legal[Reported[source.cid]],
           state \in {"started", "moved", "stopped"},
           NEW ip \in {info.ip : info \in Infos} \cup {"Unknown"},
           sourceLog' = Append(sourceLog, SourceRow(state, source, ip)),
           abbreviations' = Naming!WithName(abbreviations, source.cid)
    PROVE  Ledger!Report(source.cid)
<1>1. source.cid \in Cids
  BY DEF Sources
<1>2. /\ RowsOf(source.cid)' # {}
      /\ LastRow(source.cid)' = SourceRow(state, source, ip)
      /\ \A c \in Cids \ {source.cid} :
            /\ RowsOf(c)' = RowsOf(c)
            /\ RowsOf(c) # {} => LastRow(c)' = LastRow(c)
  BY RowAppended
<1>3. SourceRow(state, source, ip).state = state
  BY DEF SourceRow
<1>4. Reported' = [Reported EXCEPT ![source.cid] = state]
  BY <1>1, <1>2, <1>3 DEF Reported
<1>5. QED
  BY <1>4 DEF Ledger!Report

\* What a CID was last reported as, by its entry in cidIpAddrMap_.
LEMMA ReportedByAddress ==
    ASSUME LogInv, NEW c \in Cids
    PROVE  /\ c \in DOMAIN cidIpAddr => Reported[c] \in {"started", "moved"}
           /\ c \notin DOMAIN cidIpAddr => Reported[c] \in {"never", "stopped"}
<1>1. CASE RowsOf(c) = {}
  BY <1>1 DEF LogInv, AddressInv, Started, Reported
<1>2. CASE RowsOf(c) # {}
  <2>1. PICK i \in RowsOf(c) : LastRow(c) = sourceLog[i]
    BY <1>2, LastRowFacts DEF LogInv, IndInv
  <2>2. sourceLog[i] \in SourceRows
    BY <2>1, RowIndices, ElementOfSeq DEF LogInv, IndInv, TypeOK
  <2>3. LastRow(c).state \in {"started", "moved", "stopped"}
    BY <2>1, <2>2 DEF SourceRows
  <2>4. Reported[c] = LastRow(c).state
    BY <1>2 DEF Reported
  <2>5. QED
    BY <1>2, <2>3, <2>4 DEF LogInv, AddressInv, Started
<1>3. QED
  BY <1>1, <1>2

\* Each source's rows follow its life.
THEOREM ImplementsLedger == Spec => FollowsLifecycle
<1>1. Init => Ledger!Init
  BY EmptySeq DEF Init, Ledger!Init, Reported, RowsOf
<1>2. LogInv /\ [Next]_vars => [Ledger!Next]_Reported
  <2> SUFFICES ASSUME LogInv, [Next]_vars, sourceLog' # sourceLog
               PROVE  Ledger!Next
    BY ReportedUnchanged
  <2>1. ASSUME NEW source \in toLog, LogNewSource(source)
        PROVE  Ledger!Next
    <3> DEFINE state == IF source.cid \in DOMAIN cidIpAddr THEN "moved"
                                                           ELSE "started"
    <3>1. /\ source \in Sources /\ source.cid \in Cids
          /\ source.info.ip \in {info.ip : info \in Infos} \cup {"Unknown"}
      BY DEF LogInv, IndInv, TypeOK, Sources
    <3>2. /\ state \in {"started", "moved", "stopped"}
          /\ state \in Ledger!Legal[Reported[source.cid]]
      BY <3>1, ReportedByAddress DEF Ledger!Legal
    <3>3. /\ sourceLog' = Append(sourceLog,
                                 SourceRow(state, source, source.info.ip))
          /\ abbreviations' = Naming!WithName(abbreviations, source.cid)
      BY <2>1 DEF LogNewSource
    <3> HIDE DEF state
    <3>4. Ledger!Report(source.cid)
      BY <3>1, <3>2, <3>3, RowReports DEF LogInv, IndInv
    <3>5. QED
      BY <3>1, <3>4 DEF Ledger!Next
  <2>2. ASSUME NEW source \in toLog, LogLostSource(source)
        PROVE  Ledger!Next
    <3> DEFINE ip == IF source.cid \in DOMAIN cidIpAddr
                     THEN cidIpAddr[source.cid] ELSE "Unknown"
    <3>1. /\ source \in Sources /\ source.cid \in Cids
          /\ ip \in {info.ip : info \in Infos} \cup {"Unknown"}
      BY DEF LogInv, IndInv, TypeOK, Sources
    <3>2. "stopped" \in Ledger!Legal[Reported[source.cid]]
      BY <3>1, ReportedByAddress DEF Ledger!Legal
    <3>3. /\ sourceLog' = Append(sourceLog, SourceRow("stopped", source, ip))
          /\ abbreviations' = Naming!WithName(abbreviations, source.cid)
      BY <2>2 DEF LogLostSource
    <3> HIDE DEF ip
    <3>4. Ledger!Report(source.cid)
      BY <3>1, <3>2, <3>3, RowReports DEF LogInv, IndInv
    <3>5. QED
      BY <3>1, <3>4 DEF Ledger!Next
  <2>3. QED
    BY <2>1, <2>2
    DEF Next, SamplingEnds, PacketReceived, SourcesLost, HandleMergedData,
        CompareData, HandleSourcesLost, LostSourcesLogged, vars, logs
<1>3. QED
  BY <1>1, <1>2, LogInvariance, PTL DEF Spec, FollowsLifecycle, Ledger!Spec
=============================================================================
