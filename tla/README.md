# sACN Logger: TLA+ specifications

sACN Logger listens to sACN (E1.31) universes and writes two CSV logs for each:
who is sending ("sources") and what the merged levels are ("data"). It runs as a
console program and as the only service of a Raspberry Pi image. This directory
holds TLA+ modules of its core, TLC configurations that check them on small
instances, and TLAPS proofs for constants of any size.

All source paths below are relative to the repository's root.

## 1. Inventory

### Components

| Component | Source | State | Operations |
| --- | --- | --- | --- |
| `AbbreviationMap` | `src/sacnloggerlib/AbbreviationMap.cpp` | map from CID to marker, next marker | `abbreviationForUuid` |
| `UniverseNotifyHandler` | `UniverseMonitor.{h,cpp}` | last sources, last data, last address of each CID, the markers | `HandleMergedData`, `HandleSourcesLost`, `HandleNonDmxData` (empty) |
| `UniverseMonitor` | `UniverseMonitor.{h,cpp}` | two loggers, merge receiver, handler | `start`, destructor |
| `DiskSpaceMonitor` | `DiskSpaceMonitor.{h,cpp}` | path, two thresholds, two "met" flags, mutex, a jthread | the worker's loop, setters, destructor |
| `Runner` | `Runner.{h,cpp}` | config, `running_`, universe monitors, disk monitor | `start`, `stop`, `setConfig`, `onCriticalDiskSpace`, `startAsync` |
| `main` | `src/sacnlogger/main.cpp` | `termRequested` | load, start, wait for a signal, stop |
| `Config` | `Config.cpp`, `resources/schema/` | universes, `usePap`, system config | `loadFromFile`, `saveToFile`, JSON conversions |
| `SystemConfig`, `NetworkConfig` | `SystemConfig.cpp`, `SystemConfig/NetworkConfig.cpp`, `resources/system_config/` | DHCP, address, mask, gateway, NTP | `readFromSystem`, `writeToSystem` |
| `AddressOrHostname` | `AddressOrHostname.cpp` | a variant | `setValue`, `toString`, `isValid` |
| `CsvRow` | `CsvRow.cpp` | a stream | `operator<<` |
| Log pipeline | spdlog as `UniverseMonitor::start` and `main` set it up | one async queue, one writer thread, rotating files | `info`, the writer, `shutdown` at exit |
| `EtcPalLogHandler` | `src/sacnlogger/EtcPalLogHandler.cpp` | none | forwards log messages |
| Install paths | `src/sacnlogger_share.cpp` | cached paths | directory look-up |
| Raspberry Pi image | `raspi/` | mounts, units | boot, start of the service |

### Threads and interactions

* **main** loads the config, starts the runner, joins a thread that polls
  `termRequested` each second, stops the runner and returns; `~Runner` then
  joins the disk monitor's worker.
* **The disk monitor's worker** polls every 10 s. On critical space it calls,
  under `configMx_`, every slot of `sigCriticalSpace`: `Runner::onCriticalDiskSpace`,
  hence `Runner::stop`, hence the destructors of the universe monitors.
* **The sACN library's receive thread** calls each universe's handler, one
  callback at a time. `Shutdown` of a receiver waits for a callback in progress.
* **spdlog's writer thread** takes the rows of all universes from one bounded
  queue and gives them to the files; a full queue blocks the receive thread in
  `info()`. Messages to `app.log` are written by the thread that logs them.
* **A signal** sets `termRequested`.
* **systemd** starts the service when the drive is mounted, restarts it whenever it
  ends, and stops it when the drive goes (`raspi/`).

`Runner::universeMonitors_` and `running_` are shared by main and the disk
worker without a lock.

### What is hard

* stop on one thread while start or stop is on another;
* destruction of objects that another thread calls into;
* the order of the library's callbacks, loss and return of sources, the end of
  the sampling period, "changed since last time" comparisons against state that
  several branches maintain;
* signals that are latched by flags and re-armed by a third branch;
* a mutex held through callbacks and through the sleep;
* the schema, the defaults, the JSON conversion and the template, which
  together decide whether a network file is usable;
* carries of the marker;
* rows that were accepted and are still in the queue or in a stdio buffer when the
  power goes, the drive is pulled or the process is told to stop, and restarts that
  append to what is left.

`PROJECT.json` lists each hazard at its line with the properties that cover it.

### What makes each component correct

| Component | Correct when |
| --- | --- |
| `AbbreviationMap` | markers are distinct, stable and in the documented order |
| `UniverseNotifyHandler` | the logs can be replayed: the source log gives the live sources with address and name, the data log gives the merge, each marker means one source, only changes are logged |
| `DiskSpaceMonitor` | a signal fits the thresholds of its moment, comes once a shortage, comes if the shortage lasts; the destructor returns |
| `Runner` with `UniverseMonitor` and `main` | a critical stop stops and lasts, the monitors are the configured ones, nothing is leaked, callbacks find their handler, a restart restarts, SIGTERM ends the process |
| Log pipeline | what is on disk of each run of a log is a beginning of what it was handed, all of it after a clean exit; the space is bounded; a full queue and a shutdown end |
| `CsvRow` | a CSV reader gets the fields back |
| `Config`, `NetworkConfig` | what the schema accepts is enough for the file that is written; static settings that are written read back; a static config that is saved loads |

## 2. Modules

| Module | Models | Uses |
| --- | --- | --- |
| `OrdinalNames` | abstract: the nth CID asked for gets the nth name and keeps it | |
| `AbbreviationMap` | the markers as sequences of letters, with carry; maps a marker to its ordinal | `OrdinalNames` by refinement |
| `MCAbbreviationMap` | instance | |
| `AbbreviationMapProofs` | proofs: distinctness, and the refinement | `Recursion` |
| `SourceLedger` | abstract: started, then moved, then stopped | |
| `UniverseNotifyHandler` | the handler and, as its environment, the merge receiver; maps the log to the last state of each CID | `OrdinalNames` for the marker map, `SourceLedger` by refinement |
| `MCUniverseNotifyHandler` | instance | |
| `UniverseNotifyHandlerProofs` | proofs: markers, announcements, attribution; then what the last rows of the logs tell, and the ledger | |
| `DiskSpaceMonitor` | the worker's loop, the setters, the disk | |
| `MCDiskSpaceMonitor`, `DiskSpaceMonitorProofs` | instance, proofs | |
| `Runner` | runner, universe monitors' lifetime, main, receive thread | `DiskSpaceMonitor` as a component |
| `MCRunner` | instance | |
| `RunnerProofs` | proofs | `DiskSpaceMonitorProofs`, instantiated |
| `DurableLog` | abstract: rows arrive in order, a crash takes what had not arrived | |
| `LogPipeline` | queue, writer, stdio, rotation, start and exit of the process, the drive; maps queue and buffers to what is pending | `DurableLog` by refinement |
| `MCLogPipeline` | instance | |
| `LogPipelineProofs` | proofs: what is on disk, and the refinement | |
| `CsvRow`, `MCCsvRow` | a row as characters, a CSV reader; instance | |
| `CsvRowProofs` | proofs: what the reader gets back | `Recursion` |
| `DeviceConfig` | config file, schema, network settings, networkd | |
| `MCDeviceConfig`, `DeviceConfigProofs` | instance, proofs | |
| `Recursion` | no code: induction over an interval and functions defined by recursion over one, as lemmas | |

### How state and actions correspond to the code

**AbbreviationMap.** Letters are numbers `A .. Z` for an alphabet of `Letters`
letters. `Increment` is the loop over `nextAbbreviation_` from the right written
as what it leaves behind; `KnownUuid` and `NewUuid` are the two outcomes of the
`empty()` test.

**UniverseNotifyHandler.** `lastSources`, `lastData`, `cidIpAddr` and
`abbreviations` are the handler's members. A callback is a sequence of steps
(`pc`): `HandleMergedData` computes the sources that the loop will visit,
`LogNewSource` is one round of it, `CompareData` is all from `lastSources_ =` to
the return; likewise `HandleSourcesLost`, `LogLostSource`, `LostSourcesLogged`.
The sets are visited in any order; the code visits `std::set` in a fixed one, so
the model allows more. Rows appear in `sourceLog` and `dataLog` when they are
handed to the logger. The library side (`live`, `merged`, `sampling`, `pending`,
`lost`) is external: events happen between callbacks, each event ends in the
callbacks it causes, and a loss causes both, in either order. A source's handle
is its CID here: handles matter to the code only as keys within one callback.
Priority and level of an address are one value, `Levels`.

**DiskSpaceMonitor.** `workerPc` is the place in the loop: top, lock, poll, one
of the two signals, sleep. `Poll` is `space()` with the comparisons up to the
call of a signal, all under `configMx_`; a signal takes a step of its own, since
its slots run for as long as they like. Space comes in a handful of units, and
`Unreadable` is the exception. `rearmed` is a history variable.

**Runner.** The disk monitor is an instance of its module, so that every one of
its steps is a step here. `stop()` takes a step for each object destroyed, on
either thread (`stopPc`): the handler first and the merge receiver next, the
reverse of the order of declaration. `start()` takes a step per line. `calls`
counts the slots a signal has still to call; `slots` grows with every `start()`.
`rxIn` is the universe whose callback the receive thread is in.
*Undefined behaviour*: when two threads are inside `universeMonitors_` at once
the vector may become anything. The model enters `raced`, an absorbing state
about which nothing is claimed; `overlapped` remembers that the critical signal
came while a start was under way. A config that does not load ends `main` before there
is a runner (`unloaded`), so before there is a worker: the component's worker stands at
the top of its loop there and does nothing that counts.
`networkConfig.writeToSystem`, the first thing an embedded `start()` does, is in
`DeviceConfig`.

**LogPipeline.** A row is a record of its log and its number in `queue`, and two
pieces in a file, so that a block boundary can cut it. `handed` counts the rows that
`info()` accepted, `written` those that the file sink was given. `OpenLogs`,
`LogHeader` are the first half of `UniverseMonitor::start`; `LogRow` and `RowPosted`
are a callback's `info()` before and after it found room; `LogToApp` is any message
to `app.log`, from etcpal or not. `WriteRow` is the sink: rotate if the row would not
fit, then hand it to stdio, which writes whole blocks. `stored` keeps all that ever
reached the disk and `files` where in it each file that still exists begins, so that a
rotation's deletions are visible and the order across files is still there. `Stop`,
`CloseLog`, `Exit` are the end of `main` and `sacnCleanup`; `Crash`, `Unplug`, `Plug`
are the power and the drive. `mounted` and `intact` say what has happened in the run.
spdlog and stdio are external, modelled from how the code sets them up: one pool with
the default blocking queue (`async_factory`), rotating sinks with the sizes given,
no `flush_on`. The receive thread and main are the only callers; which universe's
start is under way is left open.

**CsvRow.** `stream` and `file` are sequences of characters; `Quoted`, `PutInteger`,
`String` and `LogRow` are the two operators, `string()` and a call of `info` with
the logger's pattern. `Escaping` is the loop over a text, `PutChar` one round of it.
`Reading` is a CSV reader, written for the comparison: `Run` takes it through a text
from any of its states.

**DeviceConfig.** A JSON document is a record whose members may be `Absent`; a
text is one of a few addresses, a host name, the empty text or `BadText`. What is a host
name is said twice in the repository, by the schema's format (`HostnameFormat`) and by
`hostnameRe` (`Hostnames`), and neither contains the other: the format takes `ntp`, which
is too short for the expression, and `time.lan1`. `SetValue` leaves the server unset then.
`ValidDocument` is the schema, condition for condition, including that a
condition on an absent property is met and that `oneOf` refuses two matches.
`FromJson` is the patch of defaults and `from_json` over a default object;
`LoadFromFile` begins a run of the program, which a missing schema, a bad document or
an exception of `writeToSystem` ends (`config` is `Nothing` again). `Reboot` loses the
network file, whose root is in memory, and keeps the config file, which is on the drive.
`NetworkFile` is the template: of the mask it has only the number of leading ones
(`MaskLength`), from which `readFromSystem` makes a mask again (`Netmask`). That loses a
mask that is not contiguous. `readFromSystem` is `ReadNetwork` and
`FoundEth0`. networkd is external: it takes the file some time after `Reload`, and no
address with a prefix that is longer than it. The history variables `loaded`, `written`
and `taken` carry the config file's network object along with what is made of it, so that
the properties compare with what the operator wrote and not with the program's own copy.
The repository has no program that calls `readFromSystem` or `saveToFile`; they
are library operations that its tests call, and the model lets a program call
them at any time, after the load.

## 3. Runs

Sizes are distinct states and the time on two workers.

| Run | Instance | Size | Shows |
| --- | --- | --- | --- |
| `abbreviations` | 7 CIDs, 2 letters | 14 thousand, 6 s | distinct, in the documented order, implements `OrdinalNames` |
| `notify` | 2 CIDs, 3 infos, 1 slot, 2 levels, up to 4 source rows and 3 data rows | 1.5 million, 80 s | see below |
| `disk` | space 0 to 3 | 8 thousand, 2 s | signals and stop |
| `runner` | universes 1, 2; configs <<1>> and <<2, 1>>; 1 `setConfig`; space 0 to 2 | 109 thousand, 60 s | ownership, critical stop, exit |
| `config` | 4 IPv4 addresses of two bits, 1 IPv6 address, 2 host names; 2160 network objects or none, 5 other universe lists | 631 thousand, 35 s | files and round trips |
| `pipeline` | 1 universe, hence 3 logs; queue of 2 rows, buffer of 3 pieces, files of 4 pieces, 2 files a log; 2 runs of 2 or 3 rows a log | 303 thousand, 60 s | what a log keeps, space, progress |
| `csv` | characters quote, comma, newline and a letter; texts up to 2, up to 3 fields in a file | 87 thousand, 11 s | `RoundTrip` |

* `TypeOK` (all): the shape of the state, one per module.
* `DistinctAbbreviations`, `NamesInOrder`: two CIDs never share a marker, and
  markers read in length-then-letter order are the ordinals.
* `ActiveSourcesNamed`: when the data is compared every active source has a
  marker that the source log has announced; `sourceNames.at` cannot throw.
* `MarkersUnambiguous`: over the whole log, one marker is one CID.
* `DataRowsAttributed`: a data row names only sources announced, and not yet
  said to be gone, when it was written.
* `LogTracksSources`, `DataLogTracksMerge`: between events, replaying the logs
  gives the live sources and the merge.
* `OnlyChangesLogged`: a new data row differs from the last.
* `FollowsLifecycle`: the rows of each source follow `SourceLedger`. A source lost
  before the sampling period ends is said to stop without having started; the
  ledger allows it because the code does it.
* `SignalMatchesThresholds`, `OneSignalPerShortage`, `ShortageSignalled`,
  `StopReturns`: the four promises of the disk monitor.
* `CriticalStopLasts`: after a critical signal outside a start, nothing runs and
  nothing comes back. `RunningMonitorsConfig`: while `running_`, the monitors are the
  configured ones. `ReceiversOwned`: each receiver and handler belongs to a
  monitor that a stop will reach. `CleanExit`: when main returns after a start there is
  no monitor, receiver, callback in progress or handler left, and the worker has ended.
  `TermLeadsToExit`, `CriticalEventuallyStops`: the liveness of the two ways to
  stop.
* `StaticIsComplete`: a static network file, the one on disk and the one networkd runs,
  has the address, gateway and mask length of the config file it comes from and, if
  wanted, its time server, unless that is a host name which the schema takes and
  `hostnameRe` refuses (see the findings below). `ReadBack`: static IPv4 settings of
  the config file read back as they are there; a mask reads back with the same length,
  and as itself if it is contiguous.
  `SavedStaticReloads`: a static config with a time server survives save and load.
* `RunsUnbroken`: on disk each run of a log begins with its first row, the header, and
  goes on without a gap to where it ends. `CleanExitKeepsAll`: after an exit
  through `sacnCleanup`, with the drive there, that end is the last row handed in.
  `FilesBounded`: `MaxFiles + 1` files of `FileSize`, also after a restart that
  appends to a torn file. `ImplementsDurableLog`: every step is one of `DurableLog` for
  every log, so a crash takes a suffix of what was pending and no more.
  `StallEnds`, `ShutdownEnds`: a full queue lets its caller go and shutdown returns,
  also without the drive, when the rows are lost.
* `RoundTrip`: a CSV reader gets the rows as they were streamed.

`CHECK_DEADLOCK FALSE` is used in `notify` alone, where the bounds on the logs stop
the environment.

### Findings

Five runs show where the code does not do what its own comment or message says.

| Run | Property | What TLC finds |
| --- | --- | --- |
| `critical_start` | `CriticalStopsLogger` | The disk is already critical at start. `setPath` lets the worker poll; it stops an empty runner while main is about to create the monitors. The flag is latched, so the logger runs on a full disk and the signal does not return. |
| `handler_lifetime` | `CallbackHasHandler` | `~UniverseMonitor` destroys the handler, then shuts down the receiver that calls it. |
| `restart_same_universe` | `RestartSucceeds` | `setConfig` while running throws for a universe that stays: its loggers' names are still registered. Nothing in `main` calls `setConfig` today. |
| `eth0_second` | `Eth0Found` | The loop over the links breaks after the first. |
| `ntp_off` | `NtpDisabled` | The template writes `NTP=` for a config with `ntp` false. |

Seen while reading, not the subject of a run: `doc/config.rst` describes a YAML file and
the code reads JSON; a config saved with DHCP, or without a time server, contains empty
texts that its own schema refuses; with DHCP and `ntp` false the template leaves out
`UseNTP`, whose default in networkd is yes; `hostnameRe`, which "captures FQDN and
hostnames" (`AddressOrHostname.cpp:27`), takes none of fewer than four characters nor
one of several labels with a digit in the last, `setValue` then says nothing, and a
static config with `ntp` true and a server like `ntp`, which the schema accepts, gets a
network file without a time server (`config` reaches such files: `StaticIsComplete` lets
this case, and no other, pass); a mask that is not contiguous passes the schema and
reads back as the netmask of its leading ones; the IPv6 branch of
`ipAddrFromNetworkdJson` cannot be reached; an exception of `getValidator` is not a
`ConfigException` and ends the program.

### Bounds and why they are enough

* `abbreviations`: with two letters, seven names cross both kinds of carry (A, B,
  AA, AB, BA, BB, AAA). The number of letters enters the code only as 'Z'.
* `notify`: two CIDs are enough for a confusion of two sources, three infos make
  a change of address alone, of name alone and of both; four source rows hold
  start, move, stop and return. `MaxSourceRows` and `MaxDataRows` stop new events
  and never a callback, so each log may pass its bound by one event's rows. One slot:
  slots never interact. The CIDs are a symmetry set; the only liveness-like
  property, `FollowsLifecycle`, is a safety property that treats them alike.
* `disk`: four values of space put a reading below, between and above any two
  thresholds, including equal and crossed ones.
* `runner`: two universes make the vector's order and a partial clear visible; the
  configs share one; one `setConfig` gives a second connection of the slots.
* `config`: each field absent, good, of the other family or malformed. Two bits are the
  least with a mask that is not contiguous (01), besides no ones, some and all. One host name
  is taken by both definitions, one by the schema alone.

* `pipeline`: three logs share the queue, so rows of two of them interleave and one
  waits. The buffer is no multiple of a row, so blocks cut rows; a file holds two
  rows, so three rows rotate and the second run deletes. Two runs make an append
  to what a crash, a pulled drive or a clean exit left. `MaxRows` and `MaxRuns` stop
  new rows and new runs, never a row that was accepted.
* `csv`: two characters are a quote before or after anything else; three fields make
  two rows, and neighbours of both kinds.

### Fairness

* `DiskSpaceMonitor`: `WF(Worker)`. The worker is a thread and its sleep ends.
* `Runner`: weak fairness of the main thread, of the worker and of a callback's
  return: threads that can run do, and the handler's code has no loop that waits.
  Strong fairness of `ShutdownReceiver` on either thread: the receive thread leaves
  its callbacks between packets, so a `Shutdown` that waits for it gets its turn, even
  though new packets keep coming. No fairness for the disk, packets, the operator
  or a failing load. `std::mutex` promises nothing to a waiting thread, so no
  strong fairness is given to `SetPath`; `TermLeadsToExit` says so in its premise
  (`[]<>(mainPc # "setPath")`).
* `LogPipeline`: weak fairness of the writer (a thread), of a caller's wait for room
  (the writer notifies it; the receive thread is the only one that calls while
  universes are up), of closing and of the exit. None for rows, signals,
  the power or the drive.

### Mutants

For each property of a passing run the modules define a faulty version of a
definition (`IncrementNoCarry`, `AddressKept`, `RunningKept`, ...), placed before the
right one and used nowhere. `PROJECT.json` pairs them: with the faulty version
in place the run finds that property violated, so each property tells a plausible
mistake from the code.

## 4. Proofs

| Theorem | Says, for every value of the constants |
| --- | --- |
| `AbbreviationMapProofs!TypeCorrect`, `MarkersAreUnique` | `TypeOK`, `DistinctAbbreviations` |
| `AbbreviationMapProofs!ImplementsOrdinalNames` | `NamesInOrder`: the map implements `OrdinalNames` |
| `UniverseNotifyHandlerProofs!TypeCorrect`, `MarkersIdentify`, `SourcesNamedFirst`, `DataRowsReadable` | `TypeOK`, `MarkersUnambiguous`, `ActiveSourcesNamed`, `DataRowsAttributed` |
| `DiskSpaceMonitorProofs!TypeCorrect`, `SignalsMatch`, `SignalsOnce` | `TypeOK`, `SignalMatchesThresholds`, `OneSignalPerShortage` |
| `RunnerProofs!TypeCorrect`, `ReceiversAreOwned`, `CriticalStopIsFinal`, `RunningIsComplete`, `ExitIsClean` | `TypeOK`, `ReceiversOwned`, `CriticalStopLasts`, `RunningMonitorsConfig`, `CleanExit` |
| `RunnerProofs!MonitorPromises` | `SignalMatchesThresholds` and `OneSignalPerShortage` of the disk monitor inside the runner |
| `UniverseNotifyHandlerProofs!SourceLogIsCurrent`, `DataLogIsCurrent`, `LogsOnlyChanges` | `LogTracksSources`, `DataLogTracksMerge`, `OnlyChangesLogged` |
| `UniverseNotifyHandlerProofs!ImplementsLedger` | `FollowsLifecycle`: the handler implements `SourceLedger` |
| `DeviceConfigProofs!StaticFilesComplete`, `TypeCorrect`, `ReadsBackWritten`, `SavedReloads` | `StaticIsComplete`, `TypeOK`, `ReadBack`, `SavedStaticReloads` |
| `LogPipelineProofs!TypeCorrect`, `LogsUnbroken`, `CleanExitKeeps`, `LogFilesBounded` | `TypeOK`, `RunsUnbroken`, `CleanExitKeepsAll`, `FilesBounded` |
| `LogPipelineProofs!ImplementsDurable` | `ImplementsDurableLog`: the pipeline implements `DurableLog` for every log |
| `CsvRowProofs!TypeCorrect`, `RowsReadBack` | `TypeOK`, `RoundTrip` |

With these, every safety property of the passing runs is also proved. Each conjunct
of an inductive invariant that TLC can evaluate was checked with it, on the instance
of the component's run, before it was proved. (`StreamInv` of `CsvRow` speaks of every
reader's state; TLC checked it from the first one.)

**AbbreviationMap.** Distinctness alone is not inductive: a new marker must also
differ from all given ones. The invariant says that every given marker comes before
`nextAbbreviation` in length-then-letter order. `Increment` is shown to give a later
marker, and the order to be transitive and irreflexive. For the refinement of
`OrdinalNames` later is not enough: `Increment` has to add exactly one to the ordinal.
The ordinals of a marker's beginnings are compared with those of its successor, from
the left: up to the letter that is bumped they are the same, and from there on one
apart, because a letter that wraps was worth `Letters` and is worth 1 while the
beginning before it counts `Letters` more (`Wrap`); when all letters wrap, the new
marker's beginnings are one longer (`AllWrap`). The invariant is then that the ordinal
of `nextAbbreviation` is the number of known CIDs plus one (`OrdinalInv`). Assumption: at
least one letter.

**UniverseNotifyHandler.** The invariant has a conjunct per idea: ordinals are
distinct and at most the number of CIDs named, so the next one is new
(`NamesInv`); each logged row carries the marker its CID has in the map (`RowsInv`);
what the library has pending agrees with what it tracks, and a source reported lost
is not live (`LibraryInv`); what a loop has yet to visit is part of what its
callback was given (`LoopInv`); a source in `lastSources` that is live has been
announced and not said to stop since, and one that left is forgotten before it can
come back (`AnnouncedInv`); and the data rows are attributed (`DataInv`).
`DataRowsAttributed` needs all of them: a data row is written from the library's
state, and only `AnnouncedInv` connects that with what the log says. Assumption: `NoOwner` is no CID. The set of CIDs may be infinite: only those named,
finitely many, are counted.

**What the logs tell (`UniverseNotifyHandlerProofs`).** `LogTracksSources` speaks of the moments
between events, so the invariant has to say, in the middle of every loop, what the
log is still behind with (`TrackInv`): outside the loop over new sources it is up to
date about what `lastSources` holds, inside about what the loop has not to visit any
more; and a source that the log has and the library has not is in the set of those
still to be logged as lost. `AddressInv` makes `cidIpAddr` the set of sources that the
log says are there, which is how the loop over lost sources knows whom to log.
`LastInv` is that every CID with rows has a last one. `LastDataInv` is the same for
the data log: the last row encodes `lastData`, in the markers of the moment, so that
comparing `lastData` with the merge is comparing the row with the one to be written
(`OnlyChangesLogged`). For the ledger, a step that adds a row is `Ledger!Next` for that
row's CID, by what `AddressInv` says of its last row, and any other step a stutter.
Assumption: there is a slot; a universe has 512.

**DiskSpaceMonitor.** `TypeOK` carries the agreement of the mutex with the
worker's place; a signal in progress keeps the reading and, by the mutex, the
thresholds. `OneSignalPerShortage` rests on `ReadyToSignal`: a flag that is not set
means that the monitor has been re-armed. Assumption: the default thresholds are
sizes of the file system's range, in either order.

**Runner.** The disk monitor is a component: every step of the runner is a step of
`DiskSpaceMonitor` or leaves its variables alone, so its invariant, proved once, holds
here, and with it its promises while `stop()` runs in the middle of a signal. The
runner's own promises are not inductive. That a running runner monitors its config
(`StartInv`: after the line for the `ix`-th universe the first `ix` have their monitor
and no other) needs a critical stop that met no start to be over before main starts
again; `CriticalInv` says so (before its first slot returns the vector is empty and
`running` is false, and main is waiting or stopping for good), and needs in turn
`ControlInv`, where each thread may be, and `MonitorsInv`, that the vector is empty
where `stop()` ends. `ControlInv` also says that a callback in progress is one of a started
receiver, so that with the receivers gone at the exit no callback is left (`CleanExit`). Nothing is claimed of the vector once `raced` holds. Assumptions: a config lists distinct universes, as the schema demands
(`DeviceConfigProofs!TypeCorrect`), and the default thresholds are sizes.

**DeviceConfig.** An object that the schema accepted gives a complete file
(`AcceptedIsComplete`, over the schema's conditions, the defaults, `setValue` and the
template), and the invariant (`IndInv`) is that the file on disk and the one networkd runs
were each written from such an object. `SavedStaticReloads` needs more: a config is saved
after settings were read from eth0, so whatever is at hand must have a time server that
the schema takes again. The invariant says of each place that a server passes through
what it must to give one: of the config at hand that it is what its document loads to,
of eth0's description that it is what networkd makes of the file it runs, of settings read
back that they are typed and, unless DHCP is on, have such a server. A server that DHCP
chose need not pass, which is why the property is about static configs. `ReadBack` follows
from the same invariant: the link that was read describes the file that networkd ran, with
the mask's length as its prefix, and `Netmask` gives a mask with as many leading ones. No
relation between `Hostnames` and `HostnameFormat` is assumed. Assumptions:
`DeviceAssumption`, that address texts, host names and the markers for absent and empty are
different values, an absent object is no object and no network file is `Nothing`;
`MaskAssumption`, that the mask made of a number of ones has that many leading ones and
that an IPv4 mask has at most `V4Bits`. That other masks exist is left open: the theorem
covers them.

**LogPipeline.** What is on disk is only part of the story, so the invariant speaks of a
log's stream, what is stored and then what is buffered. `QueueInv`: the queue holds, in
order and without a gap, the rows of each log that were handed in and not written, so
the head of the queue is its log's next row (`HeadIsNext`). `StreamInv`: a stream is
unbroken and, while nothing was lost, ends with the last row written; `ProcessInv` makes
"nothing was lost" the same as "the drive is there" while the process runs, so a row is
only ever added to a stream that ends before it (`UnbrokenExtends`), and a crash or a
pulled drive takes off an end (`UnbrokenPrefix`). `FilesInv` bounds the files, the
current one with its buffer; a rotation begins the new file where stored and buffered
rows end (`RotatedOK`). At exit no row waits and no buffer holds any, so the stream's end
is the file's. Assumptions: a queue and a buffer of at least one, a file of at least
one row.

**Refinement of `DurableLog`.** What is pending of a log is its
buffer and then the rows that were handed in and not written. The mapping gives those
rows by their numbers, `written` to `handed`, rather than by picking them out of the
shared queue; that both are the same is `QueueInv`, and that the writer appends just
the first of them is `HeadIsNext`. Each step is shown to be, for every log, an
`Advance` (rows come in at one end of what is pending and pieces arrive at the disk at
the other) or a `Lose` (a crash, a pulled drive: what is stored keeps a beginning of
what was pending). A rotation flushes the old file's buffer, which is an `Advance`
of its own log and none of any other. `HandedInv` keeps the rows within the abstract log's:
a caller that waits for room still has a row to hand in. No assumption beyond
`LogPipeline`'s.

**CsvRow.** `RoundTrip` speaks of the whole file, which grows by a line at a time, so
what is needed is how the reader goes on: reading `s \o t` is reading `t` from where `s`
left the reader (`RunConcat`). Then each piece is read from any state it may follow: a
text inside its quotes comes back as it was before it was escaped (`EscapingRead`),
digits as they are (`PlainRead`), a field with its comma moves the reader to the next
field of the row. `StreamInv` says of the row under construction that it ends with a
comma and that what stands before it leaves the reader at the end of the row's last
field, wherever it began; that is what makes taking the comma off (`String`) harmless:
the line end takes its place. `FileInv` is `RoundTrip` with the reader's mode, which has to
be plain for the next row to be read. Assumptions: quote, comma and line end are no
ordinary characters, and an integer prints as one or more of those.

**Recursion.** What a loop over a sequence computes is proved by induction on the number
of elements taken. `Recursion` states induction for sets (`IntervalInduction`: what
holds at 0 and goes on from each number to the next holds on the interval) and the
existence of a function defined by recursion (`IntervalRecursion`); both follow from the
least element of a set of numbers (`LeastNumber`). `Run`, `Escaping` and `Ordinal` are
recursive functions over an interval. For each there is one lemma that gives its
values step by step (`RunHasTrace`, `EscapingHasTrace`, `OrdinalHasValue`), and the proofs use only
that.

Only model-checked, and why: the liveness properties `ShortageSignalled`, `StopReturns`,
`TermLeadsToExit`, `CriticalEventuallyStops`, `StallEnds` and `ShutdownEnds`. Fairness and
`ENABLED` are out of the prover's reach.

## 5. Not modelled

* `sacnlogger_share.cpp`: two look-ups in the environment; `DeviceConfig` has their
  outcomes, a schema or template that is found or not.
* `Runner::startAsync`, `UniverseMonitor::setUniverse`: no caller. `usePap` beyond the
  config file: it is passed on to the library.
* How the Raspberry Pi image is built. systemd's limit on restarts.
* Inside spdlog: a rename that fails during a rotation, a full disk (the disk
  monitor is there to prevent it), its error messages. Inside the system: the page
  cache of a mount without `sync` (the appliance's has it).
* The order on disk of rows of different logs: nothing in the code relates them, and
  after a crash a data row may name a source whose announcement was lost.
* The data race on `path_` (`DiskSpaceMonitor.cpp:34`) beyond both of its
  outcomes, and on `termRequested`.
* Several universes on one receive thread inside `UniverseNotifyHandler`: handlers
  share nothing but the queue, which `LogPipeline` has. `GetSource` failing during a
  `Shutdown`: the library is taken to answer within its own callback.
* Wording of messages; DMX slots beyond their independence.

## 6. Plan

The model is complete up to section 5, and every safety property and every refinement
is proved. What is left, should the code or the tools move on:

1. **Liveness**: the writer's and the closer's progress as a measure that each step
   decreases, the part of `StallEnds` and `ShutdownEnds` that is not temporal.
2. **`startAsync`, `setUniverse`**: when something calls them, as actions of `Runner`.
