---------------------------- MODULE LogPipeline ----------------------------
(***************************************************************************)
(* The way of a row from the logger's info() to the disk, over several     *)
(* runs of the process: UniverseMonitor::start makes two asynchronous      *)
(* rotating loggers for each universe, main makes a synchronous one        *)
(* (app.log) and shuts spdlog down at exit.  spdlog has one bounded queue  *)
(* and one writer thread for all asynchronous loggers; each file has a     *)
(* stdio buffer, which nothing flushes before it is full or closed.  The   *)
(* files are on a drive that can be pulled and put back (raspi/).          *)
(*                                                                         *)
(* A row is two pieces, enough to be cut in two.  Sizes are in pieces.     *)
(***************************************************************************)
EXTENDS Integers, Sequences, FiniteSets

CONSTANTS
    Universes,          \* the configured ones
    QueueSize,          \* spdlog's queue: 8192 messages
    BufferSize,         \* stdio's buffer
    FileSize,           \* maxLogFileSize, and main's 5 MB
    MaxFiles,           \* maxLogFileCount: old files beside the current one
    MaxRows, MaxRuns    \* bounds: rows of each log in a run, runs

CsvLogs == Universes \X {"sources", "data"}
AppLog == <<"main", "app">>
Logs == CsvLogs \cup {AppLog}
NoLog == <<"none", "none">>

ASSUME SizeAssumption ==
    /\ QueueSize \in Nat \ {0} /\ BufferSize \in Nat \ {0}
    /\ FileSize \in Nat \ {0, 1}
    /\ MaxFiles \in Nat /\ MaxRuns \in Nat
    /\ MaxRows \in [Logs -> Nat \ {0}]

VARIABLES
    phase,              \* "off", "on", or "closing": in spdlog::shutdown
    run,                \* the number of this run
    opened,             \* logs with an open file
    handed,             \* rows handed to each log in this run
    written,            \* rows its sink has been given
    rx,                 \* the log in whose info() the receive thread is
    queue,              \* rows on their way to the writer thread
    buffer,             \* stdio's buffer of each file
    stored,             \* all that ever reached the disk
    files,              \* where in stored each file that exists begins
    mounted,            \* the drive is there, and was since this run began
    intact              \* neither crash nor pulled drive in this run

process == <<phase, run, opened, rx>>
disk == <<buffer, stored, files>>
environment == <<mounted, intact>>
vars == <<process, handed, written, queue, disk, environment>>

Zero == [l \in Logs |-> 0]
Empty == [l \in Logs |-> <<>>]

Init ==
    /\ phase = "off" /\ run = 0 /\ opened = {}
    /\ handed = Zero /\ written = Zero
    /\ rx = NoLog /\ queue = <<>>
    /\ buffer = Empty /\ stored = Empty /\ files = Empty
    /\ mounted = TRUE /\ intact = TRUE

-----------------------------------------------------------------------------
(***************************************************************************)
(* The rotating file sink and stdio.                                       *)
(***************************************************************************)

Pieces(n) == << <<run, n, 1>>, <<run, n, 2>> >>

\* Files are opened to append; a new one begins where all that exists ends.
OpenFile(l) == IF files[l] = <<>> THEN <<Len(stored[l])>> ELSE files[l]

\* The sink's current_size_, which a restart takes from the file.
Size(l) == Len(stored[l]) + Len(buffer[l]) - files[l][Len(files[l])]

\* A sink that looks at the size only after it has grown too large.
FullTooLate(l) == Size(l) > FileSize

Full(l) == Size(l) > 0 /\ Size(l) + 2 > FileSize

\* The current file gets a number and the oldest beyond MaxFiles is deleted.
Rotated(starts, start) ==
    LET all == Append(starts, start)
    IN  IF Len(all) > MaxFiles + 1 THEN Tail(all) ELSE all

\* A rotation that renames and reopens the file without closing it.
NotClosed(l) == stored[l]

\* What is on disk when a rotation has closed the current file.
Closed(l) == stored[l] \o buffer[l]

\* stdio keeps what fits and otherwise writes whole blocks.
Blocks(n) == IF n <= BufferSize THEN 0 ELSE n - (n % BufferSize)

\* The sink writes row n of log l.  Without the drive the row is lost and
\* spdlog only reports it.
WriteRow(l, n) ==
    /\ written' = [written EXCEPT ![l] = @ + 1]
    /\ IF ~mounted THEN UNCHANGED disk ELSE
       LET before == IF Full(l) THEN Closed(l) ELSE stored[l]
           held == (IF Full(l) THEN <<>> ELSE buffer[l]) \o Pieces(n)
           out == Blocks(Len(held))
       IN  /\ stored' = [stored EXCEPT ![l] = before \o SubSeq(held, 1, out)]
           /\ buffer' = [buffer EXCEPT ![l] =
                            SubSeq(held, out + 1, Len(held))]
           /\ files' = [files EXCEPT ![l] =
                   IF Full(l) THEN Rotated(@, Len(before)) ELSE @]

-----------------------------------------------------------------------------
(***************************************************************************)
(* The process: main, the receive thread, the writer thread.               *)
(***************************************************************************)

\* systemd starts the service, again and again (Restart=always), once the
\* drive with the configuration is mounted.  main opens app.log first.
Start ==
    /\ phase = "off" /\ mounted
    /\ run < MaxRuns
    /\ phase' = "on" /\ run' = run + 1
    /\ opened' = {AppLog}
    /\ handed' = Zero /\ written' = Zero
    /\ files' = [files EXCEPT ![AppLog] = OpenFile(AppLog)]
    /\ intact' = TRUE
    /\ UNCHANGED <<rx, queue, buffer, stored, mounted>>

\* etcpal's debug messages are below spdlog's level; a message without text is
\* an error; every other priority is logged.
Logged(priority) == priority # "debug"
Priorities == {"undefined", "critical", "err", "warn", "info", "debug"}

\* A message to app.log, from any thread, by way of EtcPalLogHandler or not.
LogToApp(priority) ==
    /\ phase = "on"
    /\ Logged(priority) /\ handed[AppLog] < MaxRows[AppLog]
    /\ handed' = [handed EXCEPT ![AppLog] = @ + 1]
    /\ WriteRow(AppLog, handed[AppLog])
    /\ UNCHANGED <<process, queue, environment>>

HeadersHanded == \A l \in opened : handed[l] > 0

\* UniverseMonitor::start makes both loggers, then logs both header lines.
OpenLogs(u) ==
    /\ phase = "on" /\ mounted
    /\ HeadersHanded /\ <<u, "data">> \notin opened
    /\ opened' = opened \cup {<<u, "sources">>, <<u, "data">>}
    /\ files' = [l \in Logs |-> IF l \in opened' THEN OpenFile(l) ELSE files[l]]
    /\ UNCHANGED <<phase, run, rx, handed, written, queue, buffer, stored,
                   environment>>

\* A queue without a bound.
Unlimited(row) == {Append(queue, row)}

\* A queue that makes room for the new row by dropping the oldest.
Overrunning(row) ==
    {IF Len(queue) < QueueSize THEN Append(queue, row)
     ELSE Append(Tail(queue), row)}

\* The queue with the row in it; none while it is full: info() blocks.
Posted(row) == IF Len(queue) < QueueSize THEN {Append(queue, row)} ELSE {}

Post(l) ==
    /\ queue' \in Posted([log |-> l, n |-> handed[l]])
    /\ handed' = [handed EXCEPT ![l] = @ + 1]

LogHeader(l) ==
    /\ phase = "on"
    /\ l \in opened /\ handed[l] = 0
    /\ l[2] = "data" => handed[<<l[1], "sources">>] > 0
    /\ Post(l)
    /\ UNCHANGED <<process, written, disk, environment>>

\* The receive thread, in a callback of a universe that is started, calls
\* info() and waits there for room in the queue.
LogRow(u, kind) ==
    /\ phase = "on" /\ rx = NoLog
    /\ <<u, "data">> \in opened /\ handed[<<u, "data">>] > 0
    /\ handed[<<u, kind>>] < MaxRows[<<u, kind>>]
    /\ rx' = <<u, kind>>
    /\ UNCHANGED <<phase, run, opened, handed, written, queue, disk,
                   environment>>

RowPosted ==
    /\ rx # NoLog
    /\ Post(rx)
    /\ rx' = NoLog
    /\ UNCHANGED <<phase, run, opened, written, disk, environment>>

\* A writer thread that an exception of its sink ends.
WriterDies == queue # <<>> /\ mounted

WriterHasWork == queue # <<>>

Write ==
    /\ WriterHasWork
    /\ queue' = Tail(queue)
    /\ WriteRow(Head(queue).log, Head(queue).n)
    /\ UNCHANGED <<process, handed, environment>>

\* main returns, or finds no valid config and has started nothing.  No callback
\* is in progress by then, and sacnCleanup enters spdlog::shutdown.
Stop ==
    /\ phase = "on" /\ rx = NoLog
    /\ HeadersHanded
    /\ opened = Logs \/ opened = {AppLog}
    /\ phase' = "closing"
    /\ UNCHANGED <<run, opened, rx, handed, written, queue, disk, environment>>

\* Loggers dropped together with the rows that wait for them.
DroppedAtOnce(l) == TRUE

Drained(l) == \A i \in 1 .. Len(queue) : queue[i].log # l

\* The last reference to a sink goes, with its last row, and closes the file.
CloseLog(l) ==
    /\ phase = "closing"
    /\ l \in opened /\ Drained(l)
    /\ opened' = opened \ {l}
    /\ stored' = [stored EXCEPT ![l] = IF mounted THEN @ \o buffer[l] ELSE @]
    /\ buffer' = [buffer EXCEPT ![l] = <<>>]
    /\ UNCHANGED <<phase, run, rx, handed, written, queue, files, environment>>

Exit ==
    /\ phase = "closing" /\ opened = {}
    /\ phase' = "off"
    /\ queue' = <<>>
    /\ UNCHANGED <<run, opened, rx, handed, written, disk, environment>>

-----------------------------------------------------------------------------
(***************************************************************************)
(* Power, exceptions, the drive.                                           *)
(***************************************************************************)

\* The power goes, or an exception leaves a thread and no exit handler runs.
\* The drive is mounted with sync: what stdio has written is on it.
Crash ==
    /\ phase # "off"
    /\ phase' = "off" /\ opened' = {} /\ rx' = NoLog /\ queue' = <<>>
    /\ buffer' = Empty
    /\ intact' = FALSE
    /\ UNCHANGED <<run, handed, written, stored, files, mounted>>

\* BindsTo= then stops the service, as any SIGTERM would.
Unplug ==
    /\ phase # "off" /\ mounted
    /\ mounted' = FALSE /\ intact' = FALSE
    /\ UNCHANGED <<process, handed, written, queue, disk>>

\* The drive is mounted again for the next run.
Plug ==
    /\ phase = "off" /\ ~mounted
    /\ mounted' = TRUE
    /\ UNCHANGED <<process, handed, written, queue, disk, intact>>

Done == phase = "off" /\ run = MaxRuns /\ UNCHANGED vars

Next ==
    \/ Start
    \/ \E priority \in Priorities : LogToApp(priority)
    \/ \E u \in Universes : OpenLogs(u)
    \/ \E l \in CsvLogs : LogHeader(l)
    \/ \E u \in Universes, kind \in {"sources", "data"} : LogRow(u, kind)
    \/ RowPosted
    \/ Write
    \/ Stop
    \/ \E l \in Logs : CloseLog(l)
    \/ Exit
    \/ Crash \/ Unplug \/ Plug
    \/ Done

\* The writer thread runs, a full queue's waiting caller is woken, and shutdown
\* goes on.  Nothing makes rows come or the process stop.
Spec ==
    /\ Init /\ [][Next]_vars
    /\ WF_vars(Write) /\ WF_vars(RowPosted)
    /\ WF_vars(\E l \in Logs : CloseLog(l)) /\ WF_vars(Exit)

-----------------------------------------------------------------------------

Piece == Nat \X Nat \X {1, 2}

\* The shape of the state.
TypeOK ==
    /\ phase \in {"off", "on", "closing"}
    /\ run \in 0 .. MaxRuns
    /\ opened \subseteq Logs
    /\ handed \in [Logs -> Nat] /\ written \in [Logs -> Nat]
    /\ rx \in CsvLogs \cup {NoLog}
    /\ queue \in Seq([log : CsvLogs, n : Nat]) /\ Len(queue) <= QueueSize
    /\ buffer \in [Logs -> Seq(Piece)] /\ stored \in [Logs -> Seq(Piece)]
    /\ files \in [Logs -> Seq(Nat)]
    /\ \A l \in opened : files[l] # <<>>
    /\ mounted \in BOOLEAN /\ intact \in BOOLEAN

\* b may come next to a: the other half of a row, the next row of the run, or
\* the first row of a later run.
Continues(a, b) ==
    \/ b = <<a[1], a[2], 2>> /\ a[3] = 1
    \/ b = <<a[1], a[2] + 1, 1>> /\ a[3] = 2
    \/ b[1] > a[1] /\ b[2] = 0 /\ b[3] = 1

Unbroken(s) ==
    /\ s # <<>> => s[1][2] = 0 /\ s[1][3] = 1
    /\ \A i \in 1 .. Len(s) - 1 : Continues(s[i], s[i + 1])

\* On disk each run of a log begins with its header line
\* (UniverseMonitor.cpp:164) and goes on without a gap to where it ends: a crash,
\* a pulled drive, a rotation or a full queue never takes a row out of the middle.
RunsUnbroken == \A l \in Logs : Unbroken(stored[l])

\* After an exit by way of sacnCleanup (main.cpp:42) every row that any logger
\* accepted has been written, though it was queued or buffered when it began.
CleanExitKeepsAll ==
    phase = "off" /\ intact =>
        \A l \in Logs : handed[l] > 0 =>
            /\ stored[l] # <<>>
            /\ stored[l][Len(stored[l])] = <<run, handed[l] - 1, 2>>

\* No log takes more than maxLogFileCount + 1 files of maxLogFileSize
\* (UniverseMonitor.h:139), also after restarts that append to a torn file.
FilesBounded ==
    \A l \in Logs :
        /\ Len(files[l]) <= MaxFiles + 1
        /\ \A i \in 1 .. Len(files[l]) :
              LET end == IF i = Len(files[l]) THEN Len(stored[l])
                                              ELSE files[l][i + 1]
              IN  files[l][i] <= end /\ end - files[l][i] <= FileSize

\* A full queue stalls the receive thread, and with it every universe, only
\* for as long as the writer needs, also when the drive is gone.
StallEnds == rx # NoLog ~> rx = NoLog

\* spdlog::shutdown returns, whatever was in the queue and is the drive there
\* or not.
ShutdownEnds == phase = "closing" ~> phase = "off"

-----------------------------------------------------------------------------
(***************************************************************************)
(* The log pipeline is a DurableLog, log by log.                           *)
(***************************************************************************)

\* Rows first to end - 1 of run r, as pieces.
RowsBetween(r, first, end) ==
    [i \in 1 .. 2 * (end - first) |->
        <<r, first + ((i - 1) \div 2), 1 + ((i - 1) % 2)>>]

\* On the way to the disk are what stdio holds of a log and then the rows that
\* were handed in and not yet written.  Without the drive nothing arrives.
Pending ==
    [l \in Logs |-> IF mounted /\ phase # "off"
                    THEN buffer[l] \o RowsBetween(run, written[l], handed[l])
                    ELSE <<>>]

AllRows == {<< <<r, n, 1>>, <<r, n, 2>> >> :
               r \in 1 .. MaxRuns, n \in UNION {0 .. MaxRows[l] - 1 : l \in Logs}}

Durable == INSTANCE DurableLog WITH Rows <- AllRows, pending <- Pending

\* Each log keeps what it wrote and loses, if anything, the end of what it was
\* handed (UniverseMonitor.cpp:154, the asynchronous rotating loggers).
ImplementsDurableLog == Durable!Spec
=============================================================================
