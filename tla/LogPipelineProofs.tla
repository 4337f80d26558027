------------------------- MODULE LogPipelineProofs -------------------------
(***************************************************************************)
(* What the logs keep, for any universes, sizes of queue, buffer and files *)
(* and any number of runs.                                                 *)
(***************************************************************************)
EXTENDS LogPipeline, SequenceTheorems, TLAPS

\* What has been written to log l, on disk or not.
Stream(l) == stored[l] \o buffer[l]

\* A process that is off leaves nothing behind, and rows wait only in open logs.
ProcessInv ==
    /\ phase = "off" => opened = {}
    /\ phase = "on" => /\ AppLog \in opened
                       /\ \A u \in Universes : <<u, "data">> \in opened =>
                                                <<u, "sources">> \in opened
    /\ rx # NoLog => phase = "on" /\ rx \in opened
    /\ \A i \in 1 .. Len(queue) : queue[i].log \in opened
    /\ phase # "off" => intact = mounted

\* The queue holds, in order, the rows of each log that were handed in and not
\* yet written; when the process ended well there are none.
QueueInv ==
    /\ \A l \in Logs : written[l] <= handed[l]
    /\ handed[AppLog] = written[AppLog]
    /\ \A i \in 1 .. Len(queue) :
          queue[i].n \in written[queue[i].log] .. handed[queue[i].log] - 1
    /\ \A i, j \in 1 .. Len(queue) :
          i < j /\ queue[i].log = queue[j].log => queue[i].n < queue[j].n
    /\ phase # "off" \/ intact =>
          \A l \in Logs : \A m \in written[l] .. handed[l] - 1 :
              \E i \in 1 .. Len(queue) : queue[i] = [log |-> l, n |-> m]

\* Where the stream s of a log with w rows written in this run ends.
EndsAt(s, w) ==
    IF w = 0 THEN \A i \in 1 .. Len(s) : s[i][1] < run
             ELSE s # <<>> /\ s[Len(s)] = <<run, w - 1, 2>>

\* Each stream is unbroken and of this run or earlier ones; as long as nothing
\* was lost it ends with the last row written.
StreamOK(l) ==
    /\ buffer[l] # <<>> => l \in opened
    /\ Unbroken(Stream(l))
    /\ \A i \in 1 .. Len(Stream(l)) : Stream(l)[i][1] <= run
    /\ intact => EndsAt(Stream(l), written[l])

StreamInv == \A l \in Logs : StreamOK(l)

\* File b follows file a, which keeps to its size.
Follows(a, b) == a <= b /\ b - a <= FileSize

\* The files of a log follow each other, and each keeps to its size; the last
\* one also with what is still in its buffer.
FilesOK(l) ==
    /\ Len(files[l]) <= MaxFiles + 1
    /\ \A i \in 1 .. Len(files[l]) - 1 : Follows(files[l][i], files[l][i + 1])
    /\ files[l] # <<>> =>
          /\ files[l][Len(files[l])] <= Len(stored[l])
          /\ Size(l) <= FileSize

FilesInv == \A l \in Logs : FilesOK(l)

IndInv == TypeOK /\ ProcessInv /\ QueueInv /\ StreamInv /\ FilesInv

-----------------------------------------------------------------------------
(***************************************************************************)
(* Logs, pieces, blocks.                                                   *)
(***************************************************************************)

LEMMA LogFacts ==
    /\ AppLog \in Logs /\ CsvLogs \subseteq Logs
    /\ AppLog \notin CsvLogs /\ NoLog \notin Logs
  BY DEF Logs, CsvLogs, AppLog, NoLog

LEMMA PiecesFacts ==
    ASSUME run \in Nat, NEW n \in Nat
    PROVE  /\ Pieces(n) \in Seq(Piece) /\ Len(Pieces(n)) = 2
           /\ Pieces(n)[1] = <<run, n, 1>> /\ Pieces(n)[2] = <<run, n, 2>>
  BY DEF Pieces, Piece

LEMMA BlocksFit ==
    ASSUME NEW n \in Nat
    PROVE  Blocks(n) \in 0 .. n
<1>1. n % BufferSize \in 0 .. BufferSize - 1
  BY SizeAssumption
<1>2. QED
  BY <1>1, SizeAssumption DEF Blocks

\* Cutting b after k pieces moves them behind a and loses none.
LEMMA CutFacts ==
    ASSUME NEW a \in Seq(Piece), NEW b \in Seq(Piece), NEW k \in 0 .. Len(b)
    PROVE  LET out == a \o SubSeq(b, 1, k)
               rest == SubSeq(b, k + 1, Len(b))
           IN  /\ out \in Seq(Piece) /\ rest \in Seq(Piece)
               /\ out \o rest = a \o b
               /\ Len(out) = Len(a) + k /\ Len(rest) = Len(b) - k
<1> DEFINE first == SubSeq(b, 1, k)
           rest == SubSeq(b, k + 1, Len(b))
<1>1. Len(b) \in Nat /\ \A i \in 1 .. Len(b) : b[i] \in Piece
  BY LenProperties, ElementOfSeq
<1>2. first \in Seq(Piece) /\ Len(first) = k
  BY <1>1, SubSeqProperties
<1>3. rest \in Seq(Piece) /\ Len(rest) = Len(b) - k
  <2>1. \A i \in k + 1 .. Len(b) : b[i] \in Piece
    BY <1>1
  <2> HIDE DEF rest
  <2>2. /\ rest \in Seq(Piece)
        /\ Len(rest) = IF k + 1 <= Len(b) THEN Len(b) - (k + 1) + 1 ELSE 0
    BY <1>1, <2>1, SubSeqProperties, k + 1 \in Int, Len(b) \in Int DEF rest
  <2>3. QED
    BY <2>2, <1>1
<1>4. first \o rest = b
  <2>1. 1 \in 1 .. Len(b) + 1 /\ k \in 1 - 1 .. Len(b) /\ Len(b) \in k .. Len(b)
    BY <1>1
  <2>2. first \o rest = SubSeq(b, 1, Len(b))
    BY <2>1, ConcatAdjacentSubSeq
  <2>3. QED
    BY <2>2, SubSeqFull
<1> HIDE DEF first, rest
<1>5. a \o first \in Seq(Piece) /\ Len(a \o first) = Len(a) + k
  BY <1>2, ConcatProperties
<1>6. (a \o first) \o rest = a \o b
  <2>1. (a \o first) \o rest = a \o (first \o rest)
    BY <1>2, <1>3
  <2>2. QED
    BY <2>1, <1>4
<1>7. QED
  BY <1>3, <1>5, <1>6 DEF first, rest

-----------------------------------------------------------------------------
(***************************************************************************)
(* What a sink does to its log.                                            *)
(***************************************************************************)

\* What is left of an unbroken stream when its end is lost is unbroken.
LEMMA UnbrokenPrefix ==
    ASSUME NEW a \in Seq(Piece), NEW b \in Seq(Piece), Unbroken(a \o b)
    PROVE  Unbroken(a)
<1>1. /\ Len(a \o b) = Len(a) + Len(b)
      /\ \A i \in 1 .. Len(a) : (a \o b)[i] = a[i]
  OBVIOUS
<1>2. Len(a) \in Nat /\ Len(b) \in Nat /\ (a # <<>> => Len(a) >= 1)
  OBVIOUS
<1> DEFINE c == a \o b
<1>3. c # <<>> => c[1][2] = 0 /\ c[1][3] = 1
  BY DEF Unbroken
<1>4. \A i \in 1 .. Len(c) - 1 : Continues(c[i], c[i + 1])
  BY DEF Unbroken
<1>5. a # <<>> => c # <<>>
  OBVIOUS
<1> HIDE DEF c
<1>6. a # <<>> => a[1][2] = 0 /\ a[1][3] = 1
  BY <1>1, <1>2, <1>3, <1>5 DEF c
<1>7. ASSUME NEW i \in 1 .. Len(a) - 1 PROVE Continues(a[i], a[i + 1])
  <2>1. i \in 1 .. Len(a) /\ i + 1 \in 1 .. Len(a)
    BY <1>2
  <2>2. i \in 1 .. Len(c) - 1
    BY <1>1, <1>2 DEF c
  <2>3. QED
    BY <1>1, <1>4, <2>1, <2>2, Zenon DEF c
<1>8. QED
  BY <1>6, <1>7, Zenon DEF Unbroken

\* The next row of this run goes on with a stream that ends before it.
LEMMA UnbrokenExtends ==
    ASSUME run \in Nat, NEW s \in Seq(Piece), NEW w \in Nat,
           Unbroken(s), EndsAt(s, w), \A i \in 1 .. Len(s) : s[i][1] <= run
    PROVE  LET t == s \o Pieces(w)
           IN  /\ Unbroken(t) /\ EndsAt(t, w + 1)
               /\ \A i \in 1 .. Len(t) : t[i][1] <= run
<1> DEFINE t == s \o Pieces(w)
           first == <<run, w, 1>>
           second == <<run, w, 2>>
<1>1. /\ Pieces(w) \in Seq(Piece) /\ Len(Pieces(w)) = 2
      /\ Pieces(w)[1] = first /\ Pieces(w)[2] = second
  BY PiecesFacts
<1>2. Len(s) \in Nat /\ (s # <<>> => Len(s) >= 1) /\ (s = <<>> => Len(s) = 0)
  OBVIOUS
<1>3. /\ t \in Seq(Piece) /\ Len(t) = Len(s) + Len(Pieces(w))
      /\ \A i \in 1 .. Len(s) + Len(Pieces(w)) :
            t[i] = IF i <= Len(s) THEN s[i] ELSE Pieces(w)[i - Len(s)]
  <2>1. Pieces(w) \in Seq(Piece)
    BY <1>1
  <2>2. QED
    BY <2>1, ConcatProperties
<1> HIDE DEF t
<1>4. /\ Len(t) = Len(s) + 2
      /\ \A i \in 1 .. Len(s) : t[i] = s[i]
      /\ t[Len(s) + 1] = first /\ t[Len(s) + 2] = second
  <2>1. /\ Len(t) = Len(s) + 2
        /\ \A i \in 1 .. Len(s) + 2 :
              t[i] = IF i <= Len(s) THEN s[i] ELSE Pieces(w)[i - Len(s)]
    BY <1>1, <1>3, Zenon
  <2> DEFINE P == Pieces(w)
  <2>2. P[1] = first /\ P[2] = second
    BY <1>1
  <2> HIDE DEF P, first, second
  <2>3. \A i \in 1 .. Len(s) + 2 :
           t[i] = IF i <= Len(s) THEN s[i] ELSE P[i - Len(s)]
    BY <2>1 DEF P
  <2>4. QED
    BY <1>2, <2>1, <2>2, <2>3
<1>5. Continues(first, second)
  BY DEF Continues
<1>6. ASSUME s # <<>> PROVE Continues(s[Len(s)], first)
  <2>1. s[Len(s)] \in Piece
    BY <1>2, <1>6, ElementOfSeq
  <2>2. CASE w = 0
    <3>1. s[Len(s)][1] < run
      BY <1>2, <1>6, <2>2 DEF EndsAt
    <3>2. QED
      BY <2>2, <3>1 DEF Continues
  <2>3. CASE w # 0
    <3>1. s[Len(s)] = <<run, w - 1, 2>>
      BY <2>3 DEF EndsAt
    <3>2. QED
      BY <3>1 DEF Continues
  <2>4. QED
    BY <2>2, <2>3
<1>7. ASSUME s = <<>> PROVE first[2] = 0 /\ first[3] = 1
  BY <1>7 DEF EndsAt
<1>8. first[1] = run /\ second[1] = run
  OBVIOUS
<1> HIDE DEF first, second
<1>9. t[1][2] = 0 /\ t[1][3] = 1
  <2>1. CASE s = <<>>
    BY <1>2, <1>4, <1>7, <2>1
  <2>2. CASE s # <<>>
    BY <1>2, <1>4, <2>2 DEF Unbroken
  <2>3. QED
    BY <2>1, <2>2
<1>10. ASSUME NEW i \in 1 .. Len(t) - 1 PROVE Continues(t[i], t[i + 1])
  <2>1. CASE i < Len(s)
    <3>1. i \in 1 .. Len(s) - 1 /\ i \in 1 .. Len(s) /\ i + 1 \in 1 .. Len(s)
      BY <1>2, <2>1
    <3>2. Continues(s[i], s[i + 1])
      BY <3>1, Zenon DEF Unbroken
    <3>3. QED
      BY <1>4, <3>1, <3>2, Zenon
  <2>2. CASE i = Len(s)
    <3>1. i \in 1 .. Len(s) /\ s # <<>>
      BY <1>2, <2>2
    <3>2. QED
      BY <1>4, <1>6, <2>2, <3>1, Zenon
  <2>3. CASE i = Len(s) + 1
    <3>1. t[i + 1] = second
      BY <1>2, <1>4, <2>3
    <3>2. QED
      BY <1>4, <1>5, <2>3, <3>1, Zenon
  <2>4. QED
    BY <1>2, <1>4, <2>1, <2>2, <2>3
<1>11. Unbroken(t)
  BY <1>9, <1>10, Zenon DEF Unbroken
<1>12. EndsAt(t, w + 1)
  <2>1. t # <<>> /\ t[Len(t)] = second /\ w + 1 # 0 /\ (w + 1) - 1 = w
    BY <1>2, <1>3, <1>4
  <2>2. QED
    BY <2>1 DEF EndsAt, second
<1>13. ASSUME NEW i \in 1 .. Len(t) PROVE t[i][1] <= run
  <2>1. CASE i <= Len(s)
    BY <1>2, <1>4, <2>1
  <2>2. CASE i > Len(s)
    <3>1. t[i] = first \/ t[i] = second
      BY <1>2, <1>4, <2>2
    <3>2. QED
      BY <1>8, <3>1
  <2>3. QED
    BY <1>2, <1>4, <2>1, <2>2
<1>14. QED
  BY <1>11, <1>12, <1>13 DEF t

\* What stdio writes and keeps when it has kept some pieces and gets a row.
LEMMA SinkFacts ==
    ASSUME NEW before \in Seq(Piece), NEW kept \in Seq(Piece),
           NEW row \in Seq(Piece)
    PROVE  LET held == kept \o row
               out == Blocks(Len(held))
               s == before \o SubSeq(held, 1, out)
               b == SubSeq(held, out + 1, Len(held))
           IN  /\ s \in Seq(Piece) /\ b \in Seq(Piece)
               /\ s \o b = (before \o kept) \o row
               /\ Len(s) + Len(b) = Len(before) + Len(kept) + Len(row)
               /\ Len(s) >= Len(before)
<1> DEFINE held == kept \o row
           out == Blocks(Len(held))
           s == before \o SubSeq(held, 1, out)
           b == SubSeq(held, out + 1, Len(held))
<1>1. /\ held \in Seq(Piece) /\ Len(held) = Len(kept) + Len(row)
      /\ before \o held = (before \o kept) \o row
  OBVIOUS
<1> HIDE DEF held
<1>2. out \in 0 .. Len(held)
  BY <1>1, BlocksFit
<1> HIDE DEF out
<1>3. /\ s \in Seq(Piece) /\ b \in Seq(Piece)
      /\ s \o b = before \o held
      /\ Len(s) = Len(before) + out /\ Len(b) = Len(held) - out
  BY <1>1, <1>2, CutFacts
<1> HIDE DEF s, b
<1>4. Len(before) \in Nat /\ Len(kept) \in Nat /\ Len(row) \in Nat
  OBVIOUS
<1>5. /\ Len(s) + Len(b) = Len(before) + Len(kept) + Len(row)
      /\ Len(s) >= Len(before)
  BY <1>1, <1>2, <1>3, <1>4
<1>6. s \o b = (before \o kept) \o row
  BY <1>1, <1>3
<1>7. QED
  BY <1>3, <1>5, <1>6 DEF s, b, out, held

\* A rotation numbers one more file and forgets at most the oldest.
LEMMA RotatedFacts ==
    ASSUME NEW starts \in Seq(Nat), NEW start \in Nat
    PROVE  LET r == Rotated(starts, start)
               all == Append(starts, start)
           IN  /\ r \in Seq(Nat) /\ r # <<>>
               /\ Len(starts) <= MaxFiles + 1 => Len(r) <= MaxFiles + 1
               /\ r[Len(r)] = start
               /\ \E d \in {0, 1} :
                     /\ Len(r) = Len(all) - d
                     /\ \A i \in 1 .. Len(r) : r[i] = all[i + d]
<1> DEFINE r == Rotated(starts, start)
           all == Append(starts, start)
<1>1. /\ all \in Seq(Nat) /\ all # <<>> /\ Len(all) = Len(starts) + 1
      /\ all[Len(all)] = start /\ Len(starts) \in Nat
  BY AppendProperties, LenProperties
<1>2. r = IF Len(all) > MaxFiles + 1 THEN Tail(all) ELSE all
  BY DEF Rotated
<1> HIDE DEF all, r
<1>3. CASE Len(all) > MaxFiles + 1
  <2>1. r = Tail(all)
    BY <1>2, <1>3
  <2>2. /\ r \in Seq(Nat) /\ Len(r) = Len(all) - 1
        /\ \A i \in 1 .. Len(r) : r[i] = all[i + 1]
    BY <1>1, <2>1, HeadTailProperties
  <2>3. Len(r) \in Nat /\ Len(r) >= 1
    BY <1>1, <1>3, <2>2, SizeAssumption
  <2>4. r # <<>> /\ r[Len(r)] = start
    <3>1. Len(r) \in 1 .. Len(r) /\ Len(r) + 1 = Len(all)
      BY <1>1, <2>2, <2>3
    <3>2. r[Len(r)] = all[Len(all)]
      BY <2>2, <3>1, Zenon
    <3>3. r # <<>>
      BY <2>3
    <3>4. QED
      BY <1>1, <3>2, <3>3, Zenon
  <2>5. Len(starts) <= MaxFiles + 1 => Len(r) <= MaxFiles + 1
    BY <1>1, <2>2, SizeAssumption
  <2>6. QED
    BY <2>2, <2>4, <2>5 DEF r, all
<1>4. CASE ~(Len(all) > MaxFiles + 1)
  <2>1. r = all
    BY <1>2, <1>4
  <2>2. Len(all) <= MaxFiles + 1 /\ Len(r) = Len(all) - 0
    BY <1>1, <1>4, <2>1, SizeAssumption
  <2>3. \A i \in 1 .. Len(r) : r[i] = all[i + 0]
    BY <2>1
  <2>4. QED
    BY <1>1, <2>1, <2>2, <2>3 DEF r, all
<1>5. QED
  BY <1>3, <1>4

\* WriteRow on log l, with the drive there.
LEMMA WriteRowEffect ==
    ASSUME TypeOK, NEW l \in Logs, NEW n \in Nat, mounted, WriteRow(l, n)
    PROVE  /\ stored'[l] \in Seq(Piece) /\ buffer'[l] \in Seq(Piece)
           /\ stored'[l] \o buffer'[l] = Stream(l) \o Pieces(n)
           /\ Len(stored'[l]) + Len(buffer'[l]) =
                   Len(stored[l]) + Len(buffer[l]) + 2
           /\ Full(l) => Len(stored'[l]) >= Len(stored[l]) + Len(buffer[l])
           /\ Len(stored'[l]) >= Len(stored[l])
           /\ files'[l] = IF Full(l)
                          THEN Rotated(files[l],
                                       Len(stored[l]) + Len(buffer[l]))
                          ELSE files[l]
           /\ stored' \in [Logs -> Seq(Piece)]
           /\ buffer' \in [Logs -> Seq(Piece)]
           /\ files' \in [Logs -> Seq(Nat)]
           /\ \A k \in Logs \ {l} : /\ stored'[k] = stored[k]
                                   /\ buffer'[k] = buffer[k]
                                   /\ files'[k] = files[k]
<1> DEFINE before == IF Full(l) THEN Closed(l) ELSE stored[l]
           kept == IF Full(l) THEN <<>> ELSE buffer[l]
           held == kept \o Pieces(n)
           out == Blocks(Len(held))
           s == before \o SubSeq(held, 1, out)
           b == SubSeq(held, out + 1, Len(held))
<1>1. run \in Nat /\ stored[l] \in Seq(Piece) /\ buffer[l] \in Seq(Piece)
  BY DEF TypeOK
<1>2. /\ Pieces(n) \in Seq(Piece) /\ Len(Pieces(n)) = 2
  BY <1>1, PiecesFacts
<1>3. /\ before \in Seq(Piece) /\ kept \in Seq(Piece)
      /\ before \o kept = Stream(l)
      /\ Len(before) + Len(kept) = Len(stored[l]) + Len(buffer[l])
      /\ Len(before) = IF Full(l) THEN Len(stored[l]) + Len(buffer[l])
                                  ELSE Len(stored[l])
  <2>1. CASE Full(l)
    <3>1. /\ stored[l] \o buffer[l] \in Seq(Piece)
          /\ Len(stored[l] \o buffer[l]) = Len(stored[l]) + Len(buffer[l])
          /\ (stored[l] \o buffer[l]) \o <<>> = stored[l] \o buffer[l]
      BY <1>1, ConcatEmptySeq
    <3>2. before = stored[l] \o buffer[l] /\ kept = <<>>
      BY <2>1 DEF Closed
    <3>3. <<>> \in Seq(Piece) /\ Len(<<>>) = 0 /\ Len(before) \in Nat
      BY <3>1, <3>2, EmptySeq
    <3> HIDE DEF before, kept
    <3>4. QED
      BY <2>1, <3>1, <3>2, <3>3 DEF Stream
  <2>2. CASE ~Full(l)
    BY <2>2, <1>1 DEF Stream
  <2>3. QED
    BY <2>1, <2>2
<1>4. /\ s \in Seq(Piece) /\ b \in Seq(Piece)
      /\ s \o b = (before \o kept) \o Pieces(n)
      /\ Len(s) + Len(b) = Len(before) + Len(kept) + Len(Pieces(n))
      /\ Len(s) >= Len(before)
  <2> HIDE DEF before, kept
  <2>1. QED
    BY <1>2, <1>3, SinkFacts
<1>5. /\ stored' = [stored EXCEPT ![l] = s]
      /\ buffer' = [buffer EXCEPT ![l] = b]
      /\ files' = [files EXCEPT ![l] =
                      IF Full(l) THEN Rotated(@, Len(before)) ELSE @]
  BY DEF WriteRow
<1> HIDE DEF before, kept, held, out, s, b
<1>6. /\ stored \in [Logs -> Seq(Piece)] /\ buffer \in [Logs -> Seq(Piece)]
      /\ files \in [Logs -> Seq(Nat)]
  BY DEF TypeOK
<1>7. /\ stored'[l] = s /\ buffer'[l] = b
      /\ files'[l] = IF Full(l) THEN Rotated(files[l], Len(before))
                                ELSE files[l]
  BY <1>5, <1>6
<1>8. /\ Len(stored[l]) \in Nat /\ Len(buffer[l]) \in Nat
      /\ Len(before) \in Nat /\ Len(s) \in Nat
      /\ s \in Seq(Piece) /\ b \in Seq(Piece)
  BY <1>1, <1>3, <1>4, LenProperties
<1>9. /\ Len(s) + Len(b) = Len(stored[l]) + Len(buffer[l]) + 2
      /\ Len(s) >= Len(before)
      /\ Len(before) = IF Full(l) THEN Len(stored[l]) + Len(buffer[l])
                                  ELSE Len(stored[l])
  <2>1. /\ Len(s) + Len(b) = Len(before) + Len(kept) + Len(Pieces(n))
        /\ Len(s) >= Len(before) /\ Len(Pieces(n)) = 2
        /\ Len(before) + Len(kept) = Len(stored[l]) + Len(buffer[l])
    BY <1>2, <1>3, <1>4, Zenon
  <2>2. QED
    BY <1>3, <2>1, Zenon
<1>10. s \o b = Stream(l) \o Pieces(n)
  BY <1>3, <1>4
<1>11. /\ Full(l) => Len(s) >= Len(stored[l]) + Len(buffer[l])
       /\ Len(s) >= Len(stored[l])
  <2>1. ASSUME Full(l) PROVE Len(s) >= Len(stored[l]) + Len(buffer[l])
    BY <2>1, <1>9, Zenon
  <2>2. ASSUME ~Full(l) PROVE Len(s) >= Len(stored[l])
    BY <2>2, <1>9, Zenon
  <2>3. Len(s) >= Len(stored[l]) + Len(buffer[l]) => Len(s) >= Len(stored[l])
    <3>1. \A x, y, z \in Nat : x >= y + z => x >= y
      OBVIOUS
    <3>2. QED
      BY <1>8, <3>1, Zenon
  <2>4. QED
    BY <2>1, <2>2, <2>3
<1>12. files'[l] = IF Full(l)
                   THEN Rotated(files[l], Len(stored[l]) + Len(buffer[l]))
                   ELSE files[l]
  BY <1>7, <1>9, Zenon
<1>13. Rotated(files[l], Len(before)) \in Seq(Nat)
  BY <1>6, <1>8, RotatedFacts
<1>14. /\ stored' \in [Logs -> Seq(Piece)]
       /\ buffer' \in [Logs -> Seq(Piece)]
       /\ files' \in [Logs -> Seq(Nat)]
       /\ \A k \in Logs \ {l} : /\ stored'[k] = stored[k]
                               /\ buffer'[k] = buffer[k]
                               /\ files'[k] = files[k]
  BY <1>5, <1>6, <1>8, <1>13
<1>15. QED
  BY <1>7, <1>8, <1>9, <1>10, <1>11, <1>12, <1>14, Zenon

\* WriteRow keeps the shape of what it changes, is the drive there or not.
LEMMA WriteRowType ==
    ASSUME TypeOK, NEW l \in Logs, NEW n \in Nat, WriteRow(l, n)
    PROVE  /\ written' \in [Logs -> Nat]
           /\ stored' \in [Logs -> Seq(Piece)]
           /\ buffer' \in [Logs -> Seq(Piece)]
           /\ files' \in [Logs -> Seq(Nat)]
           /\ \A k \in Logs : files[k] # <<>> => files'[k] # <<>>
<1>1. written' \in [Logs -> Nat]
  <2>1. written \in [Logs -> Nat]
    BY DEF TypeOK
  <2>2. written' = [written EXCEPT ![l] = @ + 1]
    BY DEF WriteRow
  <2>3. QED
    BY <2>1, <2>2
<1>2. CASE ~mounted
  BY <1>1, <1>2 DEF WriteRow, TypeOK, disk
<1>3. CASE mounted
  <2>1. /\ stored' \in [Logs -> Seq(Piece)]
        /\ buffer' \in [Logs -> Seq(Piece)]
        /\ files' \in [Logs -> Seq(Nat)]
        /\ files'[l] = IF Full(l)
                       THEN Rotated(files[l],
                                    Len(stored[l]) + Len(buffer[l]))
                       ELSE files[l]
        /\ \A k \in Logs \ {l} : files'[k] = files[k]
    BY <1>3, WriteRowEffect
  <2>2. Rotated(files[l], Len(stored[l]) + Len(buffer[l])) # <<>>
    <3>1. /\ files[l] \in Seq(Nat)
          /\ stored[l] \in Seq(Piece) /\ buffer[l] \in Seq(Piece)
      BY DEF TypeOK
    <3>2. Len(stored[l]) \in Nat /\ Len(buffer[l]) \in Nat
      BY <3>1
    <3>3. Len(stored[l]) + Len(buffer[l]) \in Nat
      <4>1. \A x, y \in Nat : x + y \in Nat
        OBVIOUS
      <4>2. QED
        BY <3>2, <4>1, Zenon
    <3>4. QED
      BY <3>1, <3>3, RotatedFacts
  <2>3. files[l] # <<>> => files'[l] # <<>>
    BY <2>1, <2>2, Zenon
  <2>4. QED
    BY <1>1, <2>1, <2>3, Zenon
<1>4. QED
  BY <1>2, <1>3

\* A file that is opened exists, and the files of a log stay a sequence.
LEMMA OpenFileFacts ==
    ASSUME TypeOK, NEW l \in Logs
    PROVE  OpenFile(l) \in Seq(Nat) /\ OpenFile(l) # <<>>
<1>1. files[l] \in Seq(Nat) /\ Len(stored[l]) \in Nat
  BY LenProperties DEF TypeOK
<1>2. QED
  BY <1>1 DEF OpenFile

-----------------------------------------------------------------------------
(***************************************************************************)
(* The shape of the state.                                                 *)
(***************************************************************************)

LEMMA InitType == Init => TypeOK
<1> SUFFICES ASSUME Init PROVE TypeOK
  OBVIOUS
<1>1. queue \in Seq([log : CsvLogs, n : Nat]) /\ Len(queue) <= QueueSize
  BY SizeAssumption DEF Init
<1>2. run \in 0 .. MaxRuns
  BY SizeAssumption DEF Init
<1>3. /\ handed \in [Logs -> Nat] /\ written \in [Logs -> Nat]
      /\ buffer \in [Logs -> Seq(Piece)] /\ stored \in [Logs -> Seq(Piece)]
      /\ files \in [Logs -> Seq(Nat)]
  BY DEF Init, Zero, Empty
<1>4. QED
  BY <1>1, <1>2, <1>3 DEF Init, TypeOK

\* The queue with one more row, when there is room for it.
LEMMA PostType ==
    ASSUME TypeOK, NEW l \in CsvLogs, Post(l)
    PROVE  /\ queue' = Append(queue, [log |-> l, n |-> handed[l]])
           /\ queue' \in Seq([log : CsvLogs, n : Nat])
           /\ Len(queue') <= QueueSize
           /\ handed' \in [Logs -> Nat]
<1>1. handed[l] \in Nat /\ handed' \in [Logs -> Nat]
  <2>1. handed \in [Logs -> Nat] /\ l \in Logs
    BY LogFacts DEF TypeOK
  <2>2. handed' = [handed EXCEPT ![l] = @ + 1]
    BY DEF Post
  <2>3. QED
    BY <2>1, <2>2
<1>2. queue \in Seq([log : CsvLogs, n : Nat])
  BY DEF TypeOK
<1>3. /\ Len(queue) < QueueSize
      /\ queue' = Append(queue, [log |-> l, n |-> handed[l]])
  BY DEF Post, Posted
<1>4. [log |-> l, n |-> handed[l]] \in [log : CsvLogs, n : Nat]
  BY <1>1
<1>5. /\ queue' \in Seq([log : CsvLogs, n : Nat])
      /\ Len(queue') = Len(queue) + 1
  BY <1>2, <1>3, <1>4, AppendProperties
<1>6. QED
  BY <1>1, <1>2, <1>3, <1>5, SizeAssumption, LenProperties

LEMMA NextType == TypeOK /\ [Next]_vars => TypeOK'
<1> SUFFICES ASSUME TypeOK, [Next]_vars PROVE TypeOK'
  OBVIOUS
<1>1. CASE Start
  <2>1. run' \in 0 .. MaxRuns
    BY <1>1, SizeAssumption DEF Start, TypeOK
  <2>2. opened' \subseteq Logs /\ \A l \in opened' : files'[l] # <<>>
    BY <1>1, LogFacts, OpenFileFacts DEF Start, TypeOK
  <2>3. files' \in [Logs -> Seq(Nat)]
    BY <1>1, LogFacts, OpenFileFacts DEF Start, TypeOK
  <2>4. handed' \in [Logs -> Nat] /\ written' \in [Logs -> Nat]
    BY <1>1 DEF Start, Zero
  <2>5. QED
    BY <1>1, <2>1, <2>2, <2>3, <2>4 DEF Start, TypeOK
<1>2. ASSUME NEW priority \in Priorities, LogToApp(priority) PROVE TypeOK'
  <2>1. handed[AppLog] \in Nat /\ handed' \in [Logs -> Nat]
    BY <1>2, LogFacts DEF LogToApp, TypeOK
  <2>2. WriteRow(AppLog, handed[AppLog])
    BY <1>2 DEF LogToApp
  <2>3. /\ written' \in [Logs -> Nat] /\ stored' \in [Logs -> Seq(Piece)]
        /\ buffer' \in [Logs -> Seq(Piece)] /\ files' \in [Logs -> Seq(Nat)]
        /\ \A k \in Logs : files[k] # <<>> => files'[k] # <<>>
    BY <2>1, <2>2, LogFacts, WriteRowType
  <2>4. UNCHANGED <<phase, run, opened, rx, queue, mounted, intact>>
    BY <1>2 DEF LogToApp, process, environment
  <2>5. QED
    BY <2>1, <2>3, <2>4 DEF TypeOK
<1>3. ASSUME NEW u \in Universes, OpenLogs(u) PROVE TypeOK'
  <2>1. opened' \subseteq Logs
    BY <1>3 DEF OpenLogs, TypeOK, Logs, CsvLogs
  <2>2. files' \in [Logs -> Seq(Nat)] /\ \A l \in opened' : files'[l] # <<>>
    BY <1>3, <2>1, OpenFileFacts DEF OpenLogs, TypeOK
  <2>3. UNCHANGED <<phase, run, rx, handed, written, queue, buffer, stored,
                    mounted, intact>>
    BY <1>3 DEF OpenLogs, environment
  <2>4. QED
    BY <2>1, <2>2, <2>3 DEF TypeOK
<1>4. ASSUME NEW l \in CsvLogs, LogHeader(l) PROVE TypeOK'
  <2>1. UNCHANGED <<phase, run, opened, rx, written, buffer, stored, files,
                    mounted, intact>>
    BY <1>4 DEF LogHeader, process, disk, environment
  <2>2. Post(l)
    BY <1>4 DEF LogHeader
  <2>3. QED
    BY <2>1, <2>2, PostType DEF TypeOK
<1>5. ASSUME NEW u \in Universes, NEW kind \in {"sources", "data"},
             LogRow(u, kind)
      PROVE  TypeOK'
  <2>1. rx' \in CsvLogs
    BY <1>5 DEF LogRow, CsvLogs
  <2>2. QED
    BY <1>5, <2>1 DEF LogRow, TypeOK, disk, environment
<1>6. CASE RowPosted
  <2>1. UNCHANGED <<phase, run, opened, written, buffer, stored, files,
                    mounted, intact>>
    BY <1>6 DEF RowPosted, disk, environment
  <2>2. rx \in CsvLogs /\ Post(rx) /\ rx' = NoLog
    BY <1>6 DEF RowPosted, TypeOK
  <2>3. QED
    BY <2>1, <2>2, PostType DEF TypeOK
<1>7. CASE Write
  <2>1. queue \in Seq([log : CsvLogs, n : Nat]) /\ queue # <<>>
    BY <1>7 DEF Write, WriterHasWork, TypeOK
  <2>2. Head(queue) \in [log : CsvLogs, n : Nat]
    BY <2>1, HeadTailProperties
  <2>3. /\ queue' \in Seq([log : CsvLogs, n : Nat])
        /\ Len(queue') <= QueueSize
    <3>1. queue' = Tail(queue)
      BY <1>7 DEF Write
    <3>2. QED
      BY <2>1, <3>1, HeadTailProperties, LenProperties, SizeAssumption
      DEF TypeOK
  <2>4. /\ written' \in [Logs -> Nat] /\ stored' \in [Logs -> Seq(Piece)]
        /\ buffer' \in [Logs -> Seq(Piece)] /\ files' \in [Logs -> Seq(Nat)]
        /\ \A k \in Logs : files[k] # <<>> => files'[k] # <<>>
    <3>1. WriteRow(Head(queue).log, Head(queue).n)
      BY <1>7 DEF Write
    <3>2. Head(queue).log \in Logs /\ Head(queue).n \in Nat
      BY <2>2, LogFacts
    <3>3. QED
      BY <3>1, <3>2, WriteRowType
  <2>5. UNCHANGED <<phase, run, opened, rx, handed, mounted, intact>>
    BY <1>7 DEF Write, process, environment
  <2>6. QED
    BY <2>3, <2>4, <2>5 DEF TypeOK
<1>8. CASE Stop
  BY <1>8 DEF Stop, TypeOK, disk, environment
<1>9. ASSUME NEW l \in Logs, CloseLog(l) PROVE TypeOK'
  <2>1. stored[l] \o buffer[l] \in Seq(Piece)
    BY DEF TypeOK
  <2>2. stored' \in [Logs -> Seq(Piece)] /\ buffer' \in [Logs -> Seq(Piece)]
    BY <1>9, <2>1 DEF CloseLog, TypeOK
  <2>3. UNCHANGED <<phase, run, rx, handed, written, queue, files, mounted,
                    intact>> /\ opened' \subseteq opened
    BY <1>9 DEF CloseLog, environment
  <2>4. QED
    BY <2>2, <2>3 DEF TypeOK
<1>10. CASE Exit
  BY <1>10, SizeAssumption DEF Exit, TypeOK, disk, environment
<1>11. CASE Crash
  <2>1. buffer' \in [Logs -> Seq(Piece)]
    BY <1>11 DEF Crash, Empty
  <2>2. /\ queue' \in Seq([log : CsvLogs, n : Nat])
        /\ Len(queue') <= QueueSize
    BY <1>11, SizeAssumption DEF Crash
  <2>3. QED
    BY <1>11, <2>1, <2>2 DEF Crash, TypeOK
<1>12. CASE Unplug
  BY <1>12 DEF Unplug, TypeOK, process, disk
<1>13. CASE Plug
  BY <1>13 DEF Plug, TypeOK, process, disk
<1>14. CASE UNCHANGED vars
  BY <1>14 DEF TypeOK, vars, process, disk, environment
<1>15. CASE Done
  BY <1>14, <1>15 DEF Done
<1>16. QED
  BY <1>1, <1>2, <1>3, <1>4, <1>5, <1>6, <1>7, <1>8, <1>9, <1>10, <1>11,
     <1>12, <1>13, <1>14, <1>15 DEF Next

\* The state always has its shape: an open log has a file, and the queue never
\* holds more than its bound (UniverseMonitor.cpp:160).
THEOREM TypeCorrect == Spec => []TypeOK
  BY InitType, NextType, PTL DEF Spec

-----------------------------------------------------------------------------
(***************************************************************************)
(* The process: what is open, and what waits.                              *)
(***************************************************************************)

\* Rows wait only while the process runs.
LEMMA QueueEmptyWhenOff ==
    ASSUME TypeOK, ProcessInv, opened = {}
    PROVE  queue = <<>>
<1>1. queue \in Seq([log : CsvLogs, n : Nat])
  BY DEF TypeOK
<1>2. ~(1 \in 1 .. Len(queue))
  BY DEF ProcessInv
<1>3. QED
  BY <1>1, <1>2, EmptySeq, LenProperties

LEMMA ProcessStep ==
    ASSUME TypeOK, ProcessInv, [Next]_vars
    PROVE  ProcessInv'
<1>0. queue \in Seq([log : CsvLogs, n : Nat])
  BY DEF TypeOK
<1>1. CASE Start
  <2>1. queue' = <<>> /\ rx' = NoLog
    BY <1>1, QueueEmptyWhenOff DEF Start, ProcessInv
  <2>2. \A u \in Universes : <<u, "data">> # AppLog
    BY LogFacts DEF CsvLogs
  <2>3. QED
    BY <1>1, <2>1, <2>2 DEF Start, ProcessInv
<1>2. ASSUME NEW priority \in Priorities, LogToApp(priority)
      PROVE  ProcessInv'
  BY <1>2 DEF LogToApp, ProcessInv, process, environment
<1>3. ASSUME NEW u \in Universes, OpenLogs(u) PROVE ProcessInv'
  <2>1. /\ opened' = opened \cup {<<u, "sources">>, <<u, "data">>}
        /\ UNCHANGED <<phase, rx, queue, mounted, intact>>
        /\ phase = "on"
    BY <1>3 DEF OpenLogs, environment
  <2>2. \A v \in Universes : <<v, "data">> \in opened' =>
                             <<v, "sources">> \in opened'
    BY <2>1 DEF ProcessInv
  <2>3. QED
    BY <2>1, <2>2 DEF ProcessInv
<1>4. ASSUME NEW l \in CsvLogs, l \in opened, phase = "on", Post(l),
             UNCHANGED <<phase, opened, mounted, intact>>,
             rx' = rx \/ rx' = NoLog
      PROVE  ProcessInv'
  <2>1. queue' = Append(queue, [log |-> l, n |-> handed[l]])
    BY <1>4, PostType
  <2>2. \A i \in 1 .. Len(queue') : queue'[i].log \in opened
    <3>1. /\ Len(queue') = Len(queue) + 1
          /\ \A i \in 1 .. Len(queue) : queue'[i] = queue[i]
          /\ queue'[Len(queue) + 1] = [log |-> l, n |-> handed[l]]
      BY <1>0, <2>1
    <3>2. \A i \in 1 .. Len(queue) + 1 :
             i \in 1 .. Len(queue) \/ i = Len(queue) + 1
      BY <1>0
    <3>3. queue'[Len(queue) + 1].log = l
      BY <3>1
    <3>4. ASSUME NEW i \in 1 .. Len(queue) PROVE queue'[i].log \in opened
      BY <3>1, <3>4, Zenon DEF ProcessInv
    <3>5. QED
      BY <1>4, <3>1, <3>2, <3>3, <3>4, Zenon
  <2>3. QED
    BY <1>4, <2>2 DEF ProcessInv
<1>5. ASSUME NEW l \in CsvLogs, LogHeader(l) PROVE ProcessInv'
  BY <1>4, <1>5 DEF LogHeader, process, environment
<1>6. ASSUME NEW u \in Universes, NEW kind \in {"sources", "data"},
             LogRow(u, kind)
      PROVE  ProcessInv'
  <2>1. <<u, kind>> \in opened
    BY <1>6 DEF LogRow, ProcessInv
  <2>2. QED
    BY <1>6, <2>1 DEF LogRow, ProcessInv, environment
<1>7. CASE RowPosted
  <2>1. rx \in CsvLogs
    BY <1>7 DEF RowPosted, TypeOK
  <2>2. rx \in opened /\ phase = "on"
    BY <1>7 DEF RowPosted, ProcessInv
  <2>3. QED
    BY <1>4, <1>7, <2>1, <2>2 DEF RowPosted, environment
<1>8. CASE Write
  <2>1. /\ Len(queue') = Len(queue) - 1
        /\ \A i \in 1 .. Len(queue') : queue'[i] = queue[i + 1]
    BY <1>0, <1>8, HeadTailProperties DEF Write, WriterHasWork
  <2>2. \A i \in 1 .. Len(queue') : i + 1 \in 1 .. Len(queue)
    BY <1>0, <2>1, LenProperties
  <2>3. UNCHANGED <<phase, opened, rx, mounted, intact>>
    BY <1>8 DEF Write, process, environment
  <2>4. \A i \in 1 .. Len(queue') : queue'[i].log \in opened
    BY <2>1, <2>2, Zenon DEF ProcessInv
  <2>5. QED
    BY <2>3, <2>4 DEF ProcessInv
<1>9. CASE Stop
  BY <1>9 DEF Stop, ProcessInv, environment
<1>10. ASSUME NEW l \in Logs, CloseLog(l) PROVE ProcessInv'
  <2>1. /\ phase = "closing" /\ phase' = phase /\ rx' = rx
        /\ opened' = opened \ {l} /\ UNCHANGED <<queue, mounted, intact>>
    BY <1>10 DEF CloseLog, environment
  <2>2. \A i \in 1 .. Len(queue) : queue[i].log # l
    BY <1>10 DEF CloseLog, Drained
  <2>3. QED
    BY <2>1, <2>2 DEF ProcessInv
<1>11. CASE Exit
  BY <1>11 DEF Exit, ProcessInv, environment
<1>12. CASE Crash
  BY <1>12 DEF Crash, ProcessInv
<1>13. CASE Unplug
  BY <1>13 DEF Unplug, ProcessInv, process
<1>14. CASE Plug
  BY <1>14 DEF Plug, ProcessInv, process
<1>15. CASE UNCHANGED vars
  BY <1>15 DEF ProcessInv, vars, process, environment
<1>16. CASE Done
  BY <1>15, <1>16 DEF Done
<1>17. QED
  BY <1>1, <1>2, <1>3, <1>5, <1>6, <1>7, <1>8, <1>9, <1>10, <1>11, <1>12,
     <1>13, <1>14, <1>15, <1>16 DEF Next

LEMMA QueueRows ==
    ASSUME TypeOK
    PROVE  \A i \in 1 .. Len(queue) :
              queue[i].log \in Logs /\ queue[i].n \in Nat
<1>1. queue \in Seq([log : CsvLogs, n : Nat])
  BY DEF TypeOK
<1>2. \A i \in 1 .. Len(queue) : queue[i] \in [log : CsvLogs, n : Nat]
  BY <1>1, ElementOfSeq
<1>3. QED
  BY <1>2, LogFacts

\* The row at the head of the queue is the next one of its log.
LEMMA HeadIsNext ==
    ASSUME TypeOK, ProcessInv, QueueInv, WriterHasWork
    PROVE  /\ queue[1] = Head(queue) /\ Head(queue) \in [log : CsvLogs, n : Nat]
           /\ Head(queue).log \in opened /\ phase # "off"
           /\ Head(queue).n = written[Head(queue).log]
           /\ \A i \in 2 .. Len(queue) :
                 queue[i].log = Head(queue).log =>
                    queue[i].n >= written[Head(queue).log] + 1
<1> DEFINE l == Head(queue).log
           w == written[l]
<1>1. /\ queue \in Seq([log : CsvLogs, n : Nat]) /\ queue # <<>>
      /\ Len(queue) \in Nat /\ written \in [Logs -> Nat]
      /\ handed \in [Logs -> Nat]
  BY LenProperties DEF TypeOK, WriterHasWork
<1>2. /\ queue[1] = Head(queue) /\ 1 \in 1 .. Len(queue)
      /\ \A i \in 1 .. Len(queue) : queue[i] \in [log : CsvLogs, n : Nat]
  <2>1. Len(queue) # 0
    BY <1>1, EmptySeq
  <2>2. 1 \in 1 .. Len(queue)
    BY <1>1, <2>1
  <2>3. queue[1] = Head(queue)
    BY <1>1
  <2>4. \A i \in 1 .. Len(queue) : queue[i] \in [log : CsvLogs, n : Nat]
    BY <1>1, ElementOfSeq
  <2>5. QED
    BY <2>2, <2>3, <2>4
<1>3. Head(queue) \in [log : CsvLogs, n : Nat] /\ l \in Logs /\ w \in Nat
      /\ handed[l] \in Nat
  BY <1>1, <1>2, LogFacts
<1>4. l \in opened /\ phase # "off"
  BY <1>2 DEF ProcessInv
<1>5. Head(queue).n \in w .. handed[l] - 1
  BY <1>2 DEF QueueInv
<1> HIDE DEF w
<1>6. w \in w .. handed[l] - 1
  BY <1>3, <1>5
<1>7. PICK i \in 1 .. Len(queue) : queue[i] = [log |-> l, n |-> w]
  BY <1>3, <1>4, <1>6 DEF QueueInv, w
<1>8. queue[i].log = l /\ queue[i].n = w
  BY <1>7
<1>9. \A j \in 2 .. Len(queue) : queue[j].log = l => Head(queue).n < queue[j].n
  <2>1. ASSUME NEW j \in 2 .. Len(queue), queue[j].log = l
        PROVE  Head(queue).n < queue[j].n
    <3>1. j \in 1 .. Len(queue) /\ 1 < j /\ queue[1].log = queue[j].log
      BY <1>1, <1>2, <2>1
    <3>2. queue[1].n < queue[j].n
      BY <1>2, <3>1, Zenon DEF QueueInv
    <3>3. QED
      BY <1>2, <3>2
  <2>2. QED
    BY <2>1
<1>10. Head(queue).n \in Nat /\ \A j \in 2 .. Len(queue) : queue[j].n \in Nat
  BY <1>1, <1>2, <1>3
<1>11. i \notin 2 .. Len(queue)
  BY <1>3, <1>5, <1>8, <1>9, <1>10
<1>12. i = 1
  BY <1>1, <1>11
<1>13. Head(queue).n = w
  BY <1>2, <1>8, <1>12
<1>14. \A j \in 2 .. Len(queue) : queue[j].log = l => queue[j].n >= w + 1
  BY <1>3, <1>9, <1>10, <1>13
<1>15. QED
  BY <1>2, <1>3, <1>4, <1>13, <1>14 DEF w

\* QueueInv speaks of the handed and written rows and of the queue only.
LEMMA QueueUnchanged ==
    ASSUME QueueInv, UNCHANGED <<handed, written, queue>>,
           (phase # "off" \/ intact)' => phase # "off" \/ intact
    PROVE  QueueInv'
  BY DEF QueueInv

\* A row that is posted is the next one of its log.
LEMMA QueuePost ==
    ASSUME TypeOK, ProcessInv, QueueInv,
           NEW l \in CsvLogs, Post(l), phase = "on", UNCHANGED written
    PROVE  QueueInv'
<1> DEFINE row == [log |-> l, n |-> handed[l]]
           last == Len(queue) + 1
<1>1. /\ queue \in Seq([log : CsvLogs, n : Nat]) /\ Len(queue) \in Nat
      /\ written \in [Logs -> Nat] /\ handed \in [Logs -> Nat]
      /\ l \in Logs /\ l # AppLog /\ AppLog \in Logs
  BY LogFacts, LenProperties DEF TypeOK
<1>2. handed' = [handed EXCEPT ![l] = @ + 1]
  BY DEF Post
<1>3. /\ Len(queue') = last
      /\ \A i \in 1 .. Len(queue) : queue'[i] = queue[i]
      /\ queue'[last] = row
  <2>1. queue' = Append(queue, row)
    BY PostType
  <2> HIDE DEF row
  <2>2. QED
    BY <1>1, <2>1
<1>4. /\ \A i \in 1 .. last : i \in 1 .. Len(queue) \/ i = last
      /\ last \in 1 .. last
      /\ \A i \in 1 .. Len(queue) : i \in 1 .. last
      /\ \A i, j \in 1 .. last : i < j => i \in 1 .. Len(queue)
  BY <1>1
<1>5. row.log = l /\ row.n = handed[l] /\ handed[l] \in Nat
  BY <1>1
<1>6. /\ \A k \in Logs : handed'[k] = IF k = l THEN handed[l] + 1 ELSE handed[k]
      /\ \A k \in Logs : handed[k] \in Nat /\ written[k] \in Nat
  BY <1>1, <1>2
<1> HIDE DEF row, last
<1>7. \A k \in Logs : written'[k] <= handed'[k]
  BY <1>6 DEF QueueInv
<1>8. handed'[AppLog] = written'[AppLog]
  BY <1>1, <1>6 DEF QueueInv
<1>9. \A i \in 1 .. Len(queue) : queue[i].log \in Logs /\ queue[i].n \in Nat
  BY QueueRows
<1>10. ASSUME NEW i \in 1 .. last
       PROVE  queue'[i].n \in written'[queue'[i].log] ..
                                 handed'[queue'[i].log] - 1
  <2>1. CASE i = last
    <3>1. written[l] <= handed[l] /\ handed'[l] - 1 = handed[l]
          /\ written[l] \in Nat
      BY <1>1, <1>6 DEF QueueInv
    <3>2. handed[l] \in written[l] .. handed'[l] - 1
      BY <1>5, <3>1
    <3>3. QED
      BY <1>3, <1>5, <2>1, <3>2, Zenon
  <2>2. CASE i \in 1 .. Len(queue)
    <3>1. queue[i].n \in written[queue[i].log] .. handed[queue[i].log] - 1
      BY <2>2 DEF QueueInv
    <3>2. queue[i].n \in written[queue[i].log] .. handed'[queue[i].log] - 1
      BY <1>6, <1>9, <2>2, <3>1
    <3>3. QED
      BY <1>3, <2>2, <3>2, Zenon
  <2>3. QED
    BY <1>4, <2>1, <2>2
<1>11. ASSUME NEW i \in 1 .. last, NEW j \in 1 .. last,
              i < j, queue'[i].log = queue'[j].log
       PROVE  queue'[i].n < queue'[j].n
  <2>1. i \in 1 .. Len(queue) /\ queue'[i] = queue[i]
    BY <1>3, <1>4, <1>11
  <2>2. CASE j = last
    <3>1. queue[i].log = l /\ queue'[j].n = handed[l]
      BY <1>3, <1>5, <1>11, <2>1, <2>2
    <3>2. queue[i].n \in written[l] .. handed[l] - 1
      BY <2>1, <3>1 DEF QueueInv
    <3>3. QED
      BY <1>5, <1>6, <1>9, <2>1, <3>1, <3>2
  <2>3. CASE j \in 1 .. Len(queue)
    BY <1>3, <1>11, <2>1, <2>3 DEF QueueInv
  <2>4. QED
    BY <1>4, <2>2, <2>3
<1>12. ASSUME NEW k \in Logs, NEW m \in written[k] .. handed'[k] - 1
       PROVE  \E i \in 1 .. last : queue'[i] = [log |-> k, n |-> m]
  <2>1. CASE k = l /\ m = handed[l]
    BY <1>3, <1>4, <2>1 DEF row
  <2>2. CASE m \in written[k] .. handed[k] - 1
    <3>1. PICK i \in 1 .. Len(queue) : queue[i] = [log |-> k, n |-> m]
      BY <2>2 DEF QueueInv
    <3>2. QED
      BY <1>3, <1>4, <3>1
  <2>3. m \in written[k] .. handed[k] - 1 \/ (k = l /\ m = handed[l])
    BY <1>5, <1>6
  <2>4. QED
    BY <2>1, <2>2, <2>3
<1>13. QED
  BY <1>3, <1>7, <1>8, <1>10, <1>11, <1>12, Zenon DEF QueueInv

\* The writer thread takes the next row of a log.
LEMMA QueueWrite ==
    ASSUME TypeOK, ProcessInv, QueueInv, Write
    PROVE  QueueInv'
<1> DEFINE l == Head(queue).log
<1>1. /\ queue \in Seq([log : CsvLogs, n : Nat]) /\ queue # <<>>
      /\ Len(queue) \in Nat
      /\ written \in [Logs -> Nat] /\ handed \in [Logs -> Nat]
      /\ WriterHasWork
  BY LenProperties DEF TypeOK, Write, WriterHasWork
<1>2. /\ queue[1] = Head(queue) /\ Head(queue) \in [log : CsvLogs, n : Nat]
      /\ Head(queue).n = written[l] /\ phase # "off"
      /\ \A i \in 2 .. Len(queue) :
            queue[i].log = l => queue[i].n >= written[l] + 1
  BY <1>1, HeadIsNext
<1>3. /\ l \in CsvLogs /\ l \in Logs /\ l # AppLog /\ AppLog \in Logs
      /\ written' = [written EXCEPT ![l] = @ + 1] /\ handed' = handed
  BY <1>2, LogFacts DEF Write, WriteRow
<1>4. /\ Len(queue') = Len(queue) - 1
      /\ \A i \in 1 .. Len(queue') : queue'[i] = queue[i + 1]
  BY <1>1, HeadTailProperties DEF Write
<1> HIDE DEF l
<1>5. /\ \A k \in Logs :
            written'[k] = IF k = l THEN written[l] + 1 ELSE written[k]
      /\ \A k \in Logs : handed[k] \in Nat /\ written[k] \in Nat
  BY <1>1, <1>3
<1>6. \A i \in 1 .. Len(queue') : i + 1 \in 2 .. Len(queue)
                                  /\ i + 1 \in 1 .. Len(queue)
  BY <1>1, <1>4
<1>7. \A i \in 1 .. Len(queue) : queue[i].log \in Logs /\ queue[i].n \in Nat
  BY QueueRows
<1>8. written[l] <= handed[l] - 1
  <2>1. 1 \in 1 .. Len(queue)
    BY <1>1, EmptySeq
  <2>2. queue[1].n \in written[queue[1].log] .. handed[queue[1].log] - 1
    BY <2>1 DEF QueueInv
  <2>3. QED
    BY <1>2, <1>3, <1>5, <2>2 DEF l
<1>9. \A k \in Logs : written'[k] <= handed'[k]
  BY <1>3, <1>5, <1>8 DEF QueueInv
<1>10. handed'[AppLog] = written'[AppLog]
  BY <1>3, <1>5 DEF QueueInv
<1>11. ASSUME NEW i \in 1 .. Len(queue')
       PROVE  queue'[i].n \in written'[queue'[i].log] ..
                                 handed'[queue'[i].log] - 1
  <2> DEFINE j == i + 1
  <2>1. j \in 1 .. Len(queue) /\ j \in 2 .. Len(queue) /\ queue'[i] = queue[j]
    BY <1>4, <1>6
  <2> HIDE DEF j
  <2>2. /\ queue[j].n \in written[queue[j].log] .. handed[queue[j].log] - 1
        /\ queue[j].log = l => queue[j].n >= written[l] + 1
        /\ queue[j].log \in Logs /\ queue[j].n \in Nat
    BY <1>2, <1>7, <2>1, Zenon DEF QueueInv, l
  <2>3. queue[j].n \in written'[queue[j].log] .. handed[queue[j].log] - 1
    BY <1>5, <2>2
  <2>4. QED
    BY <1>3, <2>1, <2>3, Zenon
<1>12. ASSUME NEW i \in 1 .. Len(queue'), NEW j \in 1 .. Len(queue'),
              i < j, queue'[i].log = queue'[j].log
       PROVE  queue'[i].n < queue'[j].n
  <2>1. i + 1 \in 1 .. Len(queue) /\ j + 1 \in 1 .. Len(queue) /\ i + 1 < j + 1
    BY <1>6, <1>12
  <2>2. queue'[i] = queue[i + 1] /\ queue'[j] = queue[j + 1]
    BY <1>4
  <2>3. QED
    BY <1>12, <2>1, <2>2, Zenon DEF QueueInv
<1>13. ASSUME NEW k \in Logs, NEW m \in written'[k] .. handed[k] - 1
       PROVE  \E i \in 1 .. Len(queue') : queue'[i] = [log |-> k, n |-> m]
  <2>1. m \in written[k] .. handed[k] - 1 /\ (k = l => m # written[l])
    BY <1>5
  <2>2. PICK j \in 1 .. Len(queue) : queue[j] = [log |-> k, n |-> m]
    BY <1>2, <2>1 DEF QueueInv
  <2>3. j # 1
    <3>1. ASSUME j = 1 PROVE FALSE
      <4>1. Head(queue) = [log |-> k, n |-> m]
        BY <1>2, <2>2, <3>1
      <4>2. k = l /\ m = written[l]
        BY <1>2, <4>1 DEF l
      <4>3. QED
        BY <2>1, <4>2
    <3>2. QED
      BY <3>1
  <2>4. j - 1 \in 1 .. Len(queue') /\ (j - 1) + 1 = j
    BY <1>1, <1>4, <2>3
  <2>5. queue'[j - 1] = queue[j]
    BY <1>4, <2>4
  <2>6. QED
    BY <2>2, <2>4, <2>5
<1>14. QED
  BY <1>3, <1>9, <1>10, <1>11, <1>12, <1>13, Zenon DEF QueueInv

\* A process that ends, well or not, or begins has an empty queue.
LEMMA QueueEmpty ==
    ASSUME TypeOK, QueueInv, queue' = <<>>,
           \/ handed' = Zero /\ written' = Zero
           \/ UNCHANGED <<handed, written>> /\ ~(phase # "off" \/ intact)'
    PROVE  QueueInv'
<1>1. ~(\E i \in 1 .. Len(queue') : TRUE)
  BY EmptySeq
<1>2. \A l \in Logs : handed[l] \in Nat /\ written[l] \in Nat
  BY DEF TypeOK
<1>3. CASE handed' = Zero /\ written' = Zero
  <2>1. \A l \in Logs : handed'[l] = 0 /\ written'[l] = 0
    BY <1>3 DEF Zero
  <2>2. \A l \in Logs : written'[l] .. handed'[l] - 1 = {}
    BY <2>1
  <2>3. QED
    BY <1>1, <2>1, <2>2, LogFacts DEF QueueInv
<1>4. CASE UNCHANGED <<handed, written>> /\ ~(phase # "off" \/ intact)'
  BY <1>1, <1>4 DEF QueueInv
<1>5. QED
  BY <1>3, <1>4

LEMMA QueueStep ==
    ASSUME TypeOK, ProcessInv, QueueInv, [Next]_vars
    PROVE  QueueInv'
<1>1. CASE Start
  <2>1. queue' = <<>>
    BY <1>1, QueueEmptyWhenOff DEF Start, ProcessInv
  <2>2. QED
    BY <1>1, <2>1, QueueEmpty DEF Start
<1>2. ASSUME NEW priority \in Priorities, LogToApp(priority) PROVE QueueInv'
  <2>1. /\ handed' = [handed EXCEPT ![AppLog] = @ + 1]
        /\ written' = [written EXCEPT ![AppLog] = @ + 1]
        /\ queue' = queue /\ phase # "off"
    BY <1>2 DEF LogToApp, WriteRow
  <2>2. /\ handed \in [Logs -> Nat] /\ written \in [Logs -> Nat]
        /\ AppLog \in Logs /\ handed[AppLog] = written[AppLog]
    BY LogFacts DEF TypeOK, QueueInv
  <2>3. /\ \A l \in Logs \ {AppLog} :
              handed'[l] = handed[l] /\ written'[l] = written[l]
        /\ handed'[AppLog] = written'[AppLog] /\ written'[AppLog] \in Nat
    BY <2>1, <2>2
  <2>4. \A i \in 1 .. Len(queue) : queue[i].log \in Logs \ {AppLog}
    <3>1. queue \in Seq([log : CsvLogs, n : Nat])
      BY DEF TypeOK
    <3>2. \A i \in 1 .. Len(queue) : queue[i] \in [log : CsvLogs, n : Nat]
      BY <3>1, ElementOfSeq
    <3>3. QED
      BY <3>2, LogFacts
  <2>5. \A l \in Logs : written'[l] <= handed'[l]
    BY <2>2, <2>3 DEF QueueInv
  <2>6. \A i \in 1 .. Len(queue) :
           queue[i].n \in written'[queue[i].log] .. handed'[queue[i].log] - 1
    BY <2>3, <2>4 DEF QueueInv
  <2>7. ASSUME NEW l \in Logs, NEW m \in written'[l] .. handed'[l] - 1
        PROVE  \E i \in 1 .. Len(queue) : queue[i] = [log |-> l, n |-> m]
    <3>1. l # AppLog
      BY <2>3
    <3>2. m \in written[l] .. handed[l] - 1
      BY <2>3, <3>1
    <3>3. QED
      BY <2>1, <3>2 DEF QueueInv
  <2>8. \A i, j \in 1 .. Len(queue) :
           i < j /\ queue[i].log = queue[j].log => queue[i].n < queue[j].n
    BY DEF QueueInv
  <2>9. QED
    BY <2>1, <2>3, <2>5, <2>6, <2>7, <2>8, Zenon DEF QueueInv
<1>3. ASSUME NEW u \in Universes, OpenLogs(u) PROVE QueueInv'
  BY <1>3, QueueUnchanged DEF OpenLogs, environment
<1>4. ASSUME NEW l \in CsvLogs, LogHeader(l) PROVE QueueInv'
  BY <1>4, QueuePost DEF LogHeader
<1>5. ASSUME NEW u \in Universes, NEW kind \in {"sources", "data"},
             LogRow(u, kind)
      PROVE  QueueInv'
  BY <1>5, QueueUnchanged DEF LogRow, environment
<1>6. CASE RowPosted
  <2>1. rx \in CsvLogs /\ phase = "on"
    BY <1>6 DEF RowPosted, TypeOK, ProcessInv
  <2>2. QED
    BY <1>6, <2>1, QueuePost DEF RowPosted
<1>7. CASE Write
  BY <1>7, QueueWrite
<1>8. CASE Stop
  BY <1>8, QueueUnchanged DEF Stop, environment
<1>9. ASSUME NEW l \in Logs, CloseLog(l) PROVE QueueInv'
  BY <1>9, QueueUnchanged DEF CloseLog, environment
<1>10. CASE Exit
  <2>1. queue = <<>>
    BY <1>10, QueueEmptyWhenOff DEF Exit
  <2>2. QED
    BY <1>10, <2>1, QueueUnchanged DEF Exit
<1>11. CASE Crash
  BY <1>11, QueueEmpty DEF Crash
<1>12. CASE Unplug
  BY <1>12, QueueUnchanged DEF Unplug, process
<1>13. CASE Plug
  BY <1>13, QueueUnchanged DEF Plug, process
<1>14. CASE UNCHANGED vars
  BY <1>14, QueueUnchanged DEF vars, process, environment
<1>15. CASE Done
  BY <1>14, <1>15 DEF Done
<1>16. QED
  BY <1>1, <1>2, <1>3, <1>4, <1>5, <1>6, <1>7, <1>8, <1>9, <1>10, <1>11,
     <1>12, <1>13, <1>14, <1>15 DEF Next

-----------------------------------------------------------------------------
(***************************************************************************)
(* The streams.                                                            *)
(***************************************************************************)

LEMMA JoinFacts ==
    ASSUME NEW a \in Seq(Piece), NEW b \in Seq(Piece)
    PROVE  /\ Len(a \o b) = Len(a) + Len(b)
           /\ \A i \in 1 .. Len(a) : (a \o b)[i] = a[i]
  OBVIOUS

\* Nothing happens to log l; in a run that begins it has all before it.
LEMMA StreamSame ==
    ASSUME TypeOK, NEW l \in Logs, StreamOK(l),
           stored'[l] = stored[l], buffer'[l] = buffer[l],
           buffer[l] # <<>> => l \in opened',
           \/ run' = run /\ (intact' => intact /\ written'[l] = written[l])
           \/ run' = run + 1 /\ written'[l] = 0
    PROVE  StreamOK(l)'
<1> DEFINE s == Stream(l)
<1>1. s' = s /\ s \in Seq(Piece) /\ run \in Nat
  BY DEF TypeOK, Stream
<1>2. Unbroken(s)'
  <2>1. Unbroken(s)
    BY DEF StreamOK
  <2>2. QED
    BY <1>1, <2>1 DEF Unbroken
<1>3. \A i \in 1 .. Len(s) : s[i][1] <= run /\ s[i][1] \in Nat
  <2>1. \A i \in 1 .. Len(s) : s[i] \in Piece
    BY <1>1, ElementOfSeq
  <2>2. QED
    BY <2>1 DEF StreamOK, Piece
<1> HIDE DEF s
<1>4. CASE run' = run /\ (intact' => intact /\ written'[l] = written[l])
  <2>1. intact' => EndsAt(s, written[l])
    BY <1>4 DEF StreamOK, s
  <2>2. (intact => EndsAt(s, written[l]))'
    BY <1>1, <1>4, <2>1 DEF EndsAt
  <2>3. \A i \in 1 .. Len(s') : s'[i][1] <= run'
    BY <1>1, <1>3, <1>4
  <2>4. QED
    BY <1>2, <2>2, <2>3 DEF StreamOK, s
<1>5. CASE run' = run + 1 /\ written'[l] = 0
  <2>1. \A i \in 1 .. Len(s') : s'[i][1] < run'
    BY <1>1, <1>3, <1>5
  <2>2. EndsAt(s, written[l])'
    BY <1>5, <2>1 DEF EndsAt
  <2>3. \A i \in 1 .. Len(s') : s'[i][1] <= run'
    BY <1>1, <1>3, <1>5
  <2>4. QED
    BY <1>2, <2>2, <2>3 DEF StreamOK, s
<1>6. QED
  BY <1>4, <1>5

\* The buffer of log l is written or, when the run is not intact, lost.
LEMMA StreamCut ==
    ASSUME TypeOK, NEW l \in Logs, StreamOK(l),
           buffer'[l] = <<>>, run' = run, written' = written,
           \/ stored'[l] = Stream(l) /\ (intact' => intact)
           \/ stored'[l] = stored[l] /\ ~intact'
    PROVE  StreamOK(l)'
<1>1. /\ stored[l] \in Seq(Piece) /\ buffer[l] \in Seq(Piece)
      /\ Stream(l) = stored[l] \o buffer[l] /\ Stream(l) \in Seq(Piece)
  BY DEF TypeOK, Stream
<1>2. Unbroken(Stream(l)) /\ \A i \in 1 .. Len(Stream(l)) : Stream(l)[i][1] <= run
  BY DEF StreamOK
<1>3. CASE stored'[l] = Stream(l) /\ (intact' => intact)
  <2>1. Stream(l)' = Stream(l)
    <3>1. Stream(l) \o <<>> = Stream(l)
      BY <1>1, ConcatEmptySeq
    <3>2. Stream(l)' = stored'[l] \o buffer'[l]
      BY DEF Stream
    <3>3. QED
      BY <1>3, <3>1, <3>2
  <2>2. (intact => EndsAt(Stream(l), written[l]))'
    BY <1>3, <2>1 DEF StreamOK, EndsAt
  <2>3. Unbroken(Stream(l))'
    BY <1>2, <2>1 DEF Unbroken
  <2>4. QED
    BY <1>2, <2>1, <2>2, <2>3 DEF StreamOK
<1>4. CASE stored'[l] = stored[l] /\ ~intact'
  <2>1. Stream(l)' = stored[l]
    <3>1. stored[l] \o <<>> = stored[l]
      BY <1>1, ConcatEmptySeq
    <3>2. Stream(l)' = stored'[l] \o buffer'[l]
      BY DEF Stream
    <3>3. QED
      BY <1>4, <3>1, <3>2
  <2>2. Unbroken(stored[l])
    BY <1>1, <1>2, UnbrokenPrefix
  <2>3. Unbroken(Stream(l))'
    BY <2>1, <2>2 DEF Unbroken
  <2>4. \A i \in 1 .. Len(stored[l]) : stored[l][i][1] <= run
    <3>1. /\ \A i \in 1 .. Len(stored[l]) : /\ i \in 1 .. Len(Stream(l))
                                            /\ Stream(l)[i] = stored[l][i]
      <4>1. /\ Len(Stream(l)) = Len(stored[l]) + Len(buffer[l])
            /\ \A i \in 1 .. Len(stored[l]) : Stream(l)[i] = stored[l][i]
        <5>1. /\ Len(stored[l] \o buffer[l]) = Len(stored[l]) + Len(buffer[l])
              /\ \A i \in 1 .. Len(stored[l]) :
                    (stored[l] \o buffer[l])[i] = stored[l][i]
          BY <1>1, JoinFacts
        <5>2. QED
          BY <1>1, <5>1, Zenon
      <4>2. Len(stored[l]) \in Nat /\ Len(buffer[l]) \in Nat
        BY <1>1
      <4>3. \A x, y \in Nat : \A i \in 1 .. x : i \in 1 .. x + y
        OBVIOUS
      <4>4. QED
        BY <4>1, <4>2, <4>3, Zenon
    <3>2. QED
      BY <1>2, <3>1
  <2>5. QED
    BY <1>4, <2>1, <2>3, <2>4 DEF StreamOK
<1>5. QED
  BY <1>3, <1>4

\* An open log is given its next row.
LEMMA StreamWriteRow ==
    ASSUME TypeOK, ProcessInv, StreamInv, phase # "off",
           NEW l \in Logs, l \in opened, WriteRow(l, written[l]),
           UNCHANGED <<run, opened, intact>>
    PROVE  StreamInv'
<1>1. CASE ~mounted
  <2>1. ~intact' /\ UNCHANGED <<stored, buffer>>
    BY <1>1 DEF ProcessInv, WriteRow, disk
  <2>2. QED
    BY <2>1, StreamSame DEF StreamInv, StreamOK
<1>2. CASE mounted
  <2> DEFINE w == written[l]
  <2>1. /\ w \in Nat /\ run \in Nat /\ intact /\ Stream(l) \in Seq(Piece)
        /\ written' = [written EXCEPT ![l] = @ + 1] /\ written \in [Logs -> Nat]
    BY <1>2 DEF TypeOK, ProcessInv, WriteRow, Stream
  <2>2. /\ Unbroken(Stream(l)) /\ EndsAt(Stream(l), w)
        /\ \A i \in 1 .. Len(Stream(l)) : Stream(l)[i][1] <= run
    BY <2>1 DEF StreamInv, StreamOK
  <2> DEFINE t == Stream(l) \o Pieces(w)
  <2>3. /\ Unbroken(t) /\ EndsAt(t, w + 1)
        /\ \A i \in 1 .. Len(t) : t[i][1] <= run
    <3> HIDE DEF w
    <3>1. QED
      BY <2>1, <2>2, UnbrokenExtends
  <2>4. /\ stored'[l] \o buffer'[l] = t
        /\ \A k \in Logs \ {l} : stored'[k] = stored[k] /\ buffer'[k] = buffer[k]
    <3>1. WriteRow(l, w) /\ w \in Nat
      BY <2>1
    <3> HIDE DEF w
    <3>2. QED
      BY <1>2, <3>1, WriteRowEffect
  <2>5. Stream(l)' = t /\ written'[l] = w + 1
    BY <2>1, <2>4 DEF Stream
  <2> HIDE DEF t, w
  <2>6. StreamOK(l)'
    <3>1. Unbroken(Stream(l))'
      BY <2>3, <2>5 DEF Unbroken
    <3>2. EndsAt(Stream(l), written[l])'
      BY <2>3, <2>5 DEF EndsAt
    <3>3. QED
      BY <2>3, <2>5, <3>1, <3>2 DEF StreamOK
  <2>7. ASSUME NEW k \in Logs \ {l} PROVE StreamOK(k)'
    <3>1. written'[k] = written[k]
      BY <2>1
    <3>2. QED
      BY <2>4, <3>1, StreamSame DEF StreamInv, StreamOK
  <2>8. QED
    BY <2>6, <2>7 DEF StreamInv
<1>3. QED
  BY <1>1, <1>2

LEMMA StreamStep ==
    ASSUME TypeOK, ProcessInv, QueueInv, StreamInv, [Next]_vars
    PROVE  StreamInv'
<1>1. ASSUME UNCHANGED <<stored, buffer, run, written>>,
             intact' => intact, opened \subseteq opened' \/ opened = {}
      PROVE  StreamInv'
  BY <1>1, StreamSame DEF StreamInv, StreamOK
<1>2. CASE Start
  <2>1. opened = {} /\ run' = run + 1 /\ written' = Zero
        /\ stored' = stored /\ buffer' = buffer
    BY <1>2 DEF Start, ProcessInv
  <2>2. \A l \in Logs : written'[l] = 0
    BY <2>1 DEF Zero
  <2>3. QED
    BY <2>1, <2>2, StreamSame DEF StreamInv, StreamOK
<1>3. ASSUME NEW priority \in Priorities, LogToApp(priority) PROVE StreamInv'
  <2>1. /\ phase = "on" /\ AppLog \in opened /\ AppLog \in Logs
        /\ handed[AppLog] = written[AppLog]
    BY <1>3, LogFacts DEF LogToApp, ProcessInv, QueueInv
  <2>2. WriteRow(AppLog, written[AppLog]) /\ UNCHANGED <<run, opened, intact>>
    BY <1>3, <2>1 DEF LogToApp, process, environment
  <2>3. QED
    BY <2>1, <2>2, StreamWriteRow
<1>4. ASSUME NEW u \in Universes, OpenLogs(u) PROVE StreamInv'
  BY <1>1, <1>4 DEF OpenLogs, environment
<1>5. ASSUME NEW l \in CsvLogs, LogHeader(l) PROVE StreamInv'
  BY <1>1, <1>5 DEF LogHeader, process, disk, environment
<1>6. ASSUME NEW u \in Universes, NEW kind \in {"sources", "data"},
             LogRow(u, kind)
      PROVE  StreamInv'
  BY <1>1, <1>6 DEF LogRow, disk, environment
<1>7. CASE RowPosted
  BY <1>1, <1>7 DEF RowPosted, disk, environment
<1>8. CASE Write
  <2> DEFINE l == Head(queue).log
  <2>1. /\ l \in opened /\ phase # "off" /\ Head(queue).n = written[l]
    BY <1>8, HeadIsNext DEF Write
  <2>2. l \in Logs
    BY <2>1 DEF TypeOK
  <2>3. WriteRow(l, written[l]) /\ UNCHANGED <<run, opened, intact>>
    BY <1>8, <2>1 DEF Write, process, environment
  <2> HIDE DEF l
  <2>4. QED
    BY <2>1, <2>2, <2>3, StreamWriteRow
<1>9. CASE Stop
  BY <1>1, <1>9 DEF Stop, disk, environment
<1>10. ASSUME NEW l \in Logs, CloseLog(l) PROVE StreamInv'
  <2>1. /\ opened' = opened \ {l} /\ UNCHANGED <<run, written, mounted, intact>>
        /\ stored' = [stored EXCEPT ![l] =
                         IF mounted THEN @ \o buffer[l] ELSE @]
        /\ buffer' = [buffer EXCEPT ![l] = <<>>]
        /\ phase # "off"
    BY <1>10 DEF CloseLog, environment
  <2>2. /\ stored \in [Logs -> Seq(Piece)] /\ buffer \in [Logs -> Seq(Piece)]
    BY DEF TypeOK
  <2>3. /\ buffer'[l] = <<>>
        /\ mounted => stored'[l] = Stream(l)
        /\ ~mounted => stored'[l] = stored[l]
        /\ \A k \in Logs \ {l} : stored'[k] = stored[k] /\ buffer'[k] = buffer[k]
    BY <2>1, <2>2 DEF Stream
  <2>4. StreamOK(l)'
    <3>1. ~mounted => ~intact'
      BY <2>1 DEF ProcessInv
    <3>2. StreamOK(l)
      BY DEF StreamInv
    <3>3. QED
      BY <2>1, <2>3, <3>1, <3>2, StreamCut
  <2>5. ASSUME NEW k \in Logs \ {l} PROVE StreamOK(k)'
    <3>1. StreamOK(k) /\ (buffer[k] # <<>> => k \in opened')
      BY <2>1 DEF StreamInv, StreamOK
    <3>2. QED
      BY <2>1, <2>3, <3>1, StreamSame
  <2>6. QED
    BY <2>4, <2>5 DEF StreamInv
<1>11. CASE Exit
  BY <1>1, <1>11 DEF Exit, disk, environment
<1>12. CASE Crash
  <2>1. \A l \in Logs : buffer'[l] = <<>> /\ stored'[l] = stored[l]
    BY <1>12 DEF Crash, Empty
  <2>2. ~intact' /\ run' = run /\ written' = written
    BY <1>12 DEF Crash
  <2>3. QED
    BY <2>1, <2>2, StreamCut DEF StreamInv
<1>13. CASE Unplug
  BY <1>1, <1>13 DEF Unplug, process, disk
<1>14. CASE Plug
  BY <1>1, <1>14 DEF Plug, process, disk
<1>15. CASE UNCHANGED vars
  BY <1>1, <1>15 DEF vars, process, disk, environment
<1>16. CASE Done
  BY <1>15, <1>16 DEF Done
<1>17. QED
  BY <1>2, <1>3, <1>4, <1>5, <1>6, <1>7, <1>8, <1>9, <1>10, <1>11,
     <1>12, <1>13, <1>14, <1>15, <1>16 DEF Next

-----------------------------------------------------------------------------
(***************************************************************************)
(* The files.                                                              *)
(***************************************************************************)

\* The sizes of what there is of log l, as numbers.
LEMMA SizeFacts ==
    ASSUME TypeOK, NEW l \in Logs
    PROVE  /\ Len(stored[l]) \in Nat /\ Len(buffer[l]) \in Nat
           /\ files[l] \in Seq(Nat) /\ Len(files[l]) \in Nat
           /\ files[l] # <<>> => /\ Len(files[l]) \in 1 .. Len(files[l])
                                 /\ files[l][Len(files[l])] \in Nat
           /\ files[l] = <<>> => Len(files[l]) = 0
<1>1. /\ stored[l] \in Seq(Piece) /\ buffer[l] \in Seq(Piece)
      /\ files[l] \in Seq(Nat)
  BY DEF TypeOK
<1>2. /\ Len(stored[l]) \in Nat /\ Len(buffer[l]) \in Nat
      /\ Len(files[l]) \in Nat
  BY <1>1, LenProperties
<1>3. ASSUME files[l] # <<>>
      PROVE  /\ Len(files[l]) \in 1 .. Len(files[l])
             /\ files[l][Len(files[l])] \in Nat
  <2>1. Len(files[l]) \in 1 .. Len(files[l])
    BY <1>1, <1>2, <1>3, EmptySeq
  <2>2. QED
    BY <1>1, <2>1, ElementOfSeq
<1>4. files[l] = <<>> => Len(files[l]) = 0
  BY EmptySeq
<1>5. QED
  BY <1>1, <1>2, <1>3, <1>4

\* No file begins, and log l is not longer, with its buffer, than before.
LEMMA FilesSame ==
    ASSUME TypeOK, TypeOK', NEW l \in Logs, FilesOK(l), files'[l] = files[l],
           Len(stored'[l]) >= Len(stored[l]),
           Len(stored'[l]) + Len(buffer'[l]) <= Len(stored[l]) + Len(buffer[l])
    PROVE  FilesOK(l)'
<1> DEFINE f == files[l]
           last == f[Len(f)]
<1>1. /\ Len(stored[l]) \in Nat /\ Len(buffer[l]) \in Nat
      /\ Len(stored'[l]) \in Nat /\ Len(buffer'[l]) \in Nat
      /\ f # <<>> => last \in Nat
  <2>1. stored'[l] \in Seq(Piece) /\ buffer'[l] \in Seq(Piece)
    BY DEF TypeOK
  <2>2. QED
    BY <2>1, SizeFacts, LenProperties
<1>2. ASSUME f # <<>>
      PROVE  /\ last <= Len(stored'[l])
             /\ Len(stored'[l]) + Len(buffer'[l]) - last <= FileSize
  <2>1. /\ last <= Len(stored[l]) /\ last \in Nat
        /\ Len(stored[l]) + Len(buffer[l]) - last <= FileSize
    BY <1>1, <1>2 DEF FilesOK, Size
  <2> DEFINE a == Len(stored'[l])
             b == Len(buffer'[l])
             c == Len(stored[l])
             d == Len(buffer[l])
  <2>2. /\ a \in Nat /\ b \in Nat /\ c \in Nat /\ d \in Nat /\ last \in Nat
        /\ a >= c /\ a + b <= c + d /\ last <= c /\ c + d - last <= FileSize
    BY <1>1, <2>1, Zenon
  <2> HIDE DEF a, b, c, d, last
  <2>3. last <= a /\ a + b - last <= FileSize
    BY <2>2, SizeAssumption
  <2>4. QED
    BY <2>3 DEF a, b, last
<1>3. /\ files'[l] # <<>> =>
            files'[l][Len(files'[l])] <= Len(stored'[l]) /\ (Size(l) <= FileSize)'
  BY <1>2 DEF Size
<1>4. /\ Len(files'[l]) <= MaxFiles + 1
      /\ \A i \in 1 .. Len(files'[l]) - 1 :
            Follows(files'[l][i], files'[l][i + 1])
  BY DEF FilesOK
<1>5. QED
  BY <1>3, <1>4 DEF FilesOK, Follows

\* The log is opened, with nothing in its buffer when it has no file yet.
LEMMA FilesOpened ==
    ASSUME TypeOK, NEW l \in Logs, FilesOK(l), files'[l] = OpenFile(l),
           stored'[l] = stored[l], buffer'[l] = buffer[l],
           files[l] = <<>> => buffer[l] = <<>>
    PROVE  FilesOK(l)'
<1>1. CASE files[l] # <<>>
  BY <1>1 DEF OpenFile, FilesOK, Size, Follows
<1>2. CASE files[l] = <<>>
  <2> DEFINE n == Len(stored[l])
  <2>1. files'[l] = <<n>> /\ n \in Nat
    BY <1>2, SizeFacts DEF OpenFile
  <2>2. Len(stored'[l]) = n /\ Len(buffer'[l]) = 0
    BY <1>2, EmptySeq
  <2> HIDE DEF n
  <2>3. Len(files'[l]) = 1 /\ files'[l][1] = n
    BY <2>1
  <2>4. Size(l)' = n + 0 - n
    BY <2>2, <2>3 DEF Size
  <2>5. /\ files'[l][Len(files'[l])] <= Len(stored'[l]) /\ (Size(l) <= FileSize)'
    BY <2>1, <2>2, <2>3, <2>4, SizeAssumption
  <2>6. /\ Len(files'[l]) <= MaxFiles + 1
        /\ \A i \in 1 .. Len(files'[l]) - 1 : FALSE
    BY <2>3, SizeAssumption
  <2>7. QED
    BY <2>5, <2>6 DEF FilesOK
<1>3. QED
  BY <1>1, <1>2

\* A rotation keeps the files in order and within their size and number.
LEMMA RotatedOK ==
    ASSUME TypeOK, NEW l \in Logs, files[l] # <<>>, FilesOK(l)
    PROVE  LET r == Rotated(files[l], Len(stored[l]) + Len(buffer[l]))
           IN  /\ Len(r) <= MaxFiles + 1
               /\ \A i \in 1 .. Len(r) - 1 : Follows(r[i], r[i + 1])
               /\ r[Len(r)] = Len(stored[l]) + Len(buffer[l])
<1> DEFINE f == files[l]
           start == Len(stored[l]) + Len(buffer[l])
           r == Rotated(f, start)
           all == Append(f, start)
<1>1. /\ f \in Seq(Nat) /\ Len(f) \in Nat /\ Len(f) \in 1 .. Len(f)
      /\ f[Len(f)] \in Nat
      /\ Len(stored[l]) \in Nat /\ Len(buffer[l]) \in Nat
  BY SizeFacts
<1>2. start \in Nat
  <2>1. \A x, y \in Nat : x + y \in Nat
    OBVIOUS
  <2>2. QED
    BY <1>1, <2>1, Zenon
<1>3. Follows(f[Len(f)], start)
  <2>1. f[Len(f)] <= Len(stored[l]) /\ start - f[Len(f)] <= FileSize
    <3>1. f[Len(f)] <= Len(stored[l]) /\ Size(l) <= FileSize
      BY Zenon DEF FilesOK
    <3>2. Size(l) = start - f[Len(f)]
      <4>1. Size(l) = Len(stored[l]) + Len(buffer[l]) - files[l][Len(files[l])]
        BY DEF Size
      <4>2. \A x, y, z \in Nat : x + y - z = (x + y) - z
        OBVIOUS
      <4>3. QED
        BY <1>1, <4>1, <4>2, Zenon
    <3>3. QED
      BY <3>1, <3>2, Zenon
  <2>2. \A x, y, z \in Nat : x <= y => x <= y + z
    OBVIOUS
  <2>3. QED
    BY <1>1, <2>1, <2>2, Zenon DEF Follows
<1> HIDE DEF start
<1>4. /\ Len(all) = Len(f) + 1 /\ all[Len(f) + 1] = start
      /\ \A i \in 1 .. Len(f) : all[i] = f[i]
  BY <1>1, <1>2
<1>5. Len(f) <= MaxFiles + 1
  BY DEF FilesOK
<1>6. /\ Len(r) <= MaxFiles + 1 /\ r[Len(r)] = start
      /\ r \in Seq(Nat)
  BY <1>1, <1>2, <1>5, RotatedFacts
<1>7. PICK d \in {0, 1} : /\ Len(r) = Len(all) - d
                          /\ \A i \in 1 .. Len(r) : r[i] = all[i + d]
  BY <1>1, <1>2, RotatedFacts
<1> HIDE DEF all, r
<1>8. \A i \in 1 .. Len(f) : Follows(all[i], all[i + 1])
  <2>1. ASSUME NEW i \in 1 .. Len(f) - 1 PROVE Follows(all[i], all[i + 1])
    <3>1. i \in 1 .. Len(f) /\ i + 1 \in 1 .. Len(f)
      BY <1>1
    <3>2. Follows(f[i], f[i + 1])
      BY DEF FilesOK
    <3>3. QED
      BY <1>4, <3>1, <3>2, Zenon
  <2>2. Follows(all[Len(f)], all[Len(f) + 1])
    BY <1>1, <1>3, <1>4, Zenon
  <2>3. \A i \in 1 .. Len(f) : i \in 1 .. Len(f) - 1 \/ i = Len(f)
    BY <1>1
  <2>4. QED
    BY <2>1, <2>2, <2>3, Zenon
<1>9. ASSUME NEW i \in 1 .. Len(r) - 1 PROVE Follows(r[i], r[i + 1])
  <2>1. /\ i \in 1 .. Len(r) /\ i + 1 \in 1 .. Len(r)
        /\ i + d \in 1 .. Len(f) /\ (i + 1) + d = (i + d) + 1
    BY <1>1, <1>4, <1>7
  <2>2. r[i] = all[i + d] /\ r[i + 1] = all[(i + d) + 1]
    BY <1>7, <2>1
  <2>3. Follows(all[i + d], all[(i + d) + 1])
    BY <1>8, <2>1, Zenon
  <2>4. QED
    BY <2>2, <2>3, Zenon
<1>10. QED
  BY <1>6, <1>9 DEF start, r

\* A log that has a file is given a row.
LEMMA FilesWriteRow ==
    ASSUME TypeOK, TypeOK', FilesInv, NEW l \in Logs, files[l] # <<>>,
           NEW n \in Nat, WriteRow(l, n)
    PROVE  FilesInv'
<1>1. CASE ~mounted
  <2>1. UNCHANGED <<stored, buffer, files>>
    BY <1>1 DEF WriteRow, disk
  <2>2. QED
    BY <2>1 DEF FilesInv, FilesOK, Size, Follows
<1>2. CASE mounted
  <2> DEFINE c == Len(stored[l])
             d == Len(buffer[l])
             a == Len(stored'[l])
             b == Len(buffer'[l])
             f == files[l]
  <2>1. /\ a + b = c + d + 2 /\ a >= c /\ (Full(l) => a >= c + d)
        /\ files'[l] = IF Full(l) THEN Rotated(f, c + d) ELSE f
        /\ \A k \in Logs \ {l} : /\ stored'[k] = stored[k]
                                /\ buffer'[k] = buffer[k]
                                /\ files'[k] = files[k]
    BY <1>2, WriteRowEffect
  <2>2. FilesOK(l)
    BY DEF FilesInv
  <2>3. /\ a \in Nat /\ b \in Nat /\ c \in Nat /\ d \in Nat
    <3>1. stored'[l] \in Seq(Piece) /\ buffer'[l] \in Seq(Piece)
      BY DEF TypeOK
    <3>2. QED
      BY <3>1, SizeFacts, LenProperties
  <2>4. FilesOK(l)'
    <3>1. CASE Full(l)
      <4> DEFINE r == Rotated(f, c + d)
      <4>1. /\ Len(r) <= MaxFiles + 1
            /\ \A i \in 1 .. Len(r) - 1 : Follows(r[i], r[i + 1])
            /\ r[Len(r)] = c + d
        BY <2>2, RotatedOK
      <4>2. files'[l] = r
        BY <2>1, <3>1
      <4> HIDE DEF r
      <4>3. files'[l][Len(files'[l])] = c + d /\ a >= c + d
        BY <2>1, <3>1, <4>1, <4>2, Zenon
      <4>4. Size(l)' = a + b - (c + d)
        BY <4>3 DEF Size
      <4> HIDE DEF a, b, c, d
      <4>5. a + b - (c + d) <= FileSize /\ c + d <= a
        BY <2>1, <2>3, <4>3, SizeAssumption
      <4>6. /\ files'[l][Len(files'[l])] <= a /\ (Size(l) <= FileSize)'
        BY <4>3, <4>4, <4>5
      <4>7. /\ Len(files'[l]) <= MaxFiles + 1
            /\ \A i \in 1 .. Len(files'[l]) - 1 :
                  Follows(files'[l][i], files'[l][i + 1])
        BY <4>1, <4>2
      <4>8. QED
        BY <4>6, <4>7 DEF FilesOK, Follows, a
    <3>2. CASE ~Full(l)
      <4> DEFINE last == f[Len(f)]
      <4>1. files'[l] = f
        BY <2>1, <3>2
      <4>2. /\ last <= c /\ last \in Nat
        BY <2>2, SizeFacts DEF FilesOK
      <4>3. Size(l) = c + d - last /\ Size(l)' = a + b - last
        BY <4>1 DEF Size
      <4>4. ~(Size(l) > 0) \/ ~(Size(l) + 2 > FileSize)
        BY <3>2 DEF Full
      <4> HIDE DEF a, b, c, d, last
      <4>5. a + b - last <= FileSize /\ last <= a
        <5>1. ~(c + d - last > 0) \/ ~(c + d - last + 2 > FileSize)
          BY <4>3, <4>4, Zenon
        <5>2. QED
          BY <2>1, <2>3, <4>2, <5>1, SizeAssumption
      <4>6. /\ files'[l][Len(files'[l])] <= a /\ (Size(l) <= FileSize)'
        BY <4>1, <4>3, <4>5 DEF last
      <4>7. /\ Len(files'[l]) <= MaxFiles + 1
            /\ \A i \in 1 .. Len(files'[l]) - 1 :
                  Follows(files'[l][i], files'[l][i + 1])
        BY <2>2, <4>1 DEF FilesOK
      <4>8. QED
        BY <4>6, <4>7 DEF FilesOK, Follows, a
    <3>3. QED
      BY <3>1, <3>2
  <2>5. ASSUME NEW k \in Logs \ {l} PROVE FilesOK(k)'
    BY <2>1 DEF FilesInv, FilesOK, Size, Follows
  <2>6. QED
    BY <2>4, <2>5 DEF FilesInv
<1>3. QED
  BY <1>1, <1>2

LEMMA FilesStep ==
    ASSUME TypeOK, TypeOK', ProcessInv, QueueInv, StreamInv, FilesInv,
           [Next]_vars
    PROVE  FilesInv'
<1>1. ASSUME UNCHANGED disk PROVE FilesInv'
  BY <1>1 DEF disk, FilesInv, FilesOK, Size, Follows
\* A log that has no file is not open, and its buffer is empty.
<1>2. \A l \in Logs : files[l] = <<>> => buffer[l] = <<>>
  BY DEF TypeOK, StreamInv, StreamOK
<1>3. ASSUME UNCHANGED <<stored, buffer>>,
             \A l \in Logs : files'[l] = files[l] \/ files'[l] = OpenFile(l)
      PROVE  FilesInv'
  <2>1. ASSUME NEW l \in Logs, files'[l] = files[l] PROVE FilesOK(l)'
    BY <1>3, <2>1 DEF FilesInv, FilesOK, Size, Follows
  <2>2. ASSUME NEW l \in Logs, files'[l] = OpenFile(l) PROVE FilesOK(l)'
    BY <1>2, <1>3, <2>2, FilesOpened DEF FilesInv
  <2>3. QED
    BY <1>3, <2>1, <2>2 DEF FilesInv
<1>4. CASE Start
  <2>1. \A l \in Logs : files'[l] = files[l] \/ files'[l] = OpenFile(l)
    BY <1>4 DEF Start, TypeOK
  <2>2. QED
    BY <1>3, <1>4, <2>1 DEF Start
<1>5. ASSUME NEW priority \in Priorities, LogToApp(priority) PROVE FilesInv'
  <2>1. AppLog \in opened /\ AppLog \in Logs /\ handed[AppLog] \in Nat
    BY <1>5, LogFacts DEF LogToApp, ProcessInv, TypeOK
  <2>2. files[AppLog] # <<>>
    BY <2>1 DEF TypeOK
  <2>3. WriteRow(AppLog, handed[AppLog])
    BY <1>5 DEF LogToApp
  <2>4. QED
    BY <2>1, <2>2, <2>3, FilesWriteRow
<1>6. ASSUME NEW u \in Universes, OpenLogs(u) PROVE FilesInv'
  <2>1. /\ UNCHANGED <<stored, buffer>>
        /\ \A l \in Logs : files'[l] = files[l] \/ files'[l] = OpenFile(l)
    BY <1>6 DEF OpenLogs
  <2>2. QED
    BY <1>3, <2>1
<1>7. ASSUME NEW l \in CsvLogs, LogHeader(l) PROVE FilesInv'
  BY <1>1, <1>7 DEF LogHeader
<1>8. ASSUME NEW u \in Universes, NEW kind \in {"sources", "data"},
             LogRow(u, kind)
      PROVE  FilesInv'
  BY <1>1, <1>8 DEF LogRow
<1>9. CASE RowPosted
  BY <1>1, <1>9 DEF RowPosted
<1>10. CASE Write
  <2> DEFINE l == Head(queue).log
             n == Head(queue).n
  <2>1. l \in opened /\ l \in Logs /\ n \in Nat
    BY <1>10, HeadIsNext, LogFacts DEF Write
  <2>2. files[l] # <<>> /\ WriteRow(l, n)
    BY <1>10, <2>1 DEF TypeOK, Write
  <2> HIDE DEF l, n
  <2>3. QED
    BY <2>1, <2>2, FilesWriteRow
<1>11. CASE Stop
  BY <1>1, <1>11 DEF Stop
<1>12. ASSUME NEW l \in Logs, CloseLog(l) PROVE FilesInv'
  <2>1. /\ files' = files
        /\ stored' = [stored EXCEPT ![l] =
                         IF mounted THEN @ \o buffer[l] ELSE @]
        /\ buffer' = [buffer EXCEPT ![l] = <<>>]
    BY <1>12 DEF CloseLog
  <2>2. /\ stored \in [Logs -> Seq(Piece)] /\ buffer \in [Logs -> Seq(Piece)]
        /\ stored[l] \in Seq(Piece) /\ buffer[l] \in Seq(Piece)
    BY DEF TypeOK
  <2>3. /\ Len(stored[l]) \in Nat /\ Len(buffer[l]) \in Nat
        /\ Len(stored[l] \o buffer[l]) = Len(stored[l]) + Len(buffer[l])
    BY <2>2, JoinFacts, LenProperties
  <2>4. /\ stored'[l] = stored[l] \o buffer[l] \/ stored'[l] = stored[l]
        /\ buffer'[l] = <<>>
        /\ \A k \in Logs \ {l} : stored'[k] = stored[k] /\ buffer'[k] = buffer[k]
    BY <2>1, <2>2
  <2>5. /\ Len(stored'[l]) >= Len(stored[l])
        /\ Len(stored'[l]) + Len(buffer'[l]) <= Len(stored[l]) + Len(buffer[l])
    <3>1. Len(buffer'[l]) = 0
      BY <2>4, EmptySeq
    <3>2. \/ Len(stored'[l]) = Len(stored[l]) + Len(buffer[l])
          \/ Len(stored'[l]) = Len(stored[l])
      BY <2>3, <2>4, Zenon
    <3> DEFINE c == Len(stored[l])
               d == Len(buffer[l])
               a == Len(stored'[l])
               b == Len(buffer'[l])
    <3>3. c \in Nat /\ d \in Nat /\ b = 0 /\ (a = c + d \/ a = c)
      BY <2>3, <3>1, <3>2
    <3> HIDE DEF a, b, c, d
    <3>4. a >= c /\ a + b <= c + d
      BY <3>3
    <3>5. QED
      BY <3>4 DEF a, b, c, d
  <2>6. FilesOK(l)'
    BY <2>1, <2>5, FilesSame DEF FilesInv
  <2>7. ASSUME NEW k \in Logs \ {l} PROVE FilesOK(k)'
    BY <2>1, <2>4 DEF FilesInv, FilesOK, Size, Follows
  <2>8. QED
    BY <2>6, <2>7 DEF FilesInv
<1>13. CASE Exit
  BY <1>1, <1>13 DEF Exit
<1>14. CASE Crash
  <2>1. ASSUME NEW l \in Logs PROVE FilesOK(l)'
    <3>1. /\ files'[l] = files[l] /\ stored'[l] = stored[l] /\ buffer'[l] = <<>>
      BY <1>14 DEF Crash, Empty
    <3>2. /\ Len(stored[l]) \in Nat /\ Len(buffer[l]) \in Nat
          /\ Len(buffer'[l]) = 0
      BY <3>1, SizeFacts, EmptySeq
    <3>3. /\ Len(stored'[l]) >= Len(stored[l])
          /\ Len(stored'[l]) + Len(buffer'[l])
                <= Len(stored[l]) + Len(buffer[l])
      <4>1. \A x, y \in Nat : x >= x /\ x + 0 <= x + y
        OBVIOUS
      <4>2. QED
        BY <3>1, <3>2, <4>1, Zenon
    <3>4. QED
      BY <3>1, <3>3, FilesSame DEF FilesInv
  <2>2. QED
    BY <2>1 DEF FilesInv
<1>15. CASE Unplug
  BY <1>1, <1>15 DEF Unplug
<1>16. CASE Plug
  BY <1>1, <1>16 DEF Plug
<1>17. CASE UNCHANGED vars
  BY <1>1, <1>17 DEF vars
<1>18. CASE Done
  BY <1>17, <1>18 DEF Done
<1>19. QED
  BY <1>4, <1>5, <1>6, <1>7, <1>8, <1>9, <1>10, <1>11, <1>12, <1>13, <1>14,
     <1>15, <1>16, <1>17, <1>18 DEF Next

-----------------------------------------------------------------------------
(***************************************************************************)
(* What the logs keep.                                                     *)
(***************************************************************************)

LEMMA InitInv == Init => IndInv
<1> SUFFICES ASSUME Init PROVE IndInv
  OBVIOUS
<1>1. Len(<<>>) = 0
  BY EmptySeq
<1>2. ProcessInv
  BY <1>1 DEF Init, ProcessInv
<1>3. QueueInv
  <2>1. \A l \in Logs : handed[l] = 0 /\ written[l] = 0
    BY DEF Init, Zero
  <2>2. \A l \in Logs : written[l] .. handed[l] - 1 = {}
    BY <2>1
  <2>3. Len(queue) = 0
    BY <1>1 DEF Init
  <2>4. QED
    BY <2>1, <2>2, <2>3, LogFacts DEF QueueInv
<1>4. \A l \in Logs : stored[l] = <<>> /\ buffer[l] = <<>> /\ files[l] = <<>>
  BY DEF Init, Empty
<1>5. StreamInv
  <2>1. \A l \in Logs : Stream(l) = <<>>
    BY <1>4, ConcatEmptySeq, EmptySeq DEF Stream
  <2>2. Unbroken(<<>>)
    BY <1>1 DEF Unbroken
  <2>3. \A l \in Logs : written[l] = 0
    BY DEF Init, Zero
  <2>4. QED
    BY <1>1, <1>4, <2>1, <2>2, <2>3 DEF StreamInv, StreamOK, EndsAt
<1>6. FilesInv
  BY <1>1, <1>4, SizeAssumption DEF FilesInv, FilesOK
<1>7. QED
  BY <1>2, <1>3, <1>5, <1>6, InitType DEF IndInv

LEMMA NextInv == IndInv /\ [Next]_vars => IndInv'
<1> SUFFICES ASSUME IndInv, [Next]_vars PROVE IndInv'
  OBVIOUS
<1>1. TypeOK /\ ProcessInv /\ QueueInv /\ StreamInv /\ FilesInv
  BY DEF IndInv
<1>2. TypeOK'
  BY <1>1, NextType
<1>3. ProcessInv' /\ QueueInv' /\ StreamInv'
  BY <1>1, ProcessStep, QueueStep, StreamStep
<1>4. FilesInv'
  BY <1>1, <1>2, FilesStep
<1>5. QED
  BY <1>2, <1>3, <1>4 DEF IndInv

LEMMA Invariance == Spec => []IndInv
  BY InitInv, NextInv, PTL DEF Spec

\* On disk every run of every log begins with its header line and has no gap,
\* whatever crashes, rotations, restarts and pulled drives there were: the rows
\* that UniverseMonitor.cpp:154 hands to its loggers.
THEOREM LogsUnbroken == Spec => []RunsUnbroken
<1>1. IndInv => RunsUnbroken
  <2> SUFFICES ASSUME IndInv, NEW l \in Logs PROVE Unbroken(stored[l])
    BY DEF RunsUnbroken
  <2>1. stored[l] \in Seq(Piece) /\ buffer[l] \in Seq(Piece)
    BY DEF IndInv, TypeOK
  <2>2. Unbroken(stored[l] \o buffer[l])
    BY DEF IndInv, StreamInv, StreamOK, Stream
  <2>3. QED
    BY <2>1, <2>2, UnbrokenPrefix
<1>2. QED
  BY <1>1, Invariance, PTL

\* When the process has ended by way of sacnCleanup (main.cpp:42) the last row
\* that each logger accepted is the last of its log on disk, and with
\* LogsUnbroken so are all before it.
THEOREM CleanExitKeeps == Spec => []CleanExitKeepsAll
<1>1. IndInv => CleanExitKeepsAll
  <2> SUFFICES ASSUME IndInv, phase = "off", intact,
                      NEW l \in Logs, handed[l] > 0
               PROVE  /\ stored[l] # <<>>
                      /\ stored[l][Len(stored[l])] = <<run, handed[l] - 1, 2>>
    BY DEF CleanExitKeepsAll
  <2>1. TypeOK /\ ProcessInv /\ QueueInv /\ StreamOK(l)
    BY DEF IndInv, StreamInv
  <2>2. opened = {} /\ queue = <<>>
    BY <2>1, QueueEmptyWhenOff DEF ProcessInv
  <2>3. buffer[l] = <<>>
    BY <2>1, <2>2 DEF StreamOK
  <2>4. stored[l] \in Seq(Piece) /\ handed[l] \in Nat /\ written[l] \in Nat
    BY <2>1 DEF TypeOK
  <2>5. Stream(l) = stored[l]
    BY <2>3, <2>4, ConcatEmptySeq DEF Stream
  <2>6. written[l] = handed[l]
    <3>1. Len(queue) = 0
      BY <2>2, EmptySeq
    <3>2. \A m \in written[l] .. handed[l] - 1 : FALSE
      BY <2>1, <3>1 DEF QueueInv
    <3>3. written[l] <= handed[l]
      BY <2>1 DEF QueueInv
    <3>4. QED
      BY <2>4, <3>2, <3>3
  <2>7. EndsAt(stored[l], handed[l]) /\ handed[l] # 0
    BY <2>1, <2>4, <2>5, <2>6 DEF StreamOK
  <2>8. QED
    BY <2>7 DEF EndsAt
<1>2. QED
  BY <1>1, Invariance, PTL

\* No log has more than maxLogFileCount + 1 files or one above maxLogFileSize
\* (UniverseMonitor.h:139), for any sizes of files, buffer and queue, also when
\* restarts append to what a crash left.
THEOREM LogFilesBounded == Spec => []FilesBounded
<1>1. IndInv => FilesBounded
  <2> SUFFICES ASSUME IndInv, NEW l \in Logs
               PROVE  /\ Len(files[l]) <= MaxFiles + 1
                      /\ \A i \in 1 .. Len(files[l]) :
                           LET end == IF i = Len(files[l]) THEN Len(stored[l])
                                                           ELSE files[l][i + 1]
                           IN  /\ files[l][i] <= end
                               /\ end - files[l][i] <= FileSize
    BY DEF FilesBounded
  <2> DEFINE f == files[l]
             last == f[Len(f)]
             c == Len(stored[l])
             d == Len(buffer[l])
  <2>1. TypeOK /\ FilesOK(l)
    BY DEF IndInv, FilesInv
  <2>2. /\ f \in Seq(Nat) /\ Len(f) \in Nat /\ c \in Nat /\ d \in Nat
        /\ f # <<>> => last \in Nat
        /\ f = <<>> => Len(f) = 0
    BY <2>1, SizeFacts
  <2>3. Len(f) <= MaxFiles + 1
    BY <2>1 DEF FilesOK
  <2>4. ASSUME NEW i \in 1 .. Len(f), i = Len(f)
        PROVE  f[i] <= c /\ c - f[i] <= FileSize
    <3>1. f # <<>>
      BY <2>2
    <3>2. last <= c /\ Size(l) <= FileSize /\ last \in Nat
      BY <2>1, <2>2, <3>1 DEF FilesOK
    <3>3. Size(l) = c + d - last
      BY DEF Size
    <3> HIDE DEF c, d, last
    <3>4. c - last <= FileSize
      BY <2>2, <3>2, <3>3, SizeAssumption
    <3>5. QED
      BY <2>4, <3>2, <3>4 DEF last
  <2>5. ASSUME NEW i \in 1 .. Len(f), i # Len(f)
        PROVE  f[i] <= f[i + 1] /\ f[i + 1] - f[i] <= FileSize
    <3>1. i \in 1 .. Len(f) - 1
      BY <2>2, <2>5
    <3>2. QED
      BY <2>1, <3>1 DEF FilesOK, Follows
  <2>6. QED
    BY <2>3, <2>4, <2>5
<1>2. QED
  BY <1>1, Invariance, PTL

-----------------------------------------------------------------------------
(***************************************************************************)
(* The log pipeline keeps the promise of DurableLog, for any universes,    *)
(* sizes of queue, buffer and files, and numbers of rows and runs.         *)
(***************************************************************************)

\* The receive thread waits with a row only where a row may still come, and
\* after both header lines.
HandedInv ==
    /\ \A l \in Logs : handed[l] <= MaxRows[l]
    /\ rx # NoLog => handed[rx] \in 1 .. MaxRows[rx] - 1
    /\ \A u \in Universes :
          handed[<<u, "data">>] > 0 => handed[<<u, "sources">>] > 0
    /\ phase # "off" => run > 0
    /\ run > 0 \/ \A l \in Logs : handed[l] = 0

-----------------------------------------------------------------------------
(***************************************************************************)
(* Rows as pieces.                                                         *)
(***************************************************************************)

\* What comes off the front of a sequence.
LEMMA FrontFacts ==
    ASSUME NEW x \in Seq(Piece), NEW y \in Seq(Piece)
    PROVE  /\ Len(x) \in 0 .. Len(x \o y)
           /\ SubSeq(x \o y, 1, Len(x)) = x
           /\ SubSeq(x \o y, Len(x) + 1, Len(x \o y)) = y
<1> DEFINE s == x \o y
<1>1. /\ s \in Seq(Piece) /\ Len(s) = Len(x) + Len(y)
      /\ \A i \in 1 .. Len(x) : s[i] = x[i]
      /\ \A i \in 1 .. Len(y) : s[Len(x) + i] = y[i]
      /\ Len(x) \in Nat /\ Len(y) \in Nat
  BY ConcatProperties, LenProperties
<1>2. \A i \in 1 .. Len(s) : s[i] \in Piece
  BY <1>1, ElementOfSeq
<1> HIDE DEF s
<1>3. Len(x) \in 0 .. Len(s)
  BY <1>1
<1>4. SubSeq(s, 1, Len(x)) = x
  <2>1. \A i \in 1 .. Len(x) : s[i] \in Piece
    BY <1>1, <1>2
  <2>2. /\ SubSeq(s, 1, Len(x)) \in Seq(Piece)
        /\ Len(SubSeq(s, 1, Len(x))) = Len(x)
        /\ \A i \in 1 .. Len(x) : SubSeq(s, 1, Len(x))[i] = s[i]
    BY <1>1, <2>1, SubSeqProperties
  <2>3. QED
    BY <1>1, <2>2, SeqEqual
<1>5. SubSeq(s, Len(x) + 1, Len(s)) = y
  <2> DEFINE r == SubSeq(s, Len(x) + 1, Len(s))
  <2>1. /\ Len(x) + 1 \in Int /\ Len(s) \in Int
        /\ \A i \in Len(x) + 1 .. Len(s) : s[i] \in Piece
    BY <1>1, <1>2
  <2>2. /\ r \in Seq(Piece)
        /\ Len(r) = IF Len(x) + 1 <= Len(s) THEN Len(s) - (Len(x) + 1) + 1
                    ELSE 0
        /\ \A i \in 1 .. Len(s) - (Len(x) + 1) + 1 :
              r[i] = s[Len(x) + 1 + i - 1]
    BY <2>1, SubSeqProperties
  <2> HIDE DEF r
  <2>3. Len(r) = Len(y)
    BY <1>1, <2>2
  <2>4. \A i \in 1 .. Len(r) : r[i] = y[i]
    <3> SUFFICES ASSUME NEW i \in 1 .. Len(r) PROVE r[i] = y[i]
      OBVIOUS
    <3>1. /\ i \in 1 .. Len(s) - (Len(x) + 1) + 1 /\ i \in 1 .. Len(y)
          /\ Len(x) + 1 + i - 1 = Len(x) + i
      BY <1>1, <2>3
    <3>2. QED
      BY <1>1, <2>2, <3>1
  <2>5. QED
    BY <2>2, <2>3, <2>4, SeqEqual DEF r
<1>6. QED
  BY <1>3, <1>4, <1>5 DEF s

\* Sequence s, cut in two.
Cut(s, a, b) == a \in Seq(Piece) /\ b \in Seq(Piece) /\ s = a \o b

LEMMA JoinIsCut ==
    ASSUME NEW a \in Seq(Piece), NEW b \in Seq(Piece)
    PROVE  Cut(a \o b, a, b) /\ a \o b \in Seq(Piece)
  BY ConcatProperties DEF Cut

LEMMA CutLater ==
    ASSUME NEW s, NEW t, NEW u, NEW a, NEW b, NEW c,
           Cut(s, t, c), Cut(t, a, b), Cut(u, b, c)
    PROVE  Cut(s, a, u)
<1>1. a \in Seq(Piece) /\ b \in Seq(Piece) /\ c \in Seq(Piece)
  BY DEF Cut
<1>2. u \in Seq(Piece) /\ s = (a \o b) \o c /\ u = b \o c
  BY ConcatProperties DEF Cut
<1>3. (a \o b) \o c = a \o (b \o c)
  BY <1>1, ConcatAssociative
<1>4. QED
  BY <1>1, <1>2, <1>3, Zenon DEF Cut

LEMMA CutEarlier ==
    ASSUME NEW s, NEW t, NEW u, NEW a, NEW b, NEW c,
           Cut(s, a, u), Cut(t, a, b), Cut(u, b, c)
    PROVE  Cut(s, t, c)
<1>1. a \in Seq(Piece) /\ b \in Seq(Piece) /\ c \in Seq(Piece)
  BY DEF Cut
<1>2. t \in Seq(Piece) /\ s = a \o (b \o c) /\ t = a \o b
  BY ConcatProperties DEF Cut
<1>3. (a \o b) \o c = a \o (b \o c)
  BY <1>1, ConcatAssociative
<1>4. QED
  BY <1>1, <1>2, <1>3, Zenon DEF Cut

\* Of two cuts of a sequence the later one cuts what the earlier one leaves.
LEMMA CutTwice ==
    ASSUME NEW s, NEW a, NEW b, NEW c, NEW d,
           Cut(s, a, b), Cut(s, c, d), Len(a) >= Len(c)
    PROVE  \E x : Cut(a, c, x) /\ Cut(d, x, b)
<1> DEFINE first == SubSeq(a, 1, Len(c))
           x == SubSeq(a, Len(c) + 1, Len(a))
<1>1. /\ a \in Seq(Piece) /\ b \in Seq(Piece)
      /\ c \in Seq(Piece) /\ d \in Seq(Piece)
      /\ a \o b = c \o d
  BY DEF Cut
<1>2. /\ Len(a) \in Nat /\ Len(c) \in Nat
      /\ \A i \in 1 .. Len(a) : a[i] \in Piece
      /\ Len(c) \in 1 - 1 .. Len(a) /\ 1 \in 1 .. Len(a) + 1
      /\ Len(a) \in Len(c) .. Len(a)
      /\ \A i \in 1 .. Len(c) : i \in 1 .. Len(a)
  BY <1>1, LenProperties, ElementOfSeq
<1>3. first \o x = a
  <2>1. first \o x = SubSeq(a, 1, Len(a))
    BY <1>1, <1>2, ConcatAdjacentSubSeq
  <2>2. QED
    BY <1>1, <2>1, SubSeqFull
<1>4. /\ first \in Seq(Piece) /\ Len(first) = Len(c)
      /\ \A i \in 1 .. Len(c) : first[i] = a[i]
  <2>1. \A i \in 1 .. Len(c) : a[i] \in Piece
    BY <1>2
  <2>2. QED
    BY <1>2, <2>1, SubSeqProperties
<1>5. x \in Seq(Piece)
  <2>1. \A i \in Len(c) + 1 .. Len(a) : a[i] \in Piece
    BY <1>2
  <2>2. Len(c) + 1 \in Int /\ Len(a) \in Int
    BY <1>2
  <2>3. QED
    BY <2>1, <2>2, SubSeqProperties
<1> HIDE DEF first, x
<1>6. first = c
  <2>1. ASSUME NEW i \in 1 .. Len(c) PROVE a[i] = c[i]
    <3>1. (a \o b)[i] = a[i]
      BY <1>1, <1>2, ConcatProperties, LenProperties
    <3>2. (c \o d)[i] = c[i]
      BY <1>1, <1>2, ConcatProperties, LenProperties
    <3>3. QED
      BY <1>1, <3>1, <3>2
  <2>2. QED
    BY <1>1, <1>4, <2>1, SeqEqual
<1>7. Cut(a, c, x)
  BY <1>1, <1>3, <1>5, <1>6 DEF Cut
<1>8. Cut(s, c, x \o b)
  <2>1. Cut(x \o b, x, b)
    BY <1>1, <1>5, JoinIsCut
  <2>2. QED
    BY <1>7, <2>1, CutLater, Zenon
<1>9. d = x \o b
  BY <1>8, ConcatSimplifications DEF Cut
<1>10. QED
  BY <1>1, <1>5, <1>7, <1>9 DEF Cut

Row(r, n) == << <<r, n, 1>>, <<r, n, 2>> >>

LEMMA RowFacts ==
    ASSUME NEW r \in Nat, NEW n \in Nat
    PROVE  /\ Row(r, n) \in Seq(Piece) /\ Len(Row(r, n)) = 2
           /\ Row(r, n)[1] = <<r, n, 1>> /\ Row(r, n)[2] = <<r, n, 2>>
  BY DEF Row, Piece

LEMMA BetweenFacts ==
    ASSUME NEW r \in Nat, NEW a \in Nat, NEW b \in Nat, a <= b
    PROVE  /\ RowsBetween(r, a, b) \in Seq(Piece)
           /\ Len(RowsBetween(r, a, b)) = 2 * (b - a)
           /\ \A i \in 1 .. 2 * (b - a) :
                 RowsBetween(r, a, b)[i] =
                    <<r, a + ((i - 1) \div 2), 1 + ((i - 1) % 2)>>
<1> DEFINE n == 2 * (b - a)
<1>1. n \in Nat
  OBVIOUS
<1>2. \A i \in 1 .. n :
         <<r, a + ((i - 1) \div 2), 1 + ((i - 1) % 2)>> \in Piece
  <2> SUFFICES ASSUME NEW i \in 1 .. n
               PROVE  <<r, a + ((i - 1) \div 2), 1 + ((i - 1) % 2)>> \in Piece
    OBVIOUS
  <2>1. (i - 1) \div 2 \in Nat /\ (i - 1) % 2 \in {0, 1}
    BY <1>1
  <2>2. QED
    BY <2>1 DEF Piece
<1> HIDE DEF n
<1>3. RowsBetween(r, a, b) =
         [i \in 1 .. n |-> <<r, a + ((i - 1) \div 2), 1 + ((i - 1) % 2)>>]
  BY DEF RowsBetween, n
<1>4. RowsBetween(r, a, b) \in [1 .. n -> Piece]
  BY <1>2, <1>3
<1>5. RowsBetween(r, a, b) \in Seq(Piece)
  BY <1>1, <1>4, SeqDef
<1>6. DOMAIN RowsBetween(r, a, b) = 1 .. n /\ Len(RowsBetween(r, a, b)) = n
  BY <1>1, <1>4, <1>5, LenProperties
<1>7. QED
  BY <1>3, <1>5, <1>6 DEF n

\* The first row that is on its way, and the rest.
LEMMA BetweenFirst ==
    ASSUME NEW r \in Nat, NEW a \in Nat, NEW b \in Nat, a < b
    PROVE  RowsBetween(r, a, b) = Row(r, a) \o RowsBetween(r, a + 1, b)
<1> DEFINE s == RowsBetween(r, a, b)
           t == RowsBetween(r, a + 1, b)
           u == Row(r, a) \o t
<1>1. /\ s \in Seq(Piece) /\ Len(s) = 2 * (b - a)
      /\ \A i \in 1 .. 2 * (b - a) :
            s[i] = <<r, a + ((i - 1) \div 2), 1 + ((i - 1) % 2)>>
  <2>1. a <= b
    OBVIOUS
  <2>2. QED
    BY <2>1, BetweenFacts, Zenon
<1>2. /\ t \in Seq(Piece) /\ Len(t) = 2 * (b - (a + 1))
      /\ \A i \in 1 .. 2 * (b - (a + 1)) :
            t[i] = <<r, a + 1 + ((i - 1) \div 2), 1 + ((i - 1) % 2)>>
  BY BetweenFacts, a + 1 \in Nat, a + 1 <= b
<1> HIDE DEF s, t
<1>3. /\ Row(r, a) \in Seq(Piece) /\ Len(Row(r, a)) = 2
      /\ Row(r, a)[1] = <<r, a, 1>> /\ Row(r, a)[2] = <<r, a, 2>>
  BY RowFacts
<1>4. /\ u \in Seq(Piece) /\ Len(u) = 2 + Len(t)
      /\ \A i \in 1 .. 2 + Len(t) :
            u[i] = IF i <= 2 THEN Row(r, a)[i] ELSE t[i - 2]
  <2>1. /\ u \in Seq(Piece) /\ Len(u) = Len(Row(r, a)) + Len(t)
        /\ \A i \in 1 .. Len(Row(r, a)) + Len(t) :
              u[i] = IF i <= Len(Row(r, a)) THEN Row(r, a)[i]
                     ELSE t[i - Len(Row(r, a))]
    BY <1>2, <1>3, ConcatProperties
  <2> HIDE DEF u
  <2>2. QED
    BY <1>3, <2>1
<1> HIDE DEF u
<1>5. Len(s) = Len(u)
  BY <1>1, <1>2, <1>4
<1>6. ASSUME NEW i \in 1 .. Len(s) PROVE s[i] = u[i]
  <2>1. i \in 1 .. 2 * (b - a) /\ i \in 1 .. 2 + Len(t)
    BY <1>1, <1>4, <1>5
  <2>2. CASE i = 1
    <3>1. (i - 1) \div 2 = 0 /\ (i - 1) % 2 = 0
      BY <2>2
    <3>2. u[i] = <<r, a, 1>>
      BY <1>2, <1>3, <1>4, <2>1, <2>2
    <3>3. s[i] = <<r, a + ((i - 1) \div 2), 1 + ((i - 1) % 2)>>
      BY <1>1, <2>1
    <3>4. a + ((i - 1) \div 2) = a /\ 1 + ((i - 1) % 2) = 1
      BY <3>1
    <3>5. QED
      BY <3>2, <3>3, <3>4
  <2>3. CASE i = 2
    <3>1. (i - 1) \div 2 = 0 /\ (i - 1) % 2 = 1
      BY <2>3
    <3>2. u[i] = <<r, a, 2>>
      BY <1>2, <1>3, <1>4, <2>1, <2>3
    <3>3. s[i] = <<r, a + ((i - 1) \div 2), 1 + ((i - 1) % 2)>>
      BY <1>1, <2>1
    <3>4. a + ((i - 1) \div 2) = a /\ 1 + ((i - 1) % 2) = 2
      BY <3>1
    <3>5. QED
      BY <3>2, <3>3, <3>4
  <2>4. CASE i > 2
    <3>1. i - 2 \in 1 .. 2 * (b - (a + 1))
      BY <2>1, <2>4
    <3>2. /\ (i - 1) \div 2 = 1 + ((i - 2 - 1) \div 2)
          /\ (i - 1) % 2 = (i - 2 - 1) % 2
      BY <2>1, <2>4
    <3>3. t[i - 2] =
             <<r, a + 1 + ((i - 2 - 1) \div 2), 1 + ((i - 2 - 1) % 2)>>
      BY <1>2, <3>1
    <3>4. a + ((i - 1) \div 2) = a + 1 + ((i - 2 - 1) \div 2)
      BY <2>1, <2>4, <3>2
    <3>5. u[i] = t[i - 2]
      BY <1>4, <2>1, <2>4
    <3>6. s[i] = <<r, a + ((i - 1) \div 2), 1 + ((i - 1) % 2)>>
      BY <1>1, <2>1
    <3>7. QED
      BY <3>2, <3>3, <3>4, <3>5, <3>6
  <2>5. QED
    BY <2>1, <2>2, <2>3, <2>4
<1>7. QED
  BY <1>1, <1>4, <1>5, <1>6, SeqEqual DEF s, t, u

\* A row that is handed in is the last on its way.
LEMMA BetweenLast ==
    ASSUME NEW r \in Nat, NEW a \in Nat, NEW b \in Nat, a <= b
    PROVE  RowsBetween(r, a, b + 1) = RowsBetween(r, a, b) \o Row(r, b)
<1>0. \A e \in Nat : a <= e =>
         /\ RowsBetween(r, a, e) \in Seq(Piece)
         /\ Len(RowsBetween(r, a, e)) = 2 * (e - a)
         /\ \A i \in 1 .. 2 * (e - a) :
               RowsBetween(r, a, e)[i] =
                  <<r, a + ((i - 1) \div 2), 1 + ((i - 1) % 2)>>
  BY BetweenFacts
<1> SUFFICES ASSUME NEW e \in Nat, e = b + 1
             PROVE  RowsBetween(r, a, e) = RowsBetween(r, a, b) \o Row(r, b)
  OBVIOUS
<1> DEFINE s == RowsBetween(r, a, e)
           t == RowsBetween(r, a, b)
           u == t \o Row(r, b)
           n == 2 * (b - a)
<1>1. /\ s \in Seq(Piece) /\ Len(s) = 2 * (e - a)
      /\ \A i \in 1 .. 2 * (e - a) :
            s[i] = <<r, a + ((i - 1) \div 2), 1 + ((i - 1) % 2)>>
  <2>1. a <= e
    OBVIOUS
  <2>2. QED
    BY <1>0, <2>1
<1>2. /\ t \in Seq(Piece) /\ Len(t) = n
      /\ \A i \in 1 .. n :
            t[i] = <<r, a + ((i - 1) \div 2), 1 + ((i - 1) % 2)>>
  BY BetweenFacts
<1> HIDE DEF s, t
<1>3. /\ Row(r, b) \in Seq(Piece) /\ Len(Row(r, b)) = 2
      /\ Row(r, b)[1] = <<r, b, 1>> /\ Row(r, b)[2] = <<r, b, 2>>
  BY RowFacts
<1>4. n \in Nat /\ 2 * (e - a) = n + 2
  OBVIOUS
<1> HIDE DEF n
<1>5. /\ u \in Seq(Piece) /\ Len(u) = n + 2
      /\ \A i \in 1 .. n + 2 :
            u[i] = IF i <= n THEN t[i] ELSE Row(r, b)[i - n]
  <2>1. /\ u \in Seq(Piece) /\ Len(u) = Len(t) + Len(Row(r, b))
        /\ \A i \in 1 .. Len(t) + Len(Row(r, b)) :
              u[i] = IF i <= Len(t) THEN t[i] ELSE Row(r, b)[i - Len(t)]
    BY <1>2, <1>3, ConcatProperties
  <2> HIDE DEF u
  <2>2. QED
    BY <1>2, <1>3, <2>1
<1> HIDE DEF u
<1>6. ASSUME NEW i \in 1 .. Len(s) PROVE s[i] = u[i]
  <2>1. i \in 1 .. n + 2
        /\ s[i] = <<r, a + ((i - 1) \div 2), 1 + ((i - 1) % 2)>>
    BY <1>1, <1>4
  <2>2. CASE i <= n
    <3>1. i \in 1 .. n /\ u[i] = t[i]
      BY <1>4, <1>5, <2>1, <2>2
    <3>2. t[i] = <<r, a + ((i - 1) \div 2), 1 + ((i - 1) % 2)>>
      BY <1>2, <3>1
    <3>3. QED
      BY <2>1, <3>1, <3>2
  <2>3. CASE i = n + 1
    <3>1. (i - 1) \div 2 = b - a /\ (i - 1) % 2 = 0
      BY <2>3 DEF n
    <3>2. u[i] = Row(r, b)[1]
      BY <1>4, <1>5, <2>1, <2>3
    <3>3. a + ((i - 1) \div 2) = b /\ 1 + ((i - 1) % 2) = 1
      BY <3>1
    <3>4. QED
      BY <1>3, <2>1, <3>2, <3>3
  <2>4. CASE i = n + 2
    <3>1. (i - 1) \div 2 = b - a /\ (i - 1) % 2 = 1
      BY <2>4 DEF n
    <3>2. u[i] = Row(r, b)[2]
      BY <1>4, <1>5, <2>1, <2>4
    <3>3. a + ((i - 1) \div 2) = b /\ 1 + ((i - 1) % 2) = 2
      BY <3>1
    <3>4. QED
      BY <1>3, <2>1, <3>2, <3>3
  <2>5. QED
    BY <1>4, <2>1, <2>2, <2>3, <2>4
<1>7. Len(s) = Len(u)
  BY <1>1, <1>4, <1>5
<1>8. QED
  BY <1>1, <1>5, <1>6, <1>7, SeqEqual DEF s, t, u

LEMMA BetweenNone ==
    ASSUME NEW r \in Nat, NEW a \in Nat
    PROVE  RowsBetween(r, a, a) = <<>>
<1>1. RowsBetween(r, a, a) \in Seq(Piece) /\ Len(RowsBetween(r, a, a)) = 0
  BY BetweenFacts
<1>2. QED
  BY <1>1, EmptySeq

-----------------------------------------------------------------------------
(***************************************************************************)
(* How many rows are handed in.                                            *)
(***************************************************************************)

LEMMA RowsNat == \A l \in Logs : MaxRows[l] \in Nat \ {0}
  BY SizeAssumption

\* A row handed in to log l, which may still take one.
LEMMA HandedStep ==
    ASSUME TypeOK, HandedInv, phase = "on", NEW l \in Logs,
           handed[l] < MaxRows[l], handed' = [handed EXCEPT ![l] = @ + 1],
           phase' = "on", run' = run,
           \A u \in Universes :
              l = <<u, "data">> => handed[<<u, "sources">>] > 0,
           rx' = NoLog \/ (rx' = rx /\ l # rx)
    PROVE  HandedInv'
<1>1. handed \in [Logs -> Nat] /\ rx \in Logs \cup {NoLog} /\ NoLog \notin Logs
  BY LogFacts DEF TypeOK
<1>2. /\ handed'[l] = handed[l] + 1
      /\ \A k \in Logs \ {l} : handed'[k] = handed[k]
  BY <1>1
<1>3. \A k \in Logs : handed[k] \in Nat /\ handed'[k] \in Nat
  BY <1>1, <1>2
<1>4. \A k \in Logs : handed'[k] <= MaxRows[k]
  BY <1>2, <1>3, RowsNat DEF HandedInv
<1>5. rx' # NoLog => handed'[rx'] \in 1 .. MaxRows[rx'] - 1
  BY <1>1, <1>2 DEF HandedInv
<1>6. ASSUME NEW u \in Universes, handed'[<<u, "data">>] > 0
      PROVE  handed'[<<u, "sources">>] > 0
  <2>1. <<u, "data">> \in Logs /\ <<u, "sources">> \in Logs
    BY DEF Logs, CsvLogs
  <2>2. handed[<<u, "sources">>] > 0
    <3>1. CASE l = <<u, "data">>
      BY <3>1
    <3>2. CASE l # <<u, "data">>
      BY <1>2, <1>6, <2>1, <3>2 DEF HandedInv
    <3>3. QED
      BY <3>1, <3>2
  <2>3. handed'[<<u, "sources">>] \in {handed[<<u, "sources">>],
                                       handed[<<u, "sources">>] + 1}
    BY <1>2, <2>1
  <2>4. QED
    BY <1>3, <2>1, <2>2, <2>3
<1>7. run > 0 /\ run' > 0
  BY DEF HandedInv
<1>8. QED
  BY <1>4, <1>5, <1>6, <1>7 DEF HandedInv

LEMMA HandedNext ==
    ASSUME TypeOK, ProcessInv, HandedInv, [Next]_vars
    PROVE  HandedInv'
<1>1. ASSUME UNCHANGED <<handed, run>>, rx' \in {rx, NoLog},
             phase' = "off" \/ phase # "off"
      PROVE  HandedInv'
  BY <1>1 DEF HandedInv
<1>2. CASE Start
  <2>1. \A l \in Logs : handed'[l] = 0
    BY <1>2 DEF Start, Zero
  <2>2. run' > 0
    BY <1>2 DEF Start, TypeOK
  <2>3. rx' = NoLog
    BY <1>2 DEF Start, ProcessInv
  <2>4. \A l \in Logs : handed'[l] <= MaxRows[l]
    BY <2>1, RowsNat
  <2>5. \A u \in Universes : ~(handed'[<<u, "data">>] > 0)
    BY <2>1 DEF Logs, CsvLogs
  <2>6. QED
    BY <2>2, <2>3, <2>4, <2>5 DEF HandedInv
<1>3. ASSUME NEW priority \in Priorities, LogToApp(priority) PROVE HandedInv'
  <2>1. /\ AppLog \in Logs /\ AppLog \notin CsvLogs
        /\ AppLog # rx \/ rx = NoLog
        /\ \A u \in Universes : AppLog # <<u, "data">>
    BY LogFacts DEF TypeOK, CsvLogs
  <2>2. /\ phase = "on" /\ phase' = "on" /\ run' = run /\ rx' = rx
        /\ handed[AppLog] < MaxRows[AppLog]
        /\ handed' = [handed EXCEPT ![AppLog] = @ + 1]
    BY <1>3 DEF LogToApp, process
  <2>3. QED
    BY <2>1, <2>2, HandedStep
<1>4. ASSUME NEW l \in CsvLogs, LogHeader(l) PROVE HandedInv'
  <2>1. /\ l \in Logs /\ phase = "on" /\ phase' = "on" /\ run' = run
        /\ rx' = rx /\ handed[l] = 0
        /\ handed' = [handed EXCEPT ![l] = @ + 1]
        /\ l[2] = "data" => handed[<<l[1], "sources">>] > 0
    BY <1>4, LogFacts DEF LogHeader, process, Post
  <2>2. handed[l] < MaxRows[l]
    BY <2>1, RowsNat
  <2>3. rx = NoLog \/ l # rx
    BY <2>1 DEF HandedInv
  <2>4. \A u \in Universes : l = <<u, "data">> => handed[<<u, "sources">>] > 0
    BY <2>1
  <2>5. QED
    BY <2>1, <2>2, <2>3, <2>4, HandedStep
<1>5. ASSUME NEW u \in Universes, NEW kind \in {"sources", "data"},
             LogRow(u, kind)
      PROVE  HandedInv'
  <2>1. /\ UNCHANGED <<phase, run, handed>> /\ rx' = <<u, kind>>
        /\ handed[<<u, "data">>] > 0
        /\ handed[<<u, kind>>] < MaxRows[<<u, kind>>]
    BY <1>5 DEF LogRow
  <2>2. /\ <<u, kind>> \in Logs /\ handed[<<u, kind>>] \in Nat
        /\ MaxRows[<<u, kind>>] \in Nat
    BY RowsNat DEF TypeOK, Logs, CsvLogs
  <2>3. handed[<<u, kind>>] > 0
    BY <2>1 DEF HandedInv
  <2>4. handed'[rx'] \in 1 .. MaxRows[rx'] - 1
    BY <2>1, <2>2, <2>3
  <2>5. QED
    BY <2>1, <2>4 DEF HandedInv
<1>6. CASE RowPosted
  <2>1. /\ rx \in CsvLogs /\ rx \in Logs /\ rx' = NoLog
        /\ phase = "on" /\ phase' = "on" /\ run' = run
        /\ handed' = [handed EXCEPT ![rx] = @ + 1]
    BY <1>6, LogFacts DEF RowPosted, ProcessInv, TypeOK, Post
  <2>2. handed[rx] \in 1 .. MaxRows[rx] - 1 /\ rx # NoLog
    BY <1>6 DEF RowPosted, HandedInv
  <2>3. handed[rx] < MaxRows[rx]
    BY <2>1, <2>2, RowsNat
  <2>4. \A u \in Universes : rx = <<u, "data">> => handed[<<u, "sources">>] > 0
    BY <2>2 DEF HandedInv
  <2>5. QED
    BY <2>1, <2>3, <2>4, HandedStep
<1>7. ASSUME NEW u \in Universes, OpenLogs(u) PROVE HandedInv'
  BY <1>1, <1>7 DEF OpenLogs
<1>8. CASE Write \/ Stop
  BY <1>1, <1>8 DEF Write, Stop, process
<1>9. ASSUME NEW l \in Logs, CloseLog(l) PROVE HandedInv'
  BY <1>1, <1>9 DEF CloseLog
<1>10. CASE Exit \/ Crash
  BY <1>1, <1>10 DEF Exit, Crash
<1>11. CASE Unplug \/ Plug
  BY <1>1, <1>11 DEF Unplug, Plug, process
<1>12. CASE UNCHANGED vars
  BY <1>1, <1>12 DEF vars, process
<1>13. CASE Done
  BY <1>12, <1>13 DEF Done
<1>14. QED
  BY <1>2, <1>3, <1>4, <1>5, <1>6, <1>7, <1>8, <1>9, <1>10, <1>11, <1>12,
     <1>13 DEF Next

LEMMA HandedInit == Init => HandedInv
<1> SUFFICES ASSUME Init PROVE HandedInv
  OBVIOUS
<1>1. \A l \in Logs : handed[l] = 0
  BY DEF Init, Zero
<1>2. \A u \in Universes : <<u, "data">> \in Logs
  BY DEF Logs, CsvLogs
<1>3. QED
  BY <1>1, <1>2, RowsNat DEF Init, HandedInv

-----------------------------------------------------------------------------
(***************************************************************************)
(* Each step, as DurableLog sees it.                                       *)
(***************************************************************************)

Carried == mounted /\ phase # "off"

LEMMA PendingFacts ==
    ASSUME TypeOK, QueueInv, NEW l \in Logs
    PROVE  /\ Pending[l] = IF Carried
                           THEN buffer[l]
                                \o RowsBetween(run, written[l], handed[l])
                           ELSE <<>>
           /\ buffer[l] \in Seq(Piece) /\ stored[l] \in Seq(Piece)
           /\ RowsBetween(run, written[l], handed[l]) \in Seq(Piece)
           /\ Pending[l] \in Seq(Piece)
           /\ written[l] \in Nat /\ handed[l] \in Nat /\ run \in Nat
           /\ written[l] <= handed[l]
<1>1. /\ buffer[l] \in Seq(Piece) /\ stored[l] \in Seq(Piece)
      /\ written[l] \in Nat /\ handed[l] \in Nat /\ run \in Nat
      /\ written[l] <= handed[l]
  BY SizeAssumption DEF TypeOK, QueueInv
<1>2. RowsBetween(run, written[l], handed[l]) \in Seq(Piece)
  BY <1>1, BetweenFacts
<1>3. Pending[l] = IF Carried
                   THEN buffer[l] \o RowsBetween(run, written[l], handed[l])
                   ELSE <<>>
  BY DEF Pending, Carried
<1>4. Pending[l] \in Seq(Piece)
  BY <1>1, <1>2, <1>3, ConcatProperties, EmptySeq
<1>5. QED
  BY <1>1, <1>2, <1>3, <1>4

LEMMA RowAccepted ==
    ASSUME TypeOK, HandedInv, phase # "off", NEW l \in Logs,
           handed[l] < MaxRows[l]
    PROVE  Row(run, handed[l]) \in AllRows
<1>1. run \in 1 .. MaxRuns
  BY SizeAssumption DEF TypeOK, HandedInv
<1>2. handed[l] \in Nat /\ MaxRows[l] \in Nat
  BY RowsNat DEF TypeOK
<1>3. handed[l] \in UNION {0 .. MaxRows[k] - 1 : k \in Logs}
  BY <1>2
<1>4. QED
  BY <1>1, <1>3 DEF Row, AllRows

\* The pieces x arrive, after a row comes in or without one, and y stay on
\* their way.
LEMMA Arrives ==
    ASSUME NEW l \in Logs, NEW new \in AllRows \cup {<<>>}, NEW x, NEW y,
           Cut(Pending[l] \o new, x, y),
           Cut(stored'[l], stored[l], x), Pending'[l] = y
    PROVE  Durable!Advance(l)
<1> DEFINE all == Pending[l] \o new
<1>1. /\ Len(x) \in 0 .. Len(all)
      /\ SubSeq(all, 1, Len(x)) = x
      /\ SubSeq(all, Len(x) + 1, Len(all)) = y
  BY FrontFacts DEF Cut
<1>2. stored'[l] = stored[l] \o x
  BY DEF Cut
<1>3. \E k \in 0 .. Len(all) :
         /\ stored'[l] = stored[l] \o SubSeq(all, 1, k)
         /\ Pending'[l] = SubSeq(all, k + 1, Len(all))
  BY <1>1, <1>2
<1>4. QED
  BY <1>3 DEF Durable!Advance

LEMMA NothingArrives ==
    ASSUME NEW l \in Logs, NEW new \in AllRows \cup {<<>>},
           stored[l] \in Seq(Piece), Pending[l] \o new \in Seq(Piece),
           stored'[l] = stored[l], Pending'[l] = Pending[l] \o new
    PROVE  Durable!Advance(l)
<1>1. Cut(Pending[l] \o new, <<>>, Pending[l] \o new)
  BY EmptySeq, ConcatEmptySeq DEF Cut
<1>2. Cut(stored'[l], stored[l], <<>>)
  BY EmptySeq, ConcatEmptySeq DEF Cut
<1>3. QED
  BY <1>1, <1>2, Arrives

LEMMA LogRests ==
    ASSUME TypeOK, QueueInv, NEW l \in Logs,
           stored'[l] = stored[l], Pending'[l] = Pending[l]
    PROVE  Durable!Advance(l)
<1>1. stored[l] \in Seq(Piece) /\ Pending[l] \in Seq(Piece)
  BY PendingFacts
<1>2. Pending[l] \o <<>> = Pending[l]
  BY <1>1, ConcatEmptySeq
<1>3. <<>> \in AllRows \cup {<<>>}
  OBVIOUS
<1>4. QED
  BY <1>1, <1>2, <1>3, NothingArrives

\* Without the drive, or the process, all that was on its way is lost.
LEMMA AllLost ==
    ASSUME stored' = stored, ~Carried'
    PROVE  Durable!Next
<1>1. \A l \in Logs : Pending'[l] = <<>>
  BY DEF Pending, Carried
<1>2. QED
  BY <1>1 DEF Durable!Next, Durable!Lose

LEMMA AllRest ==
    ASSUME TypeOK, QueueInv,
           UNCHANGED <<stored, buffer, run, written, handed>>,
           Carried' = Carried
    PROVE  Durable!Next
<1>1. \A l \in Logs : Pending'[l] = Pending[l]
  BY DEF Pending, Carried
<1>2. QED
  BY <1>1, LogRests DEF Durable!Next

LEMMA NextPending ==
    ASSUME NEW l \in Logs, Carried'
    PROVE  Pending'[l] = buffer'[l]
                         \o RowsBetween(run', written'[l], handed'[l])
  BY DEF Pending, Carried

LEMMA WriteMoves ==
    ASSUME TypeOK, mounted, NEW l \in Logs, NEW n \in Nat, WriteRow(l, n)
    PROVE  \E x : /\ Cut(stored'[l], stored[l], x)
                  /\ Cut(buffer[l] \o Row(run, n), x, buffer'[l])
<1>1. run \in Nat /\ stored[l] \in Seq(Piece) /\ buffer[l] \in Seq(Piece)
  BY SizeAssumption DEF TypeOK
<1>2. Row(run, n) \in Seq(Piece) /\ Pieces(n) = Row(run, n)
  BY <1>1, RowFacts DEF Row, Pieces
<1>3. /\ stored'[l] \in Seq(Piece) /\ buffer'[l] \in Seq(Piece)
      /\ stored'[l] \o buffer'[l] = (stored[l] \o buffer[l]) \o Pieces(n)
      /\ Len(stored'[l]) >= Len(stored[l])
  BY WriteRowEffect DEF Stream
<1> DEFINE before == stored[l] \o buffer[l]
           after == stored'[l] \o buffer'[l]
           held == buffer[l] \o Row(run, n)
<1>4. Cut(before, stored[l], buffer[l]) /\ before \in Seq(Piece)
  BY <1>1, JoinIsCut
<1>5. Cut(after, stored'[l], buffer'[l])
  BY <1>3, JoinIsCut
<1>6. Cut(held, buffer[l], Row(run, n))
  BY <1>1, <1>2, JoinIsCut
<1>7. Cut(after, before, Row(run, n))
  <2>1. after = before \o Row(run, n)
    BY <1>2, <1>3
  <2> HIDE DEF before, after
  <2>2. QED
    BY <1>2, <1>4, <2>1, JoinIsCut
<1> HIDE DEF before, after, held
<1>8. Cut(after, stored[l], held)
  BY <1>4, <1>6, <1>7, CutLater, Zenon
<1>9. \E x : Cut(stored'[l], stored[l], x) /\ Cut(held, x, buffer'[l])
  BY <1>3, <1>5, <1>8, CutTwice, Zenon
<1>10. QED
  BY <1>9 DEF held

\* The sink is given the next row of a log: what reaches the disk was the
\* first on its way there.
LEMMA WriteArrives ==
    ASSUME TypeOK, QueueInv, Carried, Carried', NEW l \in Logs,
           WriteRow(l, written[l]), run' = run,
           NEW rest \in Seq(Piece), NEW new \in AllRows \cup {<<>>},
           new \in Seq(Piece),
           RowsBetween(run, written[l], handed[l]) \o new
              = Row(run, written[l]) \o rest,
           RowsBetween(run, written'[l], handed'[l]) = rest
    PROVE  Durable!Advance(l)
<1> DEFINE row == Row(run, written[l])
           between == RowsBetween(run, written[l], handed[l])
           b == buffer[l]
           b2 == buffer'[l]
           p == Pending[l]
           all == p \o new
           coming == between \o new
           held == b \o row
<1>1. p = b \o between
  BY PendingFacts
<1>2. b \in Seq(Piece) /\ between \in Seq(Piece) /\ p \in Seq(Piece)
  BY PendingFacts
<1>3. written[l] \in Nat /\ run \in Nat /\ mounted
  BY PendingFacts DEF Carried
<1>4. row \in Seq(Piece)
  BY <1>3, RowFacts
<1>5. b2 \in Seq(Piece)
  BY <1>3, WriteRowEffect
<1>6. Pending'[l] = b2 \o rest
  BY NextPending
<1>7. coming = row \o rest
  OBVIOUS
<1>8. PICK x : Cut(stored'[l], stored[l], x) /\ Cut(held, x, b2)
  BY <1>3, WriteMoves
<1> HIDE DEF b, b2, row, between, p
<1>9. Cut(p, b, between)
  BY <1>1, <1>2, JoinIsCut
<1>10. Cut(all, p, new) /\ Cut(coming, between, new)
  BY <1>2, JoinIsCut
<1>11. Cut(coming, row, rest)
  BY <1>4, <1>7, JoinIsCut
<1>12. Cut(held, b, row)
  BY <1>2, <1>4, JoinIsCut
<1>13. Cut(b2 \o rest, b2, rest)
  BY <1>5, JoinIsCut
<1> HIDE DEF all, coming, held
<1>14. Cut(all, b, coming)
  BY <1>9, <1>10, CutLater, Zenon
<1>15. Cut(all, held, rest)
  BY <1>11, <1>12, <1>14, CutEarlier
<1>16. Cut(all, x, b2 \o rest)
  BY <1>8, <1>13, <1>15, CutLater, Zenon
<1>17. QED
  BY <1>6, <1>8, <1>16, Arrives DEF all, p

\* A row is handed in at the end of what is on its way.
LEMMA PostArrives ==
    ASSUME TypeOK, QueueInv, HandedInv, NEW l \in CsvLogs, Post(l),
           handed[l] < MaxRows[l], phase = "on",
           UNCHANGED <<phase, run, written, disk, environment>>
    PROVE  Durable!Next
<1>1. /\ UNCHANGED <<stored, buffer, mounted>> /\ l \in Logs
      /\ Carried' = Carried
  BY LogFacts DEF disk, environment, Carried
<1>2. /\ handed'[l] = handed[l] + 1
      /\ \A k \in Logs \ {l} : handed'[k] = handed[k]
  BY <1>1 DEF Post, TypeOK
<1>3. CASE ~Carried
  BY <1>1, <1>3, AllLost
<1>4. CASE Carried
  <2>1. ASSUME NEW k \in Logs \ {l} PROVE Durable!Advance(k)
    <3>1. stored'[k] = stored[k] /\ Pending'[k] = Pending[k]
      BY <1>1, <1>2, <1>4, <2>1, NextPending, PendingFacts
    <3>2. QED
      BY <2>1, <3>1, LogRests
  <2>2. Durable!Advance(l)
    <3> DEFINE w == written[l]
               h == handed[l]
    <3>1. /\ Pending[l] = buffer[l] \o RowsBetween(run, w, h)
          /\ buffer[l] \in Seq(Piece) /\ stored[l] \in Seq(Piece)
          /\ RowsBetween(run, w, h) \in Seq(Piece)
          /\ w \in Nat /\ h \in Nat /\ run \in Nat /\ w <= h
      BY <1>1, <1>4, PendingFacts
    <3>2. Row(run, h) \in AllRows /\ Row(run, h) \in Seq(Piece)
      BY <1>1, <3>1, RowAccepted, RowFacts
    <3>3. Pending'[l] = buffer[l] \o RowsBetween(run, w, h + 1)
      BY <1>1, <1>2, <1>4, NextPending
    <3> HIDE DEF w, h
    <3>4. RowsBetween(run, w, h + 1) = RowsBetween(run, w, h) \o Row(run, h)
      BY <3>1, BetweenLast
    <3>5. Pending'[l] = Pending[l] \o Row(run, h)
      <4> DEFINE b == buffer[l]
                 row == Row(run, h)
                 between == RowsBetween(run, w, h)
      <4>1. b \in Seq(Piece) /\ row \in Seq(Piece) /\ between \in Seq(Piece)
        BY <3>1, <3>2
      <4> HIDE DEF b, row, between
      <4>2. (b \o between) \o row = b \o (between \o row)
        BY <4>1, ConcatAssociative
      <4>3. QED
        BY <3>1, <3>3, <3>4, <4>2 DEF b, row, between
    <3>6. Pending[l] \o Row(run, h) \in Seq(Piece)
      BY <3>1, <3>2, ConcatProperties
    <3>7. QED
      BY <1>1, <3>1, <3>2, <3>5, <3>6, NothingArrives
  <2>3. QED
    BY <2>1, <2>2 DEF Durable!Next
<1>5. QED
  BY <1>3, <1>4

\* The sink takes row written[l]; for app.log it is handed in only now.
LEMMA RowsWritten ==
    ASSUME TypeOK, QueueInv, NEW l \in Logs, WriteRow(l, written[l]),
           NEW new \in AllRows \cup {<<>>}, new \in Seq(Piece),
           RowsBetween(run, written[l], handed[l]) \o new
              = Row(run, written[l])
                \o RowsBetween(run, written[l] + 1, handed'[l]),
           handed'[l] \in Nat, written[l] + 1 <= handed'[l],
           \A k \in Logs \ {l} : handed'[k] = handed[k],
           UNCHANGED <<run, mounted>>, phase' = phase, phase # "off"
    PROVE  Durable!Next
<1>1. CASE ~mounted
  BY <1>1, AllLost DEF WriteRow, disk, Carried
<1>2. CASE mounted
  <2>1. Carried /\ Carried'
    BY <1>2 DEF Carried
  <2>2. /\ written'[l] = written[l] + 1
        /\ \A k \in Logs \ {l} : written'[k] = written[k]
    BY DEF WriteRow, TypeOK
  <2>3. /\ written[l] \in Nat /\ run \in Nat
    BY PendingFacts
  <2>4. Durable!Advance(l)
    <3> DEFINE rest == RowsBetween(run, written[l] + 1, handed'[l])
    <3>1. rest \in Seq(Piece)
      <4> DEFINE first == written[l] + 1
      <4>1. first \in Nat /\ first <= handed'[l] /\ run \in Nat
        BY <2>3
      <4> HIDE DEF first
      <4>2. RowsBetween(run, first, handed'[l]) \in Seq(Piece)
        BY <4>1, BetweenFacts
      <4>3. QED
        BY <4>2 DEF first
    <3>2. RowsBetween(run, written'[l], handed'[l]) = rest
      BY <2>2
    <3> HIDE DEF rest
    <3>3. QED
      BY <2>1, <3>1, <3>2, WriteArrives DEF rest
  <2>5. ASSUME NEW k \in Logs \ {l} PROVE Durable!Advance(k)
    <3>1. stored'[k] = stored[k] /\ buffer'[k] = buffer[k]
      BY <1>2, <2>3, WriteRowEffect
    <3>2. Pending'[k] = Pending[k]
      BY <2>1, <2>2, <3>1, NextPending, PendingFacts
    <3>3. QED
      BY <3>1, <3>2, LogRests
  <2>6. QED
    BY <2>4, <2>5 DEF Durable!Next
<1>3. QED
  BY <1>1, <1>2

\* Each step of the pipeline is a step of every log, or none.
LEMMA DurableStep ==
    ASSUME IndInv, IndInv', HandedInv, [Next]_vars
    PROVE  Durable!Next
<1>1. TypeOK /\ ProcessInv /\ QueueInv /\ StreamInv /\ QueueInv'
  BY DEF IndInv
<1>2. ASSUME UNCHANGED <<stored, buffer, run, written, handed, mounted>>,
             (phase' = "off") = (phase = "off")
      PROVE  Durable!Next
  BY <1>1, <1>2, AllRest DEF Carried
<1>3. CASE Start
  <2>1. \A l \in Logs : Pending'[l] = Pending[l]
    <3> SUFFICES ASSUME NEW l \in Logs PROVE Pending'[l] = Pending[l]
      OBVIOUS
    <3>1. phase = "off" /\ buffer[l] = <<>> /\ buffer' = buffer
      BY <1>1, <1>3 DEF Start, ProcessInv, StreamInv, StreamOK
    <3>2. /\ Pending[l] = <<>> /\ run' \in Nat
          /\ RowsBetween(run', 0, 0) \in Seq(Piece)
          /\ RowsBetween(run', 0, 0) = <<>>
      BY <1>1, <1>3, <3>1, BetweenNone, EmptySeq DEF Start, Pending, TypeOK
    <3>3. written'[l] = 0 /\ handed'[l] = 0 /\ Carried'
      BY <1>3 DEF Start, Zero, Carried
    <3>4. Pending'[l] = buffer'[l] \o RowsBetween(run', 0, 0)
      BY <3>3, NextPending
    <3>5. QED
      BY <3>1, <3>2, <3>4, EmptySeq, ConcatEmptySeq
  <2>2. stored' = stored
    BY <1>3 DEF Start
  <2>3. QED
    BY <1>1, <2>1, <2>2, LogRests DEF Durable!Next
<1>4. ASSUME NEW priority \in Priorities, LogToApp(priority)
      PROVE  Durable!Next
  <2> DEFINE h == handed[AppLog]
  <2>1. /\ AppLog \in Logs /\ phase = "on" /\ h < MaxRows[AppLog]
        /\ handed' = [handed EXCEPT ![AppLog] = @ + 1]
        /\ WriteRow(AppLog, h)
        /\ UNCHANGED <<run, mounted>> /\ phase' = phase
    BY <1>4, LogFacts DEF LogToApp, process, environment
  <2>2. h = written[AppLog] /\ h \in Nat /\ run \in Nat
    BY <1>1, <2>1, PendingFacts DEF QueueInv
  <2>3. /\ handed'[AppLog] = h + 1
        /\ \A k \in Logs \ {AppLog} : handed'[k] = handed[k]
    BY <1>1, <2>1 DEF TypeOK
  <2>4. Row(run, h) \in AllRows /\ Row(run, h) \in Seq(Piece)
    BY <1>1, <2>1, <2>2, RowAccepted, RowFacts
  <2> HIDE DEF h
  <2>5. RowsBetween(run, h, h) \o Row(run, h)
           = Row(run, h) \o RowsBetween(run, h + 1, h + 1)
    <3>1. RowsBetween(run, h, h) = <<>>
      BY <2>2, BetweenNone
    <3>2. RowsBetween(run, h + 1, h + 1) = <<>>
      BY <2>2, BetweenNone, h + 1 \in Nat
    <3>3. QED
      BY <2>4, <3>1, <3>2, ConcatEmptySeq
  <2>6. /\ RowsBetween(run, written[AppLog], handed[AppLog]) \o Row(run, h)
              = Row(run, written[AppLog])
                \o RowsBetween(run, written[AppLog] + 1, handed'[AppLog])
        /\ WriteRow(AppLog, written[AppLog])
        /\ handed'[AppLog] \in Nat /\ written[AppLog] + 1 <= handed'[AppLog]
    BY <2>1, <2>2, <2>3, <2>5 DEF h
  <2>7. QED
    BY <1>1, <2>1, <2>3, <2>4, <2>6, RowsWritten
<1>5. ASSUME NEW u \in Universes, OpenLogs(u) PROVE Durable!Next
  BY <1>2, <1>5 DEF OpenLogs, environment
<1>6. ASSUME NEW l \in CsvLogs, LogHeader(l) PROVE Durable!Next
  <2>1. /\ Post(l) /\ phase = "on" /\ handed[l] = 0 /\ l \in Logs
        /\ UNCHANGED <<phase, run, written, disk, environment>>
    BY <1>6, LogFacts DEF LogHeader, process
  <2>2. handed[l] < MaxRows[l]
    BY <2>1, RowsNat
  <2>3. QED
    BY <1>1, <2>1, <2>2, PostArrives
<1>7. ASSUME NEW u \in Universes, NEW kind \in {"sources", "data"},
             LogRow(u, kind)
      PROVE  Durable!Next
  BY <1>2, <1>7 DEF LogRow, disk, environment
<1>8. CASE RowPosted
  <2>1. /\ Post(rx) /\ phase = "on" /\ rx \in CsvLogs /\ rx \in Logs
        /\ UNCHANGED <<phase, run, written, disk, environment>>
    BY <1>1, <1>8, LogFacts DEF RowPosted, ProcessInv, TypeOK
  <2>2. handed[rx] < MaxRows[rx]
    <3>1. handed[rx] \in 1 .. MaxRows[rx] - 1
      BY <1>8 DEF RowPosted, HandedInv
    <3>2. QED
      BY <2>1, <3>1, RowsNat
  <2>3. QED
    BY <1>1, <2>1, <2>2, PostArrives
<1>9. CASE Write
  <2> DEFINE l == Head(queue).log
             w == written[l]
  <2>1. /\ l \in Logs /\ phase # "off" /\ Head(queue).n = w
    BY <1>1, <1>9, HeadIsNext, LogFacts DEF Write
  <2>2. /\ WriteRow(l, w) /\ handed' = handed
        /\ UNCHANGED <<run, mounted>> /\ phase' = phase
    BY <1>9, <2>1 DEF Write, process, environment
  <2> HIDE DEF l
  <2>3. w \in Nat /\ handed[l] \in Nat /\ run \in Nat
    BY <1>1, <2>1, PendingFacts
  <2>4. w < handed[l]
    <3>1. written'[l] = w + 1
      BY <1>1, <2>1, <2>2 DEF WriteRow, TypeOK
    <3>2. written'[l] <= handed'[l]
      BY <1>1, <2>1 DEF QueueInv
    <3>3. QED
      BY <2>2, <2>3, <3>1, <3>2
  <2>5. RowsBetween(run, w, handed[l])
           = Row(run, w) \o RowsBetween(run, w + 1, handed[l])
    BY <2>3, <2>4, BetweenFirst
  <2>6. RowsBetween(run, w, handed[l]) \o <<>> = RowsBetween(run, w, handed[l])
    BY <1>1, <2>1, PendingFacts, ConcatEmptySeq
  <2>7. <<>> \in AllRows \cup {<<>>} /\ <<>> \in Seq(Piece)
    BY EmptySeq
  <2>8. w + 1 <= handed'[l] /\ handed'[l] \in Nat
    BY <2>2, <2>3, <2>4
  <2>9. RowsBetween(run, w, handed[l]) \o <<>>
           = Row(run, w) \o RowsBetween(run, w + 1, handed'[l])
    BY <2>2, <2>5, <2>6
  <2>10. QED
    BY <1>1, <2>1, <2>2, <2>7, <2>8, <2>9, RowsWritten
<1>10. CASE Stop
  BY <1>2, <1>10 DEF Stop, disk, environment
<1>11. ASSUME NEW l \in Logs, CloseLog(l) PROVE Durable!Next
  <2>1. /\ UNCHANGED <<phase, run, handed, written, mounted>>
        /\ phase = "closing" /\ Carried' = Carried
    BY <1>11 DEF CloseLog, environment, Carried
  <2>2. CASE ~mounted
    <3>1. stored' = stored
      BY <1>1, <1>11, <2>2 DEF CloseLog, TypeOK
    <3>2. QED
      BY <2>1, <2>2, <3>1, AllLost DEF Carried
  <2>3. CASE mounted
    <3>1. /\ stored'[l] = stored[l] \o buffer[l] /\ buffer'[l] = <<>>
          /\ \A k \in Logs \ {l} : /\ stored'[k] = stored[k]
                                  /\ buffer'[k] = buffer[k]
          /\ Carried /\ Carried'
      BY <1>1, <1>11, <2>1, <2>3 DEF CloseLog, TypeOK, Carried
    <3>2. ASSUME NEW k \in Logs \ {l} PROVE Durable!Advance(k)
      <4>1. Pending'[k] = Pending[k]
        BY <1>1, <2>1, <3>1, NextPending, PendingFacts
      <4>2. QED
        BY <1>1, <3>1, <4>1, LogRests
    <3>3. Durable!Advance(l)
      <4> DEFINE between == RowsBetween(run, written[l], handed[l])
      <4>1. /\ Pending[l] = buffer[l] \o between
            /\ buffer[l] \in Seq(Piece) /\ stored[l] \in Seq(Piece)
            /\ between \in Seq(Piece) /\ Pending[l] \in Seq(Piece)
        BY <1>1, <3>1, PendingFacts
      <4>2. Pending'[l] = <<>> \o between
        BY <2>1, <3>1, NextPending
      <4> HIDE DEF between
      <4>3. Pending'[l] = between /\ Pending[l] \o <<>> = Pending[l]
        BY <4>1, <4>2, ConcatEmptySeq
      <4>4. Cut(Pending[l] \o <<>>, buffer[l], between)
        BY <4>1, <4>3, JoinIsCut
      <4>5. Cut(stored'[l], stored[l], buffer[l])
        BY <3>1, <4>1, JoinIsCut
      <4>6. <<>> \in AllRows \cup {<<>>}
        OBVIOUS
      <4>7. QED
        BY <4>3, <4>4, <4>5, <4>6, Arrives
    <3>4. QED
      BY <3>2, <3>3 DEF Durable!Next
  <2>4. QED
    BY <2>2, <2>3
<1>12. CASE Exit
  BY <1>12, AllLost DEF Exit, disk, Carried
<1>13. CASE Crash \/ Unplug
  BY <1>13, AllLost DEF Crash, Unplug, disk, Carried
<1>14. CASE Plug
  <2>1. stored' = stored /\ phase' = "off"
    BY <1>14 DEF Plug, process, disk
  <2>2. QED
    BY <2>1, AllLost DEF Carried
<1>15. CASE UNCHANGED vars
  BY <1>2, <1>15 DEF vars, process, disk, environment
<1>16. CASE Done
  BY <1>15, <1>16 DEF Done
<1>17. QED
  BY <1>3, <1>4, <1>5, <1>6, <1>7, <1>8, <1>9, <1>10, <1>11, <1>12, <1>13,
     <1>14, <1>15, <1>16 DEF Next

\* Whatever is queued, buffered, rotated, cut off or pulled out: each log keeps
\* what it wrote, in order, and loses, if anything, the end of what its run was
\* handed.
THEOREM ImplementsDurable == Spec => ImplementsDurableLog
<1>1. Init => Durable!Init
  <2> SUFFICES ASSUME Init PROVE Durable!Init
    OBVIOUS
  <2>1. Pending = [l \in Logs |-> <<>>]
    BY DEF Init, Pending
  <2>2. QED
    BY <2>1 DEF Init, Empty, Durable!Init
<1>2. Spec => [](IndInv /\ HandedInv)
  <2>1. IndInv /\ HandedInv /\ [Next]_vars => (IndInv /\ HandedInv)'
    BY NextInv, HandedNext DEF IndInv
  <2>2. QED
    BY InitInv, HandedInit, <2>1, PTL DEF Spec
<1>3. IndInv /\ HandedInv /\ IndInv' /\ [Next]_vars
         => [Durable!Next]_<<stored, Pending>>
  BY DurableStep
<1>4. QED
  BY <1>1, <1>2, <1>3, PTL DEF Spec, ImplementsDurableLog, Durable!Spec
=============================================================================
