---------------------------- MODULE CsvRowProofs ----------------------------
(***************************************************************************)
(* A CSV reader gets back what was streamed, for texts of any length over  *)
(* any characters and files of any length.  Read is followed through a     *)
(* text by its trace, the sequence of states it goes through.              *)
(***************************************************************************)
EXTENDS CsvRow, Recursion, SequenceTheorems

Field == Seq(Char)

Reader == [rows : Seq(Seq(Field)), row : Seq(Field), field : Field,
           mode : {"plain", "quoted", "ending"}]

\* The reader goes through these states, from f[0].
IsTrace(f, chars) ==
    \A n \in 1 .. Len(chars) : f[n] = Read(f[n - 1], chars[n])

-----------------------------------------------------------------------------
(***************************************************************************)
(* The reader.                                                             *)
(***************************************************************************)

LEMMA Marks ==
    /\ Quote # Comma /\ Quote # Newline /\ Comma # Newline
    /\ "t" \notin {Quote, Comma, Newline}
    /\ \A c \in Plain : c \notin {Quote, Comma, Newline}
  BY CharactersAssumption DEF Quote, Comma, Newline

LEMMA ReadType ==
    ASSUME NEW r \in Reader, NEW c \in Char
    PROVE  Read(r, c) \in Reader
<1>1. /\ r.rows \in Seq(Seq(Field)) /\ r.row \in Seq(Field) /\ r.field \in Field
      /\ r.mode \in {"plain", "quoted", "ending"}
  BY DEF Reader
<1>2. Append(r.field, c) \in Field /\ <<>> \in Field
  BY <1>1 DEF Field
<1>3. Append(r.row, r.field) \in Seq(Field) /\ <<>> \in Seq(Field)
  BY <1>1
<1>4. Append(r.rows, Append(r.row, r.field)) \in Seq(Seq(Field))
  BY <1>1, <1>3
<1>5. EndField(r) \in Reader
  BY <1>1, <1>2, <1>3 DEF EndField, Reader
<1>6. EndRow(r) \in Reader
  BY <1>1, <1>2, <1>3, <1>4 DEF EndRow, EndField, Reader
<1>7. /\ [r EXCEPT !.mode = "quoted"] \in Reader
      /\ [r EXCEPT !.mode = "ending"] \in Reader
      /\ [r EXCEPT !.mode = "quoted", !.field = Append(r.field, c)] \in Reader
      /\ [r EXCEPT !.field = Append(r.field, c)] \in Reader
  BY <1>1, <1>2 DEF Reader
<1>8. QED
  BY <1>5, <1>6, <1>7 DEF Read

\* Whatever goes from r through the text by Read is what Run computes.
LEMMA RunIsTrace ==
    ASSUME NEW r, NEW chars, Len(chars) \in Nat,
           NEW f, f[0] = r, IsTrace(f, chars)
    PROVE  Run(r, chars) = f[Len(chars)]
<1> DEFINE N == Len(chars)
           Solves(g) == g = [n \in 0 .. N |->
                                IF n = 0 THEN r ELSE Read(g[n - 1], chars[n])]
           g == CHOOSE h : Solves(h)
           restricted == [n \in 0 .. N |-> f[n]]
<1>1. Solves(restricted)
  BY DEF IsTrace
<1>2. Solves(g)
  <2> HIDE DEF Solves, restricted
  <2>1. QED
    BY <1>1
<1>3. Run(r, chars) = g[N]
  BY DEF Run
<1> HIDE DEF g, N
<1>4. g[0] = r /\ \A n \in 1 .. N : g[n] = Read(g[n - 1], chars[n])
  BY <1>2, N \in Nat DEF N
<1> DEFINE T == {n \in 0 .. N : g[n] = f[n]}
<1>5. 0 \in T
  BY <1>4, N \in Nat DEF N
<1>6. ASSUME NEW n \in 0 .. N - 1, n \in T PROVE n + 1 \in T
  <2>1. n + 1 \in 1 .. N /\ n + 1 - 1 = n
    BY N \in Nat DEF N
  <2>2. g[n + 1] = Read(g[n], chars[n + 1])
    BY <1>4, <2>1
  <2>3. f[n + 1] = Read(f[n], chars[n + 1])
    BY <2>1 DEF IsTrace, N
  <2>4. QED
    BY <2>1, <2>2, <2>3, <1>6
<1>7. 0 .. N \subseteq T
  <2> HIDE DEF T
  <2>1. QED
    BY <1>5, <1>6, IntervalInduction, N \in Nat DEF N
<1>8. QED
  BY <1>3, <1>7 DEF N

\* Every text has its trace.
LEMMA RunHasTrace ==
    ASSUME NEW r \in Reader, NEW chars \in Seq(Char)
    PROVE  \E f \in [0 .. Len(chars) -> Reader] :
               f[0] = r /\ IsTrace(f, chars) /\ Run(r, chars) = f[Len(chars)]
<1> DEFINE N == Len(chars)
           step == [p \in Reader \X (1 .. N) |-> Read(p[1], chars[p[2]])]
<1>1. N \in Nat
  OBVIOUS
<1>2. \A q \in Reader, n \in 1 .. N : Read(q, chars[n]) \in Reader
  BY ReadType
<1>3. step \in [Reader \X (1 .. N) -> Reader]
  BY <1>2
<1>4. \A q \in Reader, n \in 1 .. N : step[<<q, n>>] = Read(q, chars[n])
  OBVIOUS
<1> HIDE DEF step
<1>5. PICK f : Follows(f, N, Reader, r, step)
  <2>1. IsStep(step, N, Reader)
    BY <1>3 DEF IsStep
  <2>2. QED
    BY <1>1, <2>1, IntervalRecursion
<1>6. /\ f \in [0 .. N -> Reader] /\ f[0] = r
      /\ \A n \in 1 .. N : f[n] = step[<<f[n - 1], n>>]
  BY <1>5 DEF Follows
<1>7. IsTrace(f, chars)
  <2>1. \A n \in 1 .. N : f[n - 1] \in Reader
    BY <1>1, <1>6
  <2>2. QED
    BY <1>4, <1>6, <2>1 DEF IsTrace
<1>8. Run(r, chars) = f[N]
  BY <1>1, <1>6, <1>7, RunIsTrace
<1>9. QED
  BY <1>6, <1>7, <1>8

LEMMA RunType ==
    ASSUME NEW r \in Reader, NEW chars \in Seq(Char)
    PROVE  Run(r, chars) \in Reader
<1>1. Len(chars) \in 0 .. Len(chars)
  OBVIOUS
<1>2. QED
  BY <1>1, RunHasTrace

LEMMA RunEmpty ==
    ASSUME NEW r \in Reader
    PROVE  Run(r, <<>>) = r
<1>1. ASSUME NEW s \in Seq(Char), Len(s) = 0 PROVE Run(r, s) = r
  <2>1. PICK f \in [0 .. Len(s) -> Reader] :
           f[0] = r /\ IsTrace(f, s) /\ Run(r, s) = f[Len(s)]
    BY <1>1, RunHasTrace
  <2>2. QED
    BY <1>1, <2>1
<1>2. <<>> \in Seq(Char) /\ Len(<<>>) = 0
  BY EmptySeq
<1>3. QED
  BY <1>1, <1>2

LEMMA RunOne ==
    ASSUME NEW r \in Reader, NEW c \in Char
    PROVE  Run(r, <<c>>) = Read(r, c)
<1>1. <<c>> \in Seq(Char) /\ Len(<<c>>) = 1 /\ <<c>>[1] = c
  OBVIOUS
<1>2. PICK f \in [0 .. 1 -> Reader] :
         f[0] = r /\ IsTrace(f, <<c>>) /\ Run(r, <<c>>) = f[1]
  BY <1>1, RunHasTrace
<1>3. f[1] = Read(f[0], <<c>>[1])
  BY <1>1, <1>2 DEF IsTrace
<1>4. QED
  BY <1>1, <1>2, <1>3

\* Reading on from where the first text ended.
LEMMA RunConcat ==
    ASSUME NEW r \in Reader, NEW s \in Seq(Char), NEW t \in Seq(Char)
    PROVE  Run(r, s \o t) = Run(Run(r, s), t)
<1> DEFINE M == Len(s)
           N == Len(t)
           q == Run(r, s)
<1>1. M \in Nat /\ N \in Nat /\ q \in Reader /\ s \o t \in Seq(Char)
  BY RunType
<1>2. /\ Len(s \o t) = M + N
      /\ \A n \in 1 .. M + N :
            (s \o t)[n] = IF n <= M THEN s[n] ELSE t[n - M]
  BY ConcatProperties
<1>3. PICK f \in [0 .. M -> Reader] : f[0] = r /\ IsTrace(f, s) /\ q = f[M]
  BY RunHasTrace
<1>4. PICK g \in [0 .. N -> Reader] :
         g[0] = q /\ IsTrace(g, t) /\ Run(q, t) = g[N]
  BY <1>1, RunHasTrace
<1> DEFINE h == [n \in 0 .. M + N |-> IF n <= M THEN f[n] ELSE g[n - M]]
<1>6. \A n \in 0 .. M : h[n] = f[n]
  BY <1>1
<1>7. \A n \in 0 .. N : h[M + n] = g[n]
  BY <1>1, <1>3, <1>4
<1> HIDE DEF h
<1>5. h[0] = r /\ h[M + N] = g[N]
  BY <1>1, <1>3, <1>6, <1>7
<1>8. ASSUME NEW n \in 1 .. M + N PROVE h[n] = Read(h[n - 1], (s \o t)[n])
  <2>1. CASE n <= M
    <3>1. f[n] = Read(f[n - 1], s[n]) /\ n - 1 \in 0 .. M /\ n \in 0 .. M
      BY <1>1, <1>3, <2>1 DEF IsTrace
    <3>2. QED
      BY <1>2, <1>6, <2>1, <3>1
  <2>2. CASE ~(n <= M)
    <3>1. n - M \in 1 .. N /\ (n - M) - 1 \in 0 .. N
      BY <1>1, <2>2
    <3>2. g[n - M] = Read(g[(n - M) - 1], t[n - M])
      BY <1>4, <3>1 DEF IsTrace
    <3>3. h[M + (n - M)] = g[n - M] /\ h[M + ((n - M) - 1)] = g[(n - M) - 1]
      BY <1>7, <3>1, <1>1
    <3>4. M + (n - M) = n /\ M + ((n - M) - 1) = n - 1
      BY <1>1
    <3>5. (s \o t)[n] = t[n - M]
      BY <1>2, <2>2
    <3>6. QED
      BY <3>2, <3>3, <3>4, <3>5
  <2>3. QED
    BY <2>1, <2>2
<1>9. IsTrace(h, s \o t)
  BY <1>2, <1>8 DEF IsTrace
<1>10. Run(r, s \o t) = h[M + N]
  <2>1. ASSUME NEW u, Len(u) = M + N, IsTrace(h, u)
        PROVE  Run(r, u) = h[Len(u)]
    BY <2>1, <1>1, <1>5, RunIsTrace
  <2>2. QED
    BY <1>2, <1>9, <2>1
<1>11. QED
  BY <1>4, <1>5, <1>10

-----------------------------------------------------------------------------
(***************************************************************************)
(* Reading a field.                                                        *)
(***************************************************************************)

At(done, row, field, mode) ==
    [rows |-> done, row |-> row, field |-> field, mode |-> mode]

LEMMA AtType ==
    ASSUME NEW done \in Seq(Seq(Field)), NEW row \in Seq(Field),
           NEW field \in Field, NEW mode \in {"plain", "quoted", "ending"}
    PROVE  At(done, row, field, mode) \in Reader
  BY DEF At, Reader

LEMMA ReadAt ==
    ASSUME NEW done, NEW row, NEW field
    PROVE  /\ Read(At(done, row, field, "plain"), Quote)
                 = At(done, row, field, "quoted")
           /\ Read(At(done, row, field, "quoted"), Quote)
                 = At(done, row, field, "ending")
           /\ Read(At(done, row, field, "ending"), Quote)
                 = At(done, row, Append(field, Quote), "quoted")
  BY Marks DEF At, Read, EndField, EndRow

LEMMA ReadEnd ==
    ASSUME NEW done, NEW row, NEW field, NEW mode \in {"plain", "ending"}
    PROVE  /\ Read(At(done, row, field, mode), Comma)
                 = At(done, Append(row, field), <<>>, "plain")
           /\ Read(At(done, row, field, mode), Newline)
                 = At(Append(done, Append(row, field)), <<>>, <<>>, "plain")
  BY Marks DEF At, Read, EndField, EndRow

LEMMA ReadChar ==
    ASSUME NEW done, NEW row, NEW field, NEW c
    PROVE  /\ c # Quote =>
                 Read(At(done, row, field, "quoted"), c)
                    = At(done, row, Append(field, c), "quoted")
           /\ c \notin {Quote, Comma, Newline} =>
                 Read(At(done, row, field, "plain"), c)
                    = At(done, row, Append(field, c), "plain")
  BY Marks DEF At, Read, EndField, EndRow

\* One character more of a sequence.
LEMMA OneMore ==
    ASSUME NEW S, NEW s \in Seq(S), NEW n \in 1 .. Len(s)
    PROVE  /\ SubSeq(s, 1, n) = Append(SubSeq(s, 1, n - 1), s[n])
           /\ SubSeq(s, 1, n - 1) \in Seq(S) /\ s[n] \in S
<1>1. SubSeq(s, 1, n) = SubSeq(s, 1, n - 1) \o <<s[n]>>
  BY SubSeqRecursiveSecond, 1 \in 1 .. Len(s)
<1>2. SubSeq(s, 1, n - 1) \in Seq(S) /\ s[n] \in S
  OBVIOUS
<1>3. QED
  BY <1>1, <1>2, AppendIsConcat

\* A number's digits are read as they are.
LEMMA PlainRead ==
    ASSUME NEW done \in Seq(Seq(Field)), NEW row \in Seq(Field),
           NEW s \in Seq(Plain)
    PROVE  Run(At(done, row, <<>>, "plain"), s) = At(done, row, s, "plain")
<1> DEFINE N == Len(s)
           f == [n \in 0 .. N |-> At(done, row, SubSeq(s, 1, n), "plain")]
<1>1. N \in Nat /\ SubSeq(s, 1, 0) = <<>> /\ SubSeq(s, 1, N) = s
  BY SubSeqFull, SubSeqEmpty
<1>2. f[0] = At(done, row, <<>>, "plain") /\ f[N] = At(done, row, s, "plain")
  <2>1. 0 \in 0 .. N /\ N \in 0 .. N
    BY <1>1
  <2>2. /\ f[0] = At(done, row, SubSeq(s, 1, 0), "plain")
        /\ f[N] = At(done, row, SubSeq(s, 1, N), "plain")
    BY <2>1
  <2>3. QED
    BY <1>1, <2>2
<1>3. ASSUME NEW n \in 1 .. N PROVE f[n] = Read(f[n - 1], s[n])
  <2>1. /\ n \in 0 .. N /\ n - 1 \in 0 .. N
        /\ SubSeq(s, 1, n) = Append(SubSeq(s, 1, n - 1), s[n]) /\ s[n] \in Plain
    BY <1>1, OneMore
  <2>2. s[n] \notin {Quote, Comma, Newline}
    BY <2>1, Marks
  <2>3. Read(At(done, row, SubSeq(s, 1, n - 1), "plain"), s[n])
           = At(done, row, Append(SubSeq(s, 1, n - 1), s[n]), "plain")
    BY <2>2, ReadChar
  <2>4. QED
    BY <2>1, <2>3
<1>4. IsTrace(f, s)
  BY <1>3 DEF IsTrace
<1> HIDE DEF f
<1>5. Run(At(done, row, <<>>, "plain"), s) = f[N]
  BY <1>1, <1>2, <1>4, RunIsTrace
<1>6. QED
  BY <1>2, <1>5

LEMMA EscapedType ==
    /\ \A c \in Char : Escaped(c) \in Seq(Char)
    /\ \A s \in Seq(Char), c \in Char : PutChar(s, c) \in Seq(Char)
<1>1. ASSUME NEW c \in Char PROVE Escaped(c) \in Seq(Char)
  <2>1. <<c, c>> \in Seq(Char) /\ <<c>> \in Seq(Char)
    OBVIOUS
  <2>2. QED
    BY <2>1 DEF Escaped
<1>2. ASSUME NEW s \in Seq(Char), NEW c \in Char
      PROVE  PutChar(s, c) \in Seq(Char)
  BY <1>1, ConcatProperties DEF PutChar
<1>3. QED
  BY <1>1, <1>2

\* What the loop has written after n characters of the text.
LEMMA EscapingHasTrace ==
    ASSUME NEW text \in Seq(Char)
    PROVE  \E e \in [0 .. Len(text) -> Seq(Char)] :
               /\ e[0] = <<Quote>>
               /\ \A n \in 1 .. Len(text) : e[n] = PutChar(e[n - 1], text[n])
               /\ Escaping(text) = e[Len(text)]
<1> DEFINE N == Len(text)
           start == <<Quote>>
           Loop(e) == e = [n \in 0 .. N |->
                              IF n = 0 THEN start
                              ELSE PutChar(e[n - 1], text[n])]
           step == [p \in Seq(Char) \X (1 .. N) |-> PutChar(p[1], text[p[2]])]
           written == CHOOSE e : Loop(e)
<1>1. N \in Nat /\ start \in Seq(Char) /\ \A n \in 1 .. N : text[n] \in Char
  <2>1. Quote \in Char
    BY DEF Char
  <2>2. QED
    BY <2>1
<1>2. \A s \in Seq(Char), n \in 1 .. N : PutChar(s, text[n]) \in Seq(Char)
  BY <1>1, EscapedType
<1>3. step \in [Seq(Char) \X (1 .. N) -> Seq(Char)]
  BY <1>2
<1>4. \A s \in Seq(Char), n \in 1 .. N : step[<<s, n>>] = PutChar(s, text[n])
  OBVIOUS
<1> HIDE DEF step, start, N
<1>5. PICK e : Follows(e, N, Seq(Char), start, step)
  <2>1. IsStep(step, N, Seq(Char))
    BY <1>3 DEF IsStep
  <2>2. QED
    BY <1>1, <2>1, IntervalRecursion
<1>6. /\ e \in [0 .. N -> Seq(Char)] /\ e[0] = start
      /\ \A n \in 1 .. N : e[n] = step[<<e[n - 1], n>>]
  BY <1>5 DEF Follows
<1>7. \A n \in 1 .. N : e[n] = PutChar(e[n - 1], text[n])
  <2>1. \A n \in 1 .. N : e[n - 1] \in Seq(Char)
    BY <1>1, <1>6
  <2>2. QED
    BY <1>4, <1>6, <2>1
<1>8. Loop(e)
  BY <1>1, <1>6, <1>7
<1>9. Loop(written)
  <2> HIDE DEF Loop
  <2>1. QED
    BY <1>8
<1>10. Escaping(text) = written[N]
  BY DEF Escaping, N, start
<1> HIDE DEF written
<1>11. /\ written[0] = start
       /\ \A n \in 1 .. N : written[n] = PutChar(written[n - 1], text[n])
  BY <1>1, <1>9
<1> DEFINE T == {n \in 0 .. N : written[n] = e[n]}
<1>12. 0 \in T
  BY <1>1, <1>6, <1>11
<1>13. ASSUME NEW n \in 0 .. N - 1, n \in T PROVE n + 1 \in T
  <2>1. n + 1 \in 1 .. N /\ n + 1 - 1 = n
    BY <1>1
  <2>2. /\ written[n + 1] = PutChar(written[n], text[n + 1])
        /\ e[n + 1] = PutChar(e[n], text[n + 1])
    BY <1>7, <1>11, <2>1
  <2>3. QED
    BY <1>13, <2>1, <2>2
<1>14. 0 .. N \subseteq T
  <2> HIDE DEF T
  <2>1. QED
    BY <1>1, <1>12, <1>13, IntervalInduction
<1>15. Escaping(text) = e[N]
  BY <1>1, <1>10, <1>14
<1>16. QED
  BY <1>6, <1>7, <1>15 DEF N, start

\* After the quote that opens it, a text is read as it was before it was
\* escaped, and the reader is still inside the quotes.
LEMMA EscapingRead ==
    ASSUME NEW done \in Seq(Seq(Field)), NEW row \in Seq(Field),
           NEW text \in Seq(Char)
    PROVE  /\ Escaping(text) \in Seq(Char)
           /\ Run(At(done, row, <<>>, "plain"), Escaping(text))
                 = At(done, row, text, "quoted")
<1> DEFINE N == Len(text)
           r == At(done, row, <<>>, "plain")
           Inside(n) == At(done, row, SubSeq(text, 1, n), "quoted")
<1>1. PICK e \in [0 .. N -> Seq(Char)] :
         /\ e[0] = <<Quote>>
         /\ \A n \in 1 .. N : e[n] = PutChar(e[n - 1], text[n])
         /\ Escaping(text) = e[N]
  BY EscapingHasTrace
<1>2. N \in Nat /\ SubSeq(text, 1, 0) = <<>> /\ SubSeq(text, 1, N) = text
  BY SubSeqFull, SubSeqEmpty
<1>3. r \in Reader
  <2>1. <<>> \in Field
    BY EmptySeq DEF Field
  <2>2. QED
    BY <2>1, AtType
<1> DEFINE T == {n \in 0 .. N : Run(r, e[n]) = Inside(n)}
<1>4. 0 \in T
  <2>1. Quote \in Char
    BY DEF Char
  <2>2. Run(r, <<Quote>>) = Read(r, Quote)
    BY <1>3, <2>1, RunOne
  <2>3. Read(r, Quote) = At(done, row, <<>>, "quoted")
    BY ReadAt
  <2>4. Inside(0) = At(done, row, <<>>, "quoted")
    BY <1>2
  <2>5. Run(r, e[0]) = Inside(0)
    BY <1>1, <2>2, <2>3, <2>4
  <2>6. 0 \in 0 .. N
    BY <1>2
  <2>7. QED
    BY <2>5, <2>6
<1>5. ASSUME NEW n \in 0 .. N - 1, n \in T PROVE n + 1 \in T
  <2> DEFINE c == text[n + 1]
             sofar == SubSeq(text, 1, n)
  <2>1. n + 1 \in 1 .. N /\ n + 1 - 1 = n /\ n \in 0 .. N /\ n + 1 \in 0 .. N
    BY <1>2
  <2>2. /\ SubSeq(text, 1, n + 1) = Append(sofar, c)
        /\ sofar \in Seq(Char) /\ c \in Char
    BY <2>1, OneMore
  <2>3. e[n + 1] = PutChar(e[n], c) /\ e[n] \in Seq(Char)
    <3>1. e[n + 1] = PutChar(e[(n + 1) - 1], text[n + 1])
      <4> HIDE DEF N
      <4>1. QED
        BY <1>1, <2>1
    <3>2. e[n] \in Seq(Char)
      BY <1>1, <2>1
    <3>3. e[(n + 1) - 1] = e[n]
      BY <2>1
    <3>4. QED
      BY <3>1, <3>2, <3>3, Zenon
  <2>4. Run(r, e[n + 1]) = Run(Inside(n), Escaped(c))
    <3>1. Run(r, e[n] \o Escaped(c)) = Run(Run(r, e[n]), Escaped(c))
      BY <1>3, <2>2, <2>3, EscapedType, RunConcat
    <3>2. PutChar(e[n], c) = e[n] \o Escaped(c)
      BY DEF PutChar
    <3>3. Run(r, e[n]) = Inside(n)
      BY <1>5
    <3>4. QED
      BY <2>3, <3>1, <3>2, <3>3
  <2>5. Inside(n) \in Reader /\ Inside(n + 1) = At(done, row, Append(sofar, c), "quoted")
    BY <2>2, AtType DEF Field
  <2>6. CASE c = Quote
    <3> DEFINE one == <<c>>
    <3>1. Escaped(c) = one \o one /\ one \in Seq(Char)
      BY <2>2, <2>6 DEF Escaped
    <3>2. Run(Inside(n), Escaped(c)) = Run(Run(Inside(n), one), one)
      <4> HIDE DEF one
      <4>1. QED
        BY <2>5, <3>1, RunConcat
    <3>3. Run(Inside(n), <<c>>) = At(done, row, sofar, "ending")
      <4>1. Run(Inside(n), <<c>>) = Read(Inside(n), c)
        BY <2>2, <2>5, RunOne
      <4>2. QED
        BY <2>6, <4>1, ReadAt
    <3>4. At(done, row, sofar, "ending") \in Reader
      BY <2>2, AtType DEF Field
    <3>5. Run(At(done, row, sofar, "ending"), <<c>>)
             = Read(At(done, row, sofar, "ending"), c)
      BY <2>2, <3>4, RunOne
    <3>6. Read(At(done, row, sofar, "ending"), c)
             = At(done, row, Append(sofar, c), "quoted")
      BY <2>6, ReadAt
    <3>7. Run(r, e[n + 1]) = Inside(n + 1)
      BY <2>4, <2>5, <3>2, <3>3, <3>5, <3>6
    <3>8. QED
      BY <2>1, <3>7
  <2>7. CASE c # Quote
    <3>1. Escaped(c) = <<c>>
      BY <2>7 DEF Escaped
    <3>2. Run(Inside(n), <<c>>) = Read(Inside(n), c)
      BY <2>2, <2>5, RunOne
    <3>3. Read(Inside(n), c) = At(done, row, Append(sofar, c), "quoted")
      BY <2>7, ReadChar
    <3>4. Run(r, e[n + 1]) = Inside(n + 1)
      BY <2>4, <2>5, <3>1, <3>2, <3>3
    <3>5. QED
      BY <2>1, <3>4
  <2>8. QED
    BY <2>6, <2>7
<1>6. 0 .. N \subseteq T
  <2> HIDE DEF T, N
  <2>1. N \in Nat
    BY <1>2
  <2>2. QED
    BY <2>1, <1>4, <1>5, IntervalInduction
<1>7. N \in T
  BY <1>2, <1>6
<1>8. Escaping(text) \in Seq(Char)
  BY <1>1, <1>2
<1>9. QED
  BY <1>1, <1>2, <1>7, <1>8

-----------------------------------------------------------------------------
(***************************************************************************)
(* The row under construction and the file.                                *)
(***************************************************************************)

\* This field's characters, without the comma behind them, leave the reader at
\* the field's end wherever it begins.
Spells(body, value) ==
    /\ body \in Seq(Char)
    /\ \A done \in Seq(Seq(Field)), row \in Seq(Field) :
          \E mode \in {"plain", "ending"} :
             Run(At(done, row, <<>>, "plain"), body) = At(done, row, value, mode)

LEMMA Pair ==
    ASSUME NEW c \in Char, NEW d \in Char
    PROVE  <<c, d>> = <<c>> \o <<d>>
<1> DEFINE s == <<c>>
           t == <<d>>
           u == <<c, d>>
<1>1. /\ s \in Seq(Char) /\ Len(s) = 1 /\ s[1] = c
      /\ t \in Seq(Char) /\ Len(t) = 1 /\ t[1] = d
      /\ u \in Seq(Char) /\ Len(u) = 2 /\ u[1] = c /\ u[2] = d
  OBVIOUS
<1> HIDE DEF s, t, u
<1>2. /\ s \o t \in Seq(Char) /\ Len(s \o t) = 2
      /\ (s \o t)[1] = c /\ (s \o t)[2] = d
  <2>1. /\ s \o t \in Seq(Char) /\ Len(s \o t) = Len(s) + Len(t)
        /\ \A i \in 1 .. Len(s) + Len(t) :
              (s \o t)[i] = IF i <= Len(s) THEN s[i] ELSE t[i - Len(s)]
    BY <1>1, ConcatProperties
  <2>2. /\ (s \o t)[1] = IF 1 <= 1 THEN s[1] ELSE t[1 - 1]
        /\ (s \o t)[2] = IF 2 <= 1 THEN s[2] ELSE t[2 - 1]
    BY <1>1, <2>1
  <2>3. QED
    BY <1>1, <2>1, <2>2
<1>3. \A i \in 1 .. 2 : u[i] = (s \o t)[i]
  BY <1>1, <1>2
<1>4. u = s \o t
  BY <1>1, <1>2, <1>3, SeqEqual
<1>5. QED
  BY <1>4 DEF s, t, u

LEMMA TextSpelt ==
    ASSUME NEW text \in Seq(Char)
    PROVE  \E body : Quoted(text) = body \o <<Comma>> /\ Spells(body, text)
<1> DEFINE opened == Escaping(text)
           one == <<Quote>>
           body == opened \o one
<1>1. Quote \in Char /\ one \in Seq(Char)
  BY DEF Char
<1>2. opened \in Seq(Char)
  <2>1. <<>> \in Seq(Field) /\ <<>> \in Seq(Seq(Field))
    BY EmptySeq
  <2>2. QED
    BY <2>1, EscapingRead
<1>3. body \in Seq(Char)
  BY <1>1, <1>2
<1>4. Quoted(text) = body \o <<Comma>>
  <2>1. <<Comma>> \in Seq(Char)
    BY DEF Char
  <2>2. <<Quote, Comma>> = one \o <<Comma>>
    BY Pair DEF Char
  <2> HIDE DEF opened, one
  <2>3. opened \o (one \o <<Comma>>) = (opened \o one) \o <<Comma>>
    BY <1>1, <1>2, <2>1, ConcatAssociative
  <2>4. QED
    BY <2>2, <2>3 DEF Quoted, opened
<1>5. ASSUME NEW done \in Seq(Seq(Field)), NEW row \in Seq(Field)
      PROVE  Run(At(done, row, <<>>, "plain"), body)
                = At(done, row, text, "ending")
  <2>1. <<>> \in Field /\ text \in Field
    BY EmptySeq DEF Field
  <2>2. At(done, row, <<>>, "plain") \in Reader
    BY <2>1, AtType
  <2>3. Run(At(done, row, <<>>, "plain"), opened) = At(done, row, text, "quoted")
    BY EscapingRead
  <2>4. At(done, row, text, "quoted") \in Reader
    BY <2>1, AtType
  <2>5. Run(At(done, row, text, "quoted"), one) = At(done, row, text, "ending")
    BY <1>1, <2>4, RunOne, ReadAt
  <2> HIDE DEF opened, one
  <2>6. QED
    BY <1>1, <1>2, <2>2, <2>3, <2>5, RunConcat
<1> HIDE DEF body
<1>6. Spells(body, text)
  BY <1>3, <1>5 DEF Spells
<1>7. QED
  BY <1>4, <1>6

LEMMA NumeralSpelt ==
    ASSUME NEW numeral \in Seq(Plain)
    PROVE  Spells(numeral, numeral)
<1>1. numeral \in Seq(Char)
  BY SeqMonotonic DEF Char
<1>2. QED
  BY <1>1, PlainRead DEF Spells

\* The stream is a body and a comma, and the body leaves the reader at the end
\* of the last of the row's fields.
RowSpelt(body, values) ==
    /\ body \in Seq(Char)
    /\ \A done \in Seq(Seq(Field)), row \in Seq(Field) :
          \E mode \in {"plain", "ending"} :
             Run(At(done, row, <<>>, "plain"), body)
                = At(done, row \o Front(values), Last(values), mode)

StreamInv ==
    stream # <<>> =>
        \E body : stream = body \o <<Comma>> /\ RowSpelt(body, fields)

FileInv ==
    Reading(file) =
        At([i \in DOMAIN rows |-> Stamped(rows[i])], <<>>, <<>>, "plain")

IndInv == TypeOK /\ StreamInv /\ FileInv

\* Front and Last of a row.
LEMMA FrontLast ==
    ASSUME NEW S, NEW s \in Seq(S), s # <<>>
    PROVE  /\ Front(s) \in Seq(S) /\ Last(s) \in S
           /\ Append(Front(s), Last(s)) = s
<1>1. Len(s) \in Nat \ {0}
  BY EmptySeq
<1>2. Front(s) = SubSeq(s, 1, Len(s) - 1) /\ Last(s) = s[Len(s)]
  BY DEF Front, Last
<1>3. Len(s) \in 1 .. Len(s) /\ SubSeq(s, 1, Len(s)) = s
  BY <1>1, SubSeqFull
<1>4. QED
  BY <1>2, <1>3, OneMore

LEMMA FrontLastAppend ==
    ASSUME NEW S, NEW s \in Seq(S), NEW e \in S
    PROVE  Front(Append(s, e)) = s /\ Last(Append(s, e)) = e
<1> DEFINE t == Append(s, e)
<1>1. t \in Seq(S) /\ t # <<>>
  BY AppendProperties
<1>2. Front(t) \in Seq(S) /\ Last(t) \in S /\ Append(Front(t), Last(t)) = t
  <2> HIDE DEF t
  <2>1. QED
    BY <1>1, FrontLast
<1>3. QED
  BY <1>2, AppendInjective

LEMMA AppendAsFunction ==
    ASSUME NEW S, NEW s \in Seq(S), NEW e \in S
    PROVE  /\ DOMAIN Append(s, e) = 1 .. Len(s) + 1
           /\ \A i \in 1 .. Len(s) : Append(s, e)[i] = s[i]
           /\ Append(s, e)[Len(s) + 1] = e
           /\ Append(s, e) = [i \in DOMAIN Append(s, e) |-> Append(s, e)[i]]
<1>1. /\ Append(s, e) \in Seq(S) /\ Len(Append(s, e)) = Len(s) + 1
      /\ \A i \in 1 .. Len(s) : Append(s, e)[i] = s[i]
      /\ Append(s, e)[Len(s) + 1] = e
  BY AppendProperties
<1>2. ASSUME NEW t \in Seq(S)
      PROVE  DOMAIN t = 1 .. Len(t) /\ t = [i \in DOMAIN t |-> t[i]]
  OBVIOUS
<1>3. QED
  BY <1>1, <1>2

LEMMA AppendToConcat ==
    ASSUME NEW s \in Seq(Field), NEW t \in Seq(Field), NEW e \in Field
    PROVE  Append(s \o t, e) = s \o Append(t, e)
<1> DEFINE one == <<e>>
<1>1. one \in Seq(Field)
  OBVIOUS
<1>2. /\ s \o t \in Seq(Field) /\ Append(s \o t, e) = (s \o t) \o one
      /\ Append(t, e) = t \o one
  BY ConcatProperties, AppendIsConcat
<1> HIDE DEF one
<1>3. QED
  BY <1>1, <1>2, ConcatAssociative

LEMMA ConcatOne ==
    ASSUME NEW s \in Seq(Char), NEW c \in Char
    PROVE  /\ s \o <<c>> \in Seq(Char) /\ s \o <<c>> # <<>>
           /\ Front(s \o <<c>>) = s
<1>1. s \o <<c>> = Append(s, c)
  BY AppendIsConcat
<1>2. /\ Append(s, c) \in Seq(Char) /\ Append(s, c) # <<>>
      /\ Front(Append(s, c)) = s
  BY AppendProperties, FrontLastAppend
<1>3. QED
  BY <1>1, <1>2

Value == Texts \cup Numerals

LEMMA ValueIsField == Value \subseteq Field
<1>1. Texts \subseteq Field
  <2>1. ASSUME NEW S, NEW n \in Nat, NEW s \in BoundedSeq(S, n)
        PROVE  s \in Seq(S)
    BY <2>1 DEF BoundedSeq, SeqOf
  <2>2. Plain \cup {Quote, Comma, Newline} \subseteq Char
    BY DEF Char
  <2>3. QED
    BY <2>1, <2>2, SeqMonotonic, CharactersAssumption DEF Texts, Field
<1>2. Numerals \subseteq Field
  BY CharactersAssumption, SeqMonotonic DEF Field, Char
<1>3. QED
  BY <1>1, <1>2 DEF Value

\* Between two fields the reader has the row so far.
LEMMA StreamRead ==
    ASSUME TypeOK, StreamInv,
           NEW done \in Seq(Seq(Field)), NEW row \in Seq(Field)
    PROVE  Run(At(done, row, <<>>, "plain"), stream)
              = At(done, row \o fields, <<>>, "plain")
<1> DEFINE r == At(done, row, <<>>, "plain")
<1>1. <<>> \in Field /\ r \in Reader
  BY EmptySeq, AtType DEF Field
<1>2. fields \in Seq(Field) /\ (stream = <<>> <=> fields = <<>>)
  BY ValueIsField, SeqMonotonic DEF TypeOK, Value
<1>3. CASE stream = <<>>
  <2>1. Run(r, <<>>) = r
    BY <1>1, RunEmpty
  <2>2. row \o fields = row
    BY <1>2, <1>3, ConcatEmptySeq
  <2>3. QED
    BY <1>3, <2>1, <2>2
<1>4. CASE stream # <<>>
  <2>1. PICK body : stream = body \o <<Comma>> /\ RowSpelt(body, fields)
    BY <1>4 DEF StreamInv
  <2>2. PICK mode \in {"plain", "ending"} :
           Run(r, body) = At(done, row \o Front(fields), Last(fields), mode)
    BY <2>1 DEF RowSpelt
  <2>3. /\ Front(fields) \in Seq(Field) /\ Last(fields) \in Field
        /\ Append(Front(fields), Last(fields)) = fields
    BY <1>2, <1>4, FrontLast
  <2>4. At(done, row \o Front(fields), Last(fields), mode) \in Reader
    <3>1. row \o Front(fields) \in Seq(Field)
      BY <2>3, ConcatProperties
    <3>2. QED
      BY <2>3, <3>1, AtType
  <2> DEFINE one == <<Comma>>
  <2>5. one \in Seq(Char) /\ Comma \in Char /\ body \in Seq(Char)
    BY <2>1 DEF Char, RowSpelt
  <2>6. Run(At(done, row \o Front(fields), Last(fields), mode), one)
           = At(done, Append(row \o Front(fields), Last(fields)), <<>>, "plain")
    <3> DEFINE sofar == row \o Front(fields)
               last == Last(fields)
    <3>1. At(done, sofar, last, mode) \in Reader
      BY <2>4
    <3> HIDE DEF sofar, last
    <3>2. Run(At(done, sofar, last, mode), one)
             = Read(At(done, sofar, last, mode), Comma)
      BY <2>5, <3>1, RunOne
    <3>3. Read(At(done, sofar, last, mode), Comma)
             = At(done, Append(sofar, last), <<>>, "plain")
      BY ReadEnd
    <3>4. QED
      BY <3>2, <3>3 DEF sofar, last
  <2>7. Run(r, stream) = Run(Run(r, body), one)
    <3> HIDE DEF one
    <3>1. Run(r, body \o one) = Run(Run(r, body), one)
      BY <1>1, <2>5, RunConcat
    <3>2. QED
      BY <2>1, <3>1 DEF one
  <2>8. Append(row \o Front(fields), Last(fields)) = row \o fields
    <3> DEFINE front == Front(fields)
               last == Last(fields)
    <3>1. front \in Seq(Field) /\ last \in Field /\ Append(front, last) = fields
      BY <2>3
    <3> HIDE DEF front, last
    <3>2. Append(row \o front, last) = row \o Append(front, last)
      BY <3>1, AppendToConcat
    <3>3. QED
      BY <3>1, <3>2 DEF front, last
  <2>9. QED
    BY <2>2, <2>6, <2>7, <2>8
<1>5. QED
  BY <1>3, <1>4

-----------------------------------------------------------------------------
(***************************************************************************)
(* The steps.                                                              *)
(***************************************************************************)

LEMMA InitInv == Init => IndInv
<1> SUFFICES ASSUME Init PROVE IndInv
  OBVIOUS
<1>1. stream = <<>> /\ file = <<>> /\ fields = <<>> /\ rows = <<>>
  BY DEF Init
<1>2. TypeOK
  BY <1>1, EmptySeq DEF TypeOK
<1>3. FileInv
  <2> DEFINE r == At(<<>>, <<>>, <<>>, "plain")
  <2>1. r \in Reader
    BY EmptySeq, AtType DEF Field
  <2>2. Reading(file) = r
    BY <1>1, <2>1, RunEmpty DEF Reading, At
  <2>3. [i \in DOMAIN rows |-> Stamped(rows[i])] = <<>>
    BY <1>1
  <2>4. QED
    BY <2>2, <2>3 DEF FileInv
<1>4. QED
  BY <1>1, <1>2, <1>3 DEF IndInv, StreamInv

\* A field more.
LEMMA PutInv ==
    ASSUME IndInv, NEW body, NEW value \in Value, Spells(body, value),
           Put(body \o <<Comma>>, value)
    PROVE  IndInv'
<1> DEFINE one == <<Comma>>
<1>1. /\ body \in Seq(Char) /\ one \in Seq(Char)
      /\ stream \in Seq(Char) /\ fields \in Seq(Value) /\ value \in Field
      /\ fields \in Seq(Field)
  BY ValueIsField, SeqMonotonic DEF IndInv, TypeOK, Spells, Value, Char
<1>2. /\ stream' = stream \o (body \o one) /\ fields' = Append(fields, value)
      /\ UNCHANGED <<file, rows>>
  BY DEF Put
<1>3. stream' = (stream \o body) \o one
  <2> HIDE DEF one
  <2>1. (stream \o body) \o one = stream \o (body \o one)
    BY <1>1, ConcatAssociative
  <2>2. QED
    BY <1>2, <2>1
<1>4. stream \o body \in Seq(Char)
  BY <1>1, ConcatProperties
<1>5. stream' \in Seq(Char) /\ stream' # <<>>
  <2>1. Comma \in Char
    BY DEF Char
  <2>2. QED
    BY <1>3, <1>4, <2>1, ConcatOne
<1>6. fields' \in Seq(Value) /\ fields' # <<>>
  BY <1>1, <1>2, AppendProperties
<1>7. TypeOK'
  BY <1>2, <1>5, <1>6 DEF IndInv, TypeOK, Value
<1>8. RowSpelt(stream \o body, fields')
  <2>1. ASSUME NEW done \in Seq(Seq(Field)), NEW row \in Seq(Field)
        PROVE  \E mode \in {"plain", "ending"} :
                  Run(At(done, row, <<>>, "plain"), stream \o body)
                     = At(done, row \o Front(fields'), Last(fields'), mode)
    <3>1. Run(At(done, row, <<>>, "plain"), stream)
             = At(done, row \o fields, <<>>, "plain")
      BY StreamRead DEF IndInv
    <3>2. row \o fields \in Seq(Field) /\ At(done, row, <<>>, "plain") \in Reader
      BY <1>1, ConcatProperties, EmptySeq, AtType DEF Field
    <3>3. PICK mode \in {"plain", "ending"} :
             Run(At(done, row \o fields, <<>>, "plain"), body)
                = At(done, row \o fields, value, mode)
      BY <3>2 DEF Spells
    <3>4. Run(At(done, row, <<>>, "plain"), stream \o body)
             = At(done, row \o fields, value, mode)
      BY <1>1, <3>1, <3>2, <3>3, RunConcat
    <3>5. Front(fields') = fields /\ Last(fields') = value
      BY <1>1, <1>2, FrontLastAppend
    <3>6. QED
      BY <3>4, <3>5
  <2>2. QED
    BY <1>4, <2>1 DEF RowSpelt
<1>9. StreamInv'
  <2>1. \E b : stream' = b \o <<Comma>> /\ RowSpelt(b, fields')
    BY <1>3, <1>8
  <2>2. QED
    BY <2>1 DEF StreamInv, RowSpelt, Run, Read, EndField, EndRow
<1>10. FileInv'
  BY <1>2 DEF IndInv, FileInv
<1>11. QED
  BY <1>7, <1>9, <1>10 DEF IndInv

\* A row more.  Only the comma that string() takes off tells the line's end
\* from the end of the last field.
LEMMA LogRowInv == IndInv /\ LogRow => IndInv'
<1> SUFFICES ASSUME IndInv, LogRow PROVE IndInv'
  OBVIOUS
<1> DEFINE done == [i \in DOMAIN rows |-> Stamped(rows[i])]
           start == At(done, <<>>, <<>>, "plain")
           stamp == Stamp
           comma == <<Comma>>
           newline == <<Newline>>
           stamped == <<Stamp>>
<1>1. /\ stream \in Seq(Char) /\ file \in Seq(Char)
      /\ fields \in Seq(Value) /\ fields \in Seq(Field)
      /\ fields # <<>> /\ stream # <<>>
  BY ValueIsField, SeqMonotonic DEF IndInv, TypeOK, Value, LogRow
<1>2. /\ stamp \in Seq(Char) /\ comma \in Seq(Char) /\ newline \in Seq(Char)
      /\ "t" \in Char /\ Comma \in Char /\ Newline \in Char
      /\ stamp \in Field /\ stamped \in Seq(Field) /\ <<>> \in Field
      /\ <<>> \in Seq(Field)
  BY EmptySeq DEF Char, Stamp, Field
<1>3. /\ rows \in Seq(Seq(Value) \ {<<>>}) /\ rows' = Append(rows, fields)
      /\ stream' = <<>> /\ fields' = <<>>
  BY DEF IndInv, TypeOK, Value, LogRow
<1>4. done \in Seq(Seq(Field)) /\ Len(done) = Len(rows)
  <2>1. \A v \in Seq(Value) : Stamped(v) \in Seq(Field)
    <3>1. ASSUME NEW v \in Seq(Value) PROVE Stamped(v) \in Seq(Field)
      <4>1. v \in Seq(Field)
        BY ValueIsField, SeqMonotonic
      <4> HIDE DEF stamped
      <4>2. stamped \o v \in Seq(Field)
        BY <1>2, <4>1, ConcatProperties
      <4>3. QED
        BY <4>2 DEF Stamped, stamped
    <3>2. QED
      BY <3>1
  <2>2. \A i \in 1 .. Len(rows) : rows[i] \in Seq(Value)
    BY <1>3
  <2>3. DOMAIN rows = 1 .. Len(rows) /\ Len(rows) \in Nat
    BY <1>3
  <2>4. QED
    BY <2>1, <2>2, <2>3
<1>5. PICK body : stream = body \o <<Comma>> /\ RowSpelt(body, fields)
  BY <1>1 DEF IndInv, StreamInv
<1>6. body \in Seq(Char) /\ String(stream) = body
  BY <1>1, <1>2, <1>5, ConcatOne DEF RowSpelt, String
<1>7. file' = (((file \o stamp) \o comma) \o body) \o newline
  BY <1>6 DEF LogRow
<1> HIDE DEF done, stamp, comma, newline, stamped
<1>8. file \o stamp \in Seq(Char) /\ (file \o stamp) \o comma \in Seq(Char)
  BY <1>1, <1>2, ConcatProperties
<1>9. ((file \o stamp) \o comma) \o body \in Seq(Char)
  BY <1>6, <1>8, ConcatProperties
<1>10. file' \in Seq(Char)
  BY <1>2, <1>7, <1>9, ConcatProperties
<1> DEFINE empty == At(<<>>, <<>>, <<>>, "plain")
<1>11. empty \in Reader /\ \A s : Reading(s) = Run(empty, s)
  <2>1. <<>> \in Seq(Seq(Field))
    BY EmptySeq
  <2>2. QED
    BY <1>2, <2>1, AtType DEF Reading, At
<1>12. start \in Reader /\ Run(empty, file) = start
  BY <1>2, <1>4, <1>11, AtType DEF IndInv, FileInv, done
<1>13. Run(empty, file \o stamp) = At(done, <<>>, stamp, "plain")
  <2>1. Run(start, <<"t">>) = Read(start, "t")
    BY <1>2, <1>12, RunOne
  <2>2. Read(start, "t") = At(done, <<>>, Append(<<>>, "t"), "plain")
    <3> DEFINE nil == <<>>
    <3> HIDE DEF nil
    <3>1. Read(At(done, nil, nil, "plain"), "t")
             = At(done, nil, Append(nil, "t"), "plain")
      BY Marks, ReadChar
    <3>2. QED
      BY <3>1 DEF nil
  <2>3. Append(<<>>, "t") = <<"t">>
    OBVIOUS
  <2>4. Run(start, stamp) = At(done, <<>>, stamp, "plain")
    BY <2>1, <2>2, <2>3 DEF stamp, Stamp
  <2>5. QED
    BY <1>1, <1>2, <1>11, <1>12, <2>4, RunConcat
<1>14. Run(empty, (file \o stamp) \o comma) = At(done, stamped, <<>>, "plain")
  <2> DEFINE q == At(done, <<>>, stamp, "plain")
  <2>1. q \in Reader
    BY <1>2, <1>4, AtType
  <2>2. Run(q, comma) = Read(q, Comma)
    BY <1>2, <2>1, RunOne DEF comma
  <2>3. Read(q, Comma) = At(done, Append(<<>>, stamp), <<>>, "plain")
    <3> DEFINE nil == <<>>
               plain == "plain"
    <3>1. plain \in {"plain", "ending"}
      OBVIOUS
    <3> HIDE DEF nil, plain
    <3>2. Read(At(done, nil, stamp, plain), Comma)
             = At(done, Append(nil, stamp), <<>>, "plain")
      BY <3>1, ReadEnd
    <3>3. QED
      BY <3>2 DEF nil, plain
  <2>4. Append(<<>>, stamp) = stamped
    BY DEF stamp, stamped
  <2>5. Run(empty, (file \o stamp) \o comma) = Run(Run(empty, file \o stamp), comma)
    BY <1>2, <1>8, <1>11, RunConcat
  <2>6. QED
    BY <1>13, <2>2, <2>3, <2>4, <2>5
<1>15. PICK mode \in {"plain", "ending"} :
          Run(At(done, stamped, <<>>, "plain"), body)
             = At(done, stamped \o Front(fields), Last(fields), mode)
  BY <1>2, <1>4, <1>5 DEF RowSpelt
<1>16. Run(empty, ((file \o stamp) \o comma) \o body)
          = At(done, stamped \o Front(fields), Last(fields), mode)
  <2> DEFINE prefix == (file \o stamp) \o comma
  <2>1. prefix \in Seq(Char)
        /\ Run(empty, prefix) = At(done, stamped, <<>>, "plain")
    BY <1>8, <1>14
  <2> HIDE DEF prefix
  <2>2. Run(empty, prefix \o body) = Run(Run(empty, prefix), body)
    BY <1>6, <1>11, <2>1, RunConcat
  <2>3. QED
    BY <1>15, <2>1, <2>2 DEF prefix
<1> DEFINE front == Front(fields)
           last == Last(fields)
           sofar == stamped \o front
<1>17. /\ front \in Seq(Field) /\ last \in Field
       /\ Append(front, last) = fields
  BY <1>1, FrontLast
<1>18. sofar \in Seq(Field) /\ Append(sofar, last) = Stamped(fields)
  <2> HIDE DEF front, last
  <2>1. stamped \o front \in Seq(Field)
    BY <1>2, <1>17, ConcatProperties
  <2>2. Append(stamped \o front, last) = stamped \o Append(front, last)
    BY <1>2, <1>17, AppendToConcat
  <2>3. QED
    BY <1>17, <2>1, <2>2 DEF Stamped, stamped
<1> HIDE DEF sofar, last
<1>19. Run(At(done, sofar, last, mode), newline)
          = At(Append(done, Stamped(fields)), <<>>, <<>>, "plain")
  <2>1. At(done, sofar, last, mode) \in Reader
    BY <1>4, <1>17, <1>18, AtType
  <2>2. Run(At(done, sofar, last, mode), newline)
           = Read(At(done, sofar, last, mode), Newline)
    BY <1>2, <2>1, RunOne DEF newline
  <2>3. Read(At(done, sofar, last, mode), Newline)
           = At(Append(done, Append(sofar, last)), <<>>, <<>>, "plain")
    BY ReadEnd
  <2>4. QED
    BY <1>18, <2>2, <2>3
<1>20. Run(empty, file') = At(Append(done, Stamped(fields)), <<>>, <<>>, "plain")
  <2> DEFINE line == ((file \o stamp) \o comma) \o body
  <2>1. line \in Seq(Char) /\ file' = line \o newline
        /\ Run(empty, line) = At(done, sofar, last, mode)
    BY <1>7, <1>9, <1>16 DEF sofar, last
  <2> HIDE DEF line
  <2>2. Run(empty, line \o newline) = Run(Run(empty, line), newline)
    BY <1>2, <1>11, <2>1, RunConcat
  <2>3. QED
    BY <1>19, <2>1, <2>2
<1>21. Append(done, Stamped(fields))
          = [i \in DOMAIN rows' |-> Stamped(rows'[i])]
  <2>1. /\ DOMAIN rows' = 1 .. Len(rows) + 1 /\ Len(rows) \in Nat
        /\ \A i \in 1 .. Len(rows) : rows'[i] = rows[i]
        /\ rows'[Len(rows) + 1] = fields
        /\ DOMAIN rows = 1 .. Len(rows)
    BY <1>3
  <2> DEFINE more == Append(done, Stamped(fields))
  <2>2. Stamped(fields) \in Seq(Field)
    BY <1>17, <1>18
  <2>3. /\ DOMAIN more = 1 .. Len(rows) + 1
        /\ \A i \in 1 .. Len(rows) : more[i] = done[i]
        /\ more[Len(rows) + 1] = Stamped(fields)
        /\ more = [i \in DOMAIN more |-> more[i]]
    <3> DEFINE logged == Stamped(fields)
    <3>1. logged \in Seq(Field)
      BY <2>2
    <3> HIDE DEF logged
    <3>2. /\ DOMAIN Append(done, logged) = 1 .. Len(done) + 1
          /\ \A i \in 1 .. Len(done) : Append(done, logged)[i] = done[i]
          /\ Append(done, logged)[Len(done) + 1] = logged
          /\ Append(done, logged)
                = [i \in DOMAIN Append(done, logged) |->
                      Append(done, logged)[i]]
      BY <1>4, <3>1, AppendAsFunction
    <3>3. more = Append(done, logged)
      BY DEF logged
    <3>4. QED
      BY <1>4, <3>2, <3>3 DEF logged
  <2>4. \A i \in 1 .. Len(rows) : done[i] = Stamped(rows[i])
    BY <2>1 DEF done
  <2> HIDE DEF more
  <2>5. QED
    BY <2>1, <2>3, <2>4 DEF more
<1>22. TypeOK'
  <2>1. fields \in Seq(Value) \ {<<>>}
    BY <1>1
  <2>2. rows' \in Seq(Seq(Value) \ {<<>>})
    BY <1>3, <2>1, AppendProperties
  <2>3. QED
    BY <1>3, <1>10, <2>2, EmptySeq DEF TypeOK, Value
<1>23. FileInv'
  BY <1>11, <1>20, <1>21 DEF FileInv
<1>24. StreamInv'
  BY <1>3 DEF StreamInv
<1>25. QED
  BY <1>22, <1>23, <1>24 DEF IndInv

LEMMA NextInv == IndInv /\ [Next]_vars => IndInv'
<1> SUFFICES ASSUME IndInv, [Next]_vars PROVE IndInv'
  OBVIOUS
<1>1. ASSUME NEW text \in Texts, PutText(text) PROVE IndInv'
  <2>1. text \in Value /\ text \in Seq(Char)
    BY ValueIsField DEF Value, Field
  <2>2. PICK body : Quoted(text) = body \o <<Comma>> /\ Spells(body, text)
    BY <2>1, TextSpelt
  <2>3. Put(body \o <<Comma>>, text)
    BY <1>1, <2>2 DEF PutText
  <2>4. QED
    BY <2>1, <2>2, <2>3, PutInv
<1>2. ASSUME NEW numeral \in Numerals, PutInteger(numeral) PROVE IndInv'
  <2>1. numeral \in Value /\ Spells(numeral, numeral)
    BY NumeralSpelt, CharactersAssumption DEF Value
  <2>2. Put(numeral \o <<Comma>>, numeral)
    BY <1>2 DEF PutInteger
  <2>3. QED
    BY <2>1, <2>2, PutInv
<1>3. CASE LogRow
  BY <1>3, LogRowInv
<1>4. CASE UNCHANGED vars
  BY <1>4 DEF vars, IndInv, TypeOK, StreamInv, FileInv
<1>5. QED
  BY <1>1, <1>2, <1>3, <1>4 DEF Next, Done

LEMMA Invariance == Spec => []IndInv
  BY InitInv, NextInv, PTL DEF Spec

\* The stream and the file are texts, and a row under construction has fields
\* exactly if it has characters.
THEOREM TypeCorrect == Spec => []TypeOK
<1>1. IndInv => TypeOK
  BY DEF IndInv
<1>2. QED
  BY <1>1, Invariance, PTL

\* Whatever a source calls itself and however long the file grows, a CSV reader
\* gets the rows back field by field.
THEOREM RowsReadBack == Spec => []RoundTrip
<1>1. IndInv => RoundTrip
  BY DEF IndInv, FileInv, RoundTrip, At
<1>2. QED
  BY <1>1, Invariance, PTL
=============================================================================
