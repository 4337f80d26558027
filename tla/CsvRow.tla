------------------------------- MODULE CsvRow -------------------------------
(***************************************************************************)
(* CsvRow.{h,cpp}: a row is streamed field by field and its string() is    *)
(* logged as one line under the pattern of UniverseMonitor.  A character   *)
(* is a string of length one; Plain are those that mean nothing to CSV.    *)
(***************************************************************************)
EXTENDS Integers, Sequences, SequencesExt

CONSTANTS
    Plain,          \* ordinary characters
    Numerals,       \* what the integers of a row print as
    MaxText,        \* length of a text field
    MaxFields       \* bound: fields in the whole file

Quote == "\""
Comma == ","
Newline == "\n"

ASSUME CharactersAssumption ==
    /\ {Quote, Comma, Newline} \cap Plain = {}
    /\ Numerals \subseteq Seq(Plain) \ {<<>>}
    /\ MaxText \in Nat /\ MaxFields \in Nat

VARIABLES
    stream,         \* stream_ of the row under construction
    file,           \* the log file
    fields, rows    \* history: what was put into the row and into the file

vars == <<stream, file, fields, rows>>

Char == Plain \cup {Quote, Comma, Newline, "t"}
Texts == BoundedSeq(Plain \cup {Quote, Comma, Newline}, MaxText)

Init == stream = <<>> /\ file = <<>> /\ fields = <<>> /\ rows = <<>>

\* An operator<< that does not escape.
Verbatim(c) == <<c>>

\* "Escape quotation mark with additional quotation mark."
Escaped(c) == IF c = Quote THEN <<c, c>> ELSE <<c>>

\* An operator<< that writes nothing for an empty text.
OmittingEmpty(text) ==
    IF text = <<>> THEN <<>> ELSE <<Quote>> \o text \o <<Quote, Comma>>

PutChar(s, c) == s \o Escaped(c)

\* The loop over the characters of a text, after the opening quote.
Escaping(text) ==
    LET sofar[n \in 0 .. Len(text)] ==
            IF n = 0 THEN <<Quote>> ELSE PutChar(sofar[n - 1], text[n])
    IN  sofar[Len(text)]

\* operator<<(const std::string&)
Quoted(text) == Escaping(text) \o <<Quote, Comma>>

\* string()
String(s) == IF s = <<>> THEN s ELSE Front(s)

FieldsSoFar == FoldLeft(LAMBDA n, r : n + Len(r), Len(fields), rows)

Put(chars, value) ==
    /\ FieldsSoFar < MaxFields
    /\ stream' = stream \o chars
    /\ fields' = Append(fields, value)
    /\ UNCHANGED <<file, rows>>

PutText(text) == Put(Quoted(text), text)

\* operator<<(T) of an integer
PutInteger(numeral) == Put(numeral \o <<Comma>>, numeral)

\* The time stamp that kLoggerPattern puts before the row, "%v".
Stamp == <<"t">>

\* info(row.string()): every row that is logged has fields.
LogRow ==
    /\ fields # <<>>
    /\ file' = file \o Stamp \o <<Comma>> \o String(stream) \o <<Newline>>
    /\ rows' = Append(rows, fields)
    /\ stream' = <<>> /\ fields' = <<>>

\* The bound is reached.
Done == FieldsSoFar = MaxFields /\ fields = <<>> /\ UNCHANGED vars

Next ==
    \/ \E text \in Texts : PutText(text)
    \/ \E numeral \in Numerals : PutInteger(numeral)
    \/ LogRow \/ Done

Spec == Init /\ [][Next]_vars

-----------------------------------------------------------------------------
(***************************************************************************)
(* A reader of CSV, character by character: in the plain part of a field,  *)
(* in the quoted part, or after a quote that ends it or is half of a pair. *)
(***************************************************************************)

EndField(r) ==
    [r EXCEPT !.row = Append(@, r.field), !.field = <<>>, !.mode = "plain"]

EndRow(r) ==
    LET ended == EndField(r)
    IN  [ended EXCEPT !.rows = Append(@, ended.row), !.row = <<>>]

Read(r, c) ==
    CASE r.mode = "plain" /\ c = Quote -> [r EXCEPT !.mode = "quoted"]
      [] r.mode = "quoted" /\ c = Quote -> [r EXCEPT !.mode = "ending"]
      [] r.mode = "ending" /\ c = Quote ->
            [r EXCEPT !.mode = "quoted", !.field = Append(@, c)]
      [] r.mode # "quoted" /\ c = Comma -> EndField(r)
      [] r.mode # "quoted" /\ c = Newline -> EndRow(r)
      [] OTHER -> [r EXCEPT !.field = Append(@, c)]

\* The reader that was in state r, after these characters.
Run(r, chars) ==
    LET state[n \in 0 .. Len(chars)] ==
            IF n = 0 THEN r ELSE Read(state[n - 1], chars[n])
    IN  state[Len(chars)]

Reading(chars) ==
    Run([rows |-> <<>>, row |-> <<>>, field |-> <<>>, mode |-> "plain"], chars)

Stamped(row) == <<Stamp>> \o row

\* The shape of the state.
TypeOK ==
    /\ stream \in Seq(Char) /\ file \in Seq(Char)
    /\ fields \in Seq(Texts \cup Numerals)
    /\ rows \in Seq(Seq(Texts \cup Numerals) \ {<<>>})
    /\ stream = <<>> <=> fields = <<>>

\* A CSV reader gets back from the whole file the rows as they were streamed
\* ("Store data in CSV format.", CsvRow.h:29), whatever a source calls itself:
\* quotes, separators and line ends in a name cannot move a field or split a row.
RoundTrip ==
    LET r == Reading(file)
    IN  /\ r.rows = [i \in DOMAIN rows |-> Stamped(rows[i])]
        /\ r.row = <<>> /\ r.field = <<>>
=============================================================================
