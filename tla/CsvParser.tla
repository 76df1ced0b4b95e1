-------------------------------- MODULE CsvParser --------------------------------
(***************************************************************************)
(* CsvParser::parseLine: the automaton that cuts a line into fields.       *)
(*                                                                         *)
(* A line is a sequence of quotes, commas and pieces of other text.  scan  *)
(* holds the locals of the call: index is counted from 1, outcome is       *)
(* "running", "fields" (the call returned fields) or "thrown".             *)
(***************************************************************************)
EXTENDS Integers, SequencesExt

Quote == "quote"
Comma == "comma"

CONSTANT Token     \* the pieces a line consists of, quotes and commas among them

VARIABLE scan

NoScan == [line |-> <<>>, index |-> 1, field |-> <<>>, fields |-> <<>>,
           quoted |-> FALSE, outcome |-> "none"]

Scanning == scan.outcome = "running"

ParseLine(line) == scan' = [NoScan EXCEPT !.line = line, !.outcome = "running"]

AtEnd == scan.index > Len(scan.line)
Current == scan.line[scan.index]

\* Inside quotes, two quotes in a row stand for one.
EscapedQuote ==
  /\ scan.quoted
  /\ scan.index < Len(scan.line) /\ scan.line[scan.index + 1] = Quote

\* Mutated form of ScanQuote: a quote is escaped outside of quotes too.
ScanQuoteAnywhere ==
  /\ Scanning /\ ~AtEnd /\ Current = Quote
  /\ scan' = IF scan.index < Len(scan.line) /\ scan.line[scan.index + 1] = Quote
             THEN [scan EXCEPT !.field = Append(@, Quote), !.index = @ + 2]
             ELSE [scan EXCEPT !.quoted = ~@, !.index = @ + 1]

ScanQuote ==
  /\ Scanning /\ ~AtEnd /\ Current = Quote
  /\ scan' = IF EscapedQuote
             THEN [scan EXCEPT !.field = Append(@, Quote), !.index = @ + 2]
             ELSE [scan EXCEPT !.quoted = ~@, !.index = @ + 1]

ScanComma ==
  /\ Scanning /\ ~AtEnd /\ Current = Comma /\ ~scan.quoted
  /\ scan' = [scan EXCEPT !.fields = Append(@, scan.field), !.field = <<>>,
                          !.index = @ + 1]

ScanText ==
  /\ Scanning /\ ~AtEnd
  /\ Current # Quote /\ ~(Current = Comma /\ ~scan.quoted)
  /\ scan' = [scan EXCEPT !.field = Append(@, Current), !.index = @ + 1]

\* An empty line has one field, which is empty.
ScanEnd ==
  /\ Scanning /\ AtEnd
  /\ scan' = IF scan.quoted
             THEN [scan EXCEPT !.outcome = "thrown"]
             ELSE [scan EXCEPT !.fields = Append(@, scan.field), !.outcome = "fields"]

Scan == ScanQuote \/ ScanComma \/ ScanText \/ ScanEnd

-----------------------------------------------------------------------------
(* What a line says, without an automaton.  A quote changes sides, so a    *)
(* position is inside quotes when an odd number of quotes is before it.    *)

QuotesBefore(line, i) == Cardinality({j \in 1..i - 1 : line[j] = Quote})
Inside(line, i) == QuotesBefore(line, i) % 2 = 1

WellQuoted(line) == ~Inside(line, Len(line) + 1)

IsSeparator(line, i) == line[i] = Comma /\ ~Inside(line, i)

\* A quote is text when it would open again what the quote before it closed.
IsText(line, i) ==
  /\ ~IsSeparator(line, i)
  /\ line[i] = Quote => i > 1 /\ line[i - 1] = Quote /\ ~Inside(line, i)

\* The text of the places from first to last.
FieldOf(line, first, last) ==
  FlattenSeq([k \in 1..last - first + 1 |->
                IF IsText(line, first + k - 1) THEN <<line[first + k - 1]>> ELSE <<>>])

\* The separators up to a place, in order, and the fields between places.
CutsUpTo(line, n) ==
  <<0>> \o FlattenSeq([i \in 1..n |-> IF IsSeparator(line, i) THEN <<i>> ELSE <<>>])

FieldsBetween(line, cuts) ==
  [k \in 1..Len(cuts) - 1 |-> FieldOf(line, cuts[k] + 1, cuts[k + 1] - 1)]

FieldsOf(line) == FieldsBetween(line, Append(CutsUpTo(line, Len(line)), Len(line) + 1))

(* However a line mixes quotes, commas and text, parseLine returns the     *)
(* fields it says and throws exactly for a quote that is not closed.       *)
ParsesWhatIsWritten ==
  scan.outcome \in {"fields", "thrown"} =>
    /\ (scan.outcome = "thrown") = ~WellQuoted(scan.line)
    /\ scan.outcome = "fields" => scan.fields = FieldsOf(scan.line)
=============================================================================
