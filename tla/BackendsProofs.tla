----------------------------- MODULE BackendsProofs -----------------------------
(***************************************************************************)
(* Proofs about CsvParser::parseLine: for any line of any length it gives  *)
(* the fields the line says, or throws because a quote is not closed.      *)
(*                                                                         *)
(* About CsvBackend::execute: over any files and for queries of any        *)
(* nesting it returns the rows the query means, or throws the error it     *)
(* means.  The argument is the invariant ExecutionInv: every activation    *)
(* below the innermost one waits for the answer of the one above, the      *)
(* innermost has made of the rows behind it what its expression makes of   *)
(* them, and what fails in an activation fails the query.                  *)
(*                                                                         *)
(* About SQLiteBackend::execute: it implements AbstractBackend and leaves  *)
(* no statement and no database open.  The argument is SqlInv: where the   *)
(* call is says what is open, each row is still to come or in the result,  *)
(* and a call that leaves has an error the query may give or all the rows. *)
(*                                                                         *)
(* And about the two of them: on the same data they give the same rows.    *)
(* By induction over the query: the relation SQLite has for the text of a  *)
(* query has, in the columns that come through, the rows that the query    *)
(* means to CSVBackend (ComparableAgrees).                                 *)
(***************************************************************************)
EXTENDS Backends, SequenceLemmas, FiniteSetTheorems

-----------------------------------------------------------------------------
(* What the parser's callers do with it: they begin a line and take what   *)
(* the call returned, and in between the call goes on.                     *)

ParserNext ==
  \/ Scan
  \/ ~Scanning /\ \E line \in Seq(Token) : ParseLine(line)
  \/ ~Scanning /\ scan' = NoScan

ParserSpec == scan = NoScan /\ [][ParserNext]_scan

-----------------------------------------------------------------------------
(* Quotes and places.                                                      *)

\* A quote changes sides, and nothing else does.
LEMMA InsideNext ==
  ASSUME NEW line \in Seq(Token), NEW i \in 1..Len(line)
  PROVE  Inside(line, i + 1) <=> (Inside(line, i) <=> line[i] # Quote)
<1> DEFINE Before(n) == {j \in 1..n - 1 : line[j] = Quote}
           old == Before(i)
           new == Before(i + 1)
<1>1. i \in Nat /\ i + 1 \in Nat /\ (i + 1) - 1 = i
  OBVIOUS
<1>2. IsFiniteSet(old) /\ Cardinality(old) \in Nat
  <2>1. IsFiniteSet(1..i - 1)
    BY FS_Interval
  <2>2. IsFiniteSet(old)
    BY <2>1, FS_Subset
  <2> QED BY <2>2, FS_CardinalityType
<1>3. new = IF line[i] = Quote THEN old \cup {i} ELSE old
  <2>1. \A j : j \in 1..i <=> j \in 1..i - 1 \/ j = i
    OBVIOUS
  <2> QED BY <1>1, <2>1
<1>4. i \notin old
  OBVIOUS
<1>5. Cardinality(new) = IF line[i] = Quote THEN Cardinality(old) + 1 ELSE Cardinality(old)
  <2> HIDE DEF old, new
  <2>1. Cardinality(old \cup {i}) = Cardinality(old) + 1
    BY <1>2, <1>4, FS_AddElement
  <2> QED BY <1>3, <2>1
<1>6. QuotesBefore(line, i) = Cardinality(old) /\ QuotesBefore(line, i + 1) = Cardinality(new)
  BY DEF QuotesBefore
<1> HIDE DEF old, new
<1>7. \A n \in Nat : (n + 1) % 2 = 1 <=> n % 2 # 1
  OBVIOUS
<1> QED BY <1>2, <1>5, <1>6, <1>7 DEF Inside

LEMMA InsideFirst ==
  ASSUME NEW line PROVE ~Inside(line, 1)
<1>1. {j \in 1..1 - 1 : line[j] = Quote} = {}
  OBVIOUS
<1>2. QuotesBefore(line, 1) = 0
  BY <1>1, FS_EmptySet DEF QuotesBefore
<1> QED BY <1>2 DEF Inside

\* Flattened parts, and one part more.
LEMMA FlattenOneMore ==
  ASSUME NEW S, NEW n \in Nat, NEW f, \A k \in 1..n + 1 : f[k] \in Seq(S)
  PROVE  /\ FlattenSeq([k \in 1..n |-> f[k]]) \in Seq(S)
         /\ FlattenSeq([k \in 1..n + 1 |-> f[k]]) = FlattenSeq([k \in 1..n |-> f[k]]) \o f[n + 1]
<1> DEFINE Line == Seq(S)
           m == n + 1
           old == [k \in 1..n |-> f[k]]
           new == [k \in 1..m |-> f[k]]
           part == f[m]
           longer == Append(old, part)
<1>1. part \in Line /\ m \in Nat /\ m = n + 1
  OBVIOUS
<1>2. \A k \in 1..m : f[k] \in Line
  OBVIOUS
<1>3. \A k \in 1..m : k \in 1..n \/ k = m
  OBVIOUS
<1>4. \A k \in 1..n : k \in 1..m
  OBVIOUS
<1> HIDE DEF Line, m
<1>5. old \in Seq(Line) /\ Len(old) = n /\ \A k \in 1..n : old[k] = f[k]
  BY <1>2, <1>4
<1>6. new \in Seq(Line) /\ Len(new) = m /\ \A k \in 1..m : new[k] = f[k]
  BY <1>1, <1>2
<1> HIDE DEF old, new, part
<1>7. /\ longer \in Seq(Line) /\ Len(longer) = m
      /\ \A k \in 1..n : longer[k] = old[k]
      /\ longer[m] = part
  BY <1>1, <1>5, AppendItems
<1> HIDE DEF longer
<1>8. \A k \in 1..m : longer[k] = new[k]
  BY <1>3, <1>5, <1>6, <1>7 DEF part
<1>9. longer = new
  BY <1>6, <1>7, <1>8, SameItems
<1>10. FlattenSeq(old) \in Seq(S)
  BY <1>5, FlattenType DEF Line
<1>11. FlattenSeq(longer) = FlattenSeq(old) \o part
  BY <1>1, <1>5, FlattenAppend DEF Line, longer
<1> QED BY <1>9, <1>10, <1>11 DEF old, new, part, m

\* The field between two places, when the second moves on.
LEMMA FieldLonger ==
  ASSUME NEW line \in Seq(Token), NEW first \in 1..Len(line), NEW place \in first..Len(line)
  PROVE  /\ FieldOf(line, first, place - 1) \in Seq(Token)
         /\ FieldOf(line, first, place) =
              IF IsText(line, place) THEN Append(FieldOf(line, first, place - 1), line[place])
              ELSE FieldOf(line, first, place - 1)
<1> DEFINE size == place - first
           f == [k \in 1..size + 1 |->
                   IF IsText(line, first + k - 1) THEN <<line[first + k - 1]>> ELSE <<>>]
           old == FlattenSeq([k \in 1..size |-> f[k]])
           new == FlattenSeq([k \in 1..size + 1 |-> f[k]])
           part == f[size + 1]
<1>1. size \in Nat /\ (place - 1) - first + 1 = size /\ place - first + 1 = size + 1
  OBVIOUS
<1>2. \A k \in 1..size + 1 : f[k] \in Seq(Token)
  <2> SUFFICES ASSUME NEW k \in 1..size + 1 PROVE f[k] \in Seq(Token)
    OBVIOUS
  <2>1. first + k - 1 \in 1..Len(line)
    OBVIOUS
  <2>2. line[first + k - 1] \in Token
    BY <2>1
  <2>3. f[k] = IF IsText(line, first + k - 1) THEN <<line[first + k - 1]>> ELSE <<>>
    OBVIOUS
  <2> QED BY <2>2, <2>3
<1>3. part = IF IsText(line, place) THEN <<line[place]>> ELSE <<>>
  <2>1. first + (size + 1) - 1 = place /\ size + 1 \in 1..size + 1
    BY <1>1
  <2> QED BY <2>1
<1>4. FieldOf(line, first, place - 1) = old
  <2>1. \A k \in 1..size : k \in 1..size + 1
    BY <1>1
  <2>2. [k \in 1..size |-> f[k]] =
         [k \in 1..size |->
            IF IsText(line, first + k - 1) THEN <<line[first + k - 1]>> ELSE <<>>]
    BY <2>1
  <2> QED BY <1>1, <2>2 DEF FieldOf
<1>5. FieldOf(line, first, place) = new
  BY <1>1 DEF FieldOf
<1> HIDE DEF f, size
<1>6. old \in Seq(Token) /\ new = old \o part
  BY <1>1, <1>2, FlattenOneMore
<1> HIDE DEF old, new, part
<1>7. line[place] \in Token
  OBVIOUS
<1>8. old \o <<line[place]>> = Append(old, line[place]) /\ old \o <<>> = old
  BY <1>6, <1>7, AppendConcat, ConcatEmpty
<1> QED BY <1>3, <1>4, <1>5, <1>6, <1>8

LEMMA FieldStarts ==
  ASSUME NEW line, NEW first \in Nat PROVE FieldOf(line, first, first - 1) = <<>>
<1>1. (first - 1) - first + 1 = 0
  OBVIOUS
<1>2. FieldOf(line, first, first - 1) = FlattenSeq(<<>>)
  BY <1>1 DEF FieldOf
<1> QED BY <1>2, FlattenEmpty

\* The places of separators, when one place more is looked at.
LEMMA CutsLonger ==
  ASSUME NEW line, NEW n \in Nat
  PROVE  /\ CutsUpTo(line, n) \in Seq(Nat) /\ CutsUpTo(line, n) # <<>>
         /\ CutsUpTo(line, n + 1) =
              IF IsSeparator(line, n + 1) THEN Append(CutsUpTo(line, n), n + 1)
              ELSE CutsUpTo(line, n)
<1> DEFINE m == n + 1
           f == [k \in 1..m |-> IF IsSeparator(line, k) THEN <<k>> ELSE <<>>]
           old == FlattenSeq([k \in 1..n |-> f[k]])
           new == FlattenSeq([k \in 1..m |-> f[k]])
           part == f[m]
           start == <<0>>
<1>1. m \in Nat /\ m \in 1..m /\ \A k \in 1..n : k \in 1..m
  OBVIOUS
<1>2. \A k \in 1..m : f[k] \in Seq(Nat)
  OBVIOUS
<1>3. part = IF IsSeparator(line, m) THEN <<m>> ELSE <<>>
  BY <1>1
<1>4. CutsUpTo(line, n) = start \o old
  <2>1. [k \in 1..n |-> f[k]] = [k \in 1..n |-> IF IsSeparator(line, k) THEN <<k>> ELSE <<>>]
    BY <1>1
  <2> QED BY <2>1 DEF CutsUpTo
<1>5. CutsUpTo(line, m) = start \o new
  BY DEF CutsUpTo
<1> HIDE DEF f
<1>6. old \in Seq(Nat) /\ new = old \o part
  <2> DEFINE Place == Nat
  <2>1. \A k \in 1..n + 1 : f[k] \in Seq(Place)
    BY <1>2
  <2> HIDE DEF Place
  <2>2. old \in Seq(Place) /\ new = old \o part
    BY <2>1, FlattenOneMore, Zenon
  <2> QED BY <2>2 DEF Place
<1>7. start \in Seq(Nat) /\ start # <<>>
  OBVIOUS
<1> HIDE DEF old, new, part, start, m
<1>8. start \o old \in Seq(Nat) /\ start \o old # <<>>
  BY <1>6, <1>7, ConcatItems, ConcatIsEmpty
<1>9. part \in Seq(Nat) /\ (start \o old) \o part = start \o (old \o part)
  <2>1. part \in Seq(Nat)
    BY <1>1, <1>3
  <2> DEFINE Place == Nat
  <2>2. start \in Seq(Place) /\ old \in Seq(Place) /\ part \in Seq(Place)
    BY <1>6, <1>7, <2>1
  <2> HIDE DEF Place
  <2>3. (start \o old) \o part = start \o (old \o part)
    BY <2>2, ConcatAssociative
  <2> QED BY <2>1, <2>3
<1>10. (start \o old) \o <<m>> = Append(start \o old, m) /\ (start \o old) \o <<>> = start \o old
  BY <1>1, <1>8, AppendConcat, ConcatEmpty
<1> QED BY <1>3, <1>4, <1>5, <1>6, <1>8, <1>9, <1>10 DEF m

LEMMA CutsStart ==
  ASSUME NEW line PROVE CutsUpTo(line, 0) = <<0>>
<1>1. CutsUpTo(line, 0) = <<0>> \o FlattenSeq(<<>>)
  BY DEF CutsUpTo
<1> QED BY <1>1, FlattenEmpty

\* One cut more is one field more.
LEMMA FieldsLonger ==
  ASSUME NEW line, NEW cuts \in Seq(Nat), cuts # <<>>, NEW place \in Nat
  PROVE  FieldsBetween(line, Append(cuts, place)) =
           Append(FieldsBetween(line, cuts), FieldOf(line, cuts[Len(cuts)] + 1, place - 1))
<1> DEFINE n == Len(cuts)
           longer == Append(cuts, place)
           Field(s, k) == FieldOf(line, s[k] + 1, s[k + 1] - 1)
           old == [k \in 1..n - 1 |-> Field(cuts, k)]
           new == [k \in 1..n |-> Field(longer, k)]
           field == FieldOf(line, cuts[n] + 1, place - 1)
<1>1. n \in Nat /\ n >= 1 /\ (n + 1) - 1 = n /\ (n - 1) + 1 = n
  OBVIOUS
<1>2. Len(longer) = n + 1 /\ longer[n + 1] = place /\ \A k \in 1..n : longer[k] = cuts[k]
  OBVIOUS
<1>3. FieldsBetween(line, cuts) = old
  BY DEF FieldsBetween
<1>4. FieldsBetween(line, longer) = new
  <2>1. Len(longer) - 1 = n
    BY <1>1, <1>2
  <2> HIDE DEF longer
  <2> QED BY <2>1 DEF FieldsBetween
<1>5. \A k \in 1..n - 1 : new[k] = old[k]
  <2>1. \A k \in 1..n - 1 : k \in 1..n /\ k + 1 \in 1..n
    BY <1>1
  <2> HIDE DEF longer
  <2> QED BY <1>2, <2>1
<1>6. new[n] = field
  <2>1. n \in 1..n
    BY <1>1
  <2> HIDE DEF longer
  <2> QED BY <1>2, <2>1
<1>7. Len(old) = n - 1 /\ DOMAIN new = 1..n
  BY <1>1
<1> DEFINE All == {new[k] : k \in 1..n}
<1>8. new \in Seq(All) /\ Len(new) = n /\ field \in All
  <2>1. \A k \in 1..n : new[k] \in All
    OBVIOUS
  <2>2. n \in 1..n
    BY <1>1
  <2>3. new = [k \in 1..n |-> new[k]]
    OBVIOUS
  <2> HIDE DEF All, new, field
  <2>4. new \in Seq(All) /\ Len(new) = n
    BY <1>1, <2>1, <2>3
  <2> QED BY <1>6, <2>1, <2>2, <2>4
<1>9. old \in Seq(All)
  <2>1. \A k \in 1..n - 1 : old[k] \in All
    <3>1. \A k \in 1..n - 1 : k \in 1..n
      BY <1>1
    <3> QED BY <1>5, <3>1
  <2> HIDE DEF All
  <2> QED BY <1>1, <2>1
<1> HIDE DEF All, old, new, field, longer, n
<1>10. /\ Append(old, field) \in Seq(All) /\ Len(Append(old, field)) = n
       /\ \A k \in 1..n - 1 : Append(old, field)[k] = old[k]
       /\ Append(old, field)[n] = field
  BY <1>1, <1>7, <1>8, <1>9, AppendItems
<1>11. \A k \in 1..n : k \in 1..n - 1 \/ k = n
  BY <1>1
<1>12. \A k \in 1..n : Append(old, field)[k] = new[k]
  BY <1>5, <1>6, <1>10, <1>11
<1>13. Append(old, field) = new
  BY <1>8, <1>10, <1>12, SameItems
<1> QED BY <1>3, <1>4, <1>13 DEF longer, field, n

-----------------------------------------------------------------------------
(* The automaton.                                                          *)

(* After the first n places of a line: fields are those that a separator   *)
(* has ended, field is the text since.                                     *)
Seen(line, n, field, fields) ==
  LET cuts == CutsUpTo(line, n) IN
  /\ cuts[Len(cuts)] \in 0..n
  /\ fields = FieldsBetween(line, cuts)
  /\ field = FieldOf(line, cuts[Len(cuts)] + 1, n)

LEMMA NothingSeen ==
  ASSUME NEW line PROVE Seen(line, 0, <<>>, <<>>)
<1> DEFINE start == <<0>>
<1>1. CutsUpTo(line, 0) = start
  BY CutsStart
<1>2. Len(start) = 1 /\ start[Len(start)] = 0
  OBVIOUS
<1> HIDE DEF start
<1>3. FieldsBetween(line, start) = <<>>
  BY <1>2 DEF FieldsBetween
<1>4. FieldOf(line, 0 + 1, 0) = <<>>
  <2>1. FieldOf(line, 1, 1 - 1) = <<>>
    BY FieldStarts
  <2> QED BY <2>1
<1> QED BY <1>1, <1>2, <1>3, <1>4 DEF Seen

LEMMA SeenNext ==
  ASSUME NEW line \in Seq(Token), NEW n \in Nat, NEW next \in 1..Len(line), next = n + 1,
         NEW field, NEW fields, Seen(line, n, field, fields)
  PROVE  /\ field \in Seq(Token)
         /\ IsSeparator(line, next) => Seen(line, next, <<>>, Append(fields, field))
         /\ ~IsSeparator(line, next) =>
              Seen(line, next,
                   IF IsText(line, next) THEN Append(field, line[next]) ELSE field, fields)
<1> DEFINE cuts == CutsUpTo(line, n)
           more == CutsUpTo(line, next)
           first == cuts[Len(cuts)] + 1
<1>1. /\ cuts \in Seq(Nat) /\ cuts # <<>>
      /\ more = IF IsSeparator(line, next) THEN Append(cuts, next) ELSE cuts
  BY CutsLonger
<1>2. /\ cuts[Len(cuts)] \in 0..n /\ fields = FieldsBetween(line, cuts)
      /\ field = FieldOf(line, first, n)
  BY DEF Seen
<1>3. first \in 1..Len(line) /\ next \in first..Len(line) /\ next - 1 = n
  BY <1>2
<1>4. /\ field \in Seq(Token)
      /\ FieldOf(line, first, next) =
           IF IsText(line, next) THEN Append(field, line[next]) ELSE field
  <2> HIDE DEF first
  <2>1. /\ FieldOf(line, first, next - 1) \in Seq(Token)
        /\ FieldOf(line, first, next) =
             IF IsText(line, next) THEN Append(FieldOf(line, first, next - 1), line[next])
             ELSE FieldOf(line, first, next - 1)
    BY <1>3, FieldLonger
  <2> QED BY <1>2, <1>3, <2>1
<1>5. ASSUME IsSeparator(line, next)
      PROVE  Seen(line, next, <<>>, Append(fields, field))
  <2>1. more = Append(cuts, next)
    BY <1>1, <1>5
  <2>2. Len(more) = Len(cuts) + 1 /\ more[Len(more)] = next
    BY <1>1, <2>1
  <2>3. FieldsBetween(line, more) = Append(fields, FieldOf(line, first, next - 1))
    <3>1. next \in Nat
      OBVIOUS
    <3> HIDE DEF cuts, more
    <3> QED BY <1>1, <1>2, <2>1, <3>1, FieldsLonger
  <2>4. FieldOf(line, next + 1, next) = <<>>
    <3> DEFINE place == next + 1
    <3>1. place \in Nat /\ place - 1 = next
      OBVIOUS
    <3> HIDE DEF place
    <3>2. FieldOf(line, place, place - 1) = <<>>
      BY <3>1, FieldStarts
    <3> QED BY <3>1, <3>2 DEF place
  <2>5. more[Len(more)] \in 0..next
    BY <2>2
  <2> HIDE DEF cuts, more, first
  <2>6. FieldsBetween(line, more) = Append(fields, field)
    BY <1>2, <1>3, <2>3
  <2> QED BY <2>2, <2>4, <2>5, <2>6 DEF Seen, more
<1>6. ASSUME ~IsSeparator(line, next)
      PROVE  Seen(line, next,
                  IF IsText(line, next) THEN Append(field, line[next]) ELSE field, fields)
  <2>1. more = cuts
    BY <1>1, <1>6
  <2>2. cuts[Len(cuts)] \in 0..next
    BY <1>2
  <2> QED BY <1>2, <1>4, <2>1, <2>2 DEF Seen
<1> QED BY <1>4, <1>5, <1>6

LEMMA AllSeen ==
  ASSUME NEW line \in Seq(Token), NEW field, NEW fields, Seen(line, Len(line), field, fields)
  PROVE  Append(fields, field) = FieldsOf(line)
<1> DEFINE n == Len(line)
           end == n + 1
           cuts == CutsUpTo(line, n)
<1>1. n \in Nat /\ end \in Nat /\ end - 1 = n
  OBVIOUS
<1>2. cuts \in Seq(Nat) /\ cuts # <<>>
  <2> HIDE DEF n
  <2> QED BY <1>1, CutsLonger
<1>3. fields = FieldsBetween(line, cuts) /\ field = FieldOf(line, cuts[Len(cuts)] + 1, n)
  BY DEF Seen
<1>4. FieldsOf(line) = FieldsBetween(line, Append(cuts, end))
  BY DEF FieldsOf
<1> HIDE DEF n, end, cuts
<1>5. FieldsBetween(line, Append(cuts, end)) =
        Append(FieldsBetween(line, cuts), FieldOf(line, cuts[Len(cuts)] + 1, end - 1))
  BY <1>1, <1>2, FieldsLonger
<1> QED BY <1>1, <1>3, <1>4, <1>5

Scans == [line : Seq(Token), index : Nat, field : Seq(Token), fields : Seq(Seq(Token)),
          quoted : BOOLEAN, outcome : {"none", "running", "fields", "thrown"}]

(* A call that is running knows on which side of the quotes it is, has the *)
(* text of the places it has passed, and, outside, is not between two      *)
(* quotes: it would have taken them for one.                               *)
Goes(s) ==
  /\ s.index \in 1..Len(s.line) + 1
  /\ s.quoted <=> Inside(s.line, s.index)
  /\ Seen(s.line, s.index - 1, s.field, s.fields)
  /\ ~s.quoted /\ s.index \in 2..Len(s.line) /\ s.line[s.index - 1] = Quote
       => s.line[s.index] # Quote

Parses(s) ==
  /\ s \in Scans
  /\ s.outcome = "running" => Goes(s)
  /\ s.outcome = "thrown" => ~WellQuoted(s.line)
  /\ s.outcome = "fields" => WellQuoted(s.line) /\ s.fields = FieldsOf(s.line)

LEMMA NoScanParses == Parses(NoScan)
<1>1. NoScan.outcome = "none"
  BY DEF NoScan
<1>2. NoScan \in Scans
  BY DEF NoScan, Scans
<1> QED BY <1>1, <1>2 DEF Parses

LEMMA ParseLineParses ==
  ASSUME NEW line \in Seq(Token), ParseLine(line)
  PROVE  Parses(scan')
<1> DEFINE s == [NoScan EXCEPT !.line = line, !.outcome = "running"]
<1>1. /\ NoScan \in Scans
      /\ NoScan.index = 1 /\ NoScan.field = <<>> /\ NoScan.fields = <<>> /\ NoScan.quoted = FALSE
  BY NoScanParses DEF Parses, NoScan
<1>2. /\ s.line = line /\ s.index = 1 /\ s.field = <<>> /\ s.fields = <<>>
      /\ s.quoted = FALSE /\ s.outcome = "running"
  BY <1>1 DEF Scans
<1>3. s \in Scans
  BY <1>1 DEF Scans
<1> HIDE DEF s
<1>4. Goes(s)
  <2>1. Seen(line, 1 - 1, <<>>, <<>>)
    BY NothingSeen
  <2>2. 1 \in 1..Len(line) + 1 /\ 1 \notin 2..Len(line)
    OBVIOUS
  <2> QED BY <1>2, <2>1, <2>2, InsideFirst DEF Goes
<1>5. scan' = s
  BY DEF ParseLine, s
<1> QED BY <1>2, <1>3, <1>4, <1>5 DEF Parses

\* What a call has passed, taking the place it is at.
LEMMA PlaceTaken ==
  ASSUME Parses(scan), Scanning, ~AtEnd
  PROVE  /\ scan.line \in Seq(Token) /\ scan.index \in 1..Len(scan.line)
         /\ scan.field \in Seq(Token) /\ scan.fields \in Seq(Seq(Token))
         /\ scan.quoted \in BOOLEAN
         /\ scan.quoted <=> Inside(scan.line, scan.index)
         /\ Inside(scan.line, scan.index + 1) <=> (scan.quoted <=> Current # Quote)
         /\ Current \in Token
         /\ IsSeparator(scan.line, scan.index) <=> Current = Comma /\ ~scan.quoted
         /\ IsSeparator(scan.line, scan.index) =>
              Seen(scan.line, scan.index, <<>>, Append(scan.fields, scan.field))
         /\ ~IsSeparator(scan.line, scan.index) =>
              Seen(scan.line, scan.index,
                   IF IsText(scan.line, scan.index) THEN Append(scan.field, Current)
                   ELSE scan.field, scan.fields)
<1> DEFINE line == scan.line
           i == scan.index
           n == i - 1
<1>1. scan \in Scans /\ Goes(scan)
  BY DEF Parses, Scanning
<1>2. /\ line \in Seq(Token) /\ scan.field \in Seq(Token) /\ scan.fields \in Seq(Seq(Token))
      /\ scan.quoted \in BOOLEAN /\ i \in Nat
  BY <1>1 DEF Scans
<1>3. i \in 1..Len(line)
  BY <1>1, <1>2 DEF Goes, AtEnd
<1>4. n \in Nat /\ i = n + 1
  BY <1>3
<1>5. Seen(line, n, scan.field, scan.fields) /\ (scan.quoted <=> Inside(line, i))
  BY <1>1 DEF Goes
<1>6. Current = line[i] /\ Current \in Token
  BY <1>2, <1>3 DEF Current
<1> HIDE DEF line, i, n
<1>7. Inside(line, i + 1) <=> (Inside(line, i) <=> line[i] # Quote)
  BY <1>2, <1>3, InsideNext
<1>8. /\ IsSeparator(line, i) => Seen(line, i, <<>>, Append(scan.fields, scan.field))
      /\ ~IsSeparator(line, i) =>
           Seen(line, i, IF IsText(line, i) THEN Append(scan.field, line[i]) ELSE scan.field,
                scan.fields)
  BY <1>2, <1>3, <1>4, <1>5, SeenNext
<1>9. IsSeparator(line, i) <=> line[i] = Comma /\ ~scan.quoted
  BY <1>5 DEF IsSeparator
<1> QED BY <1>2, <1>3, <1>5, <1>6, <1>7, <1>8, <1>9 DEF line, i

LEMMA QuoteParses ==
  ASSUME Parses(scan), ScanQuote
  PROVE  Parses(scan')
<1> DEFINE line == scan.line
           i == scan.index
<1>1. /\ line \in Seq(Token) /\ i \in 1..Len(line)
      /\ scan.field \in Seq(Token) /\ scan.fields \in Seq(Seq(Token)) /\ scan.quoted \in BOOLEAN
      /\ scan.quoted <=> Inside(line, i)
      /\ Inside(line, i + 1) <=> ~scan.quoted
      /\ line[i] = Quote /\ line[i] \in Token
      /\ ~IsSeparator(line, i)
      /\ Seen(line, i, IF IsText(line, i) THEN Append(scan.field, line[i]) ELSE scan.field,
              scan.fields)
  <2>1. Current = Quote /\ Current # Comma /\ Scanning /\ ~AtEnd
    BY DEF ScanQuote, Quote, Comma
  <2> QED BY <2>1, PlaceTaken DEF Current
<1>2. scan \in Scans /\ Goes(scan) /\ scan.outcome = "running"
  BY DEF Parses, ScanQuote, Scanning
<1>3. Len(line) \in Nat /\ i \in Nat
  BY <1>1
\* It is no text: inside it closes, and outside no quote is before it.
<1>4. Seen(line, i, scan.field, scan.fields)
  <2>1. ~IsText(line, i)
    BY <1>1, <1>2, <1>3 DEF IsText, Goes
  <2> QED BY <1>1, <2>1
<1>5. CASE EscapedQuote
  <2> DEFINE next == i + 1
             after == [scan EXCEPT !.field = Append(@, Quote), !.index = @ + 2]
  <2>1. scan.quoted /\ next \in 1..Len(line) /\ line[next] = Quote
    BY <1>1, <1>3, <1>5 DEF EscapedQuote
  <2>2. /\ after \in Scans /\ after.line = line /\ after.index = next + 1
        /\ after.field = Append(scan.field, Quote) /\ after.fields = scan.fields
        /\ after.quoted = scan.quoted /\ after.outcome = "running"
    <3>1. Append(scan.field, Quote) \in Seq(Token)
      BY <1>1
    <3> DEFINE longer == Append(scan.field, Quote)
               place == i + 2
    <3>2. after = [scan EXCEPT !.field = longer, !.index = place] /\ place \in Nat /\ place = next + 1
      BY <1>3
    <3> HIDE DEF longer, place, after, next
    <3> QED BY <1>2, <3>1, <3>2 DEF Scans, longer
  <2>3. scan' = after
    BY <1>5 DEF ScanQuote
  <2>4. next = i + 1
    OBVIOUS
  <2>5. /\ next - 1 = i /\ (next + 1) - 1 = next /\ next > 1
        /\ next + 1 \in 1..Len(line) + 1
    BY <1>1, <1>3, <2>1
  <2> HIDE DEF after, next, line, i
  <2>6. ~Inside(line, next)
    BY <1>1, <2>1, <2>4
  <2>7. ~IsSeparator(line, next)
    BY <2>1 DEF IsSeparator, Quote, Comma
  <2>8. IsText(line, next)
    BY <1>1, <2>1, <2>5, <2>6, <2>7 DEF IsText
  <2>9. Seen(line, next, Append(scan.field, Quote), scan.fields)
    BY <1>1, <1>3, <1>4, <2>1, <2>4, <2>7, <2>8, SeenNext
  <2>10. Inside(line, next + 1)
    BY <1>1, <2>1, <2>6, InsideNext
  <2>11. Goes(after)
    BY <2>1, <2>2, <2>5, <2>9, <2>10 DEF Goes
  <2> QED BY <2>2, <2>3, <2>11 DEF Parses
<1>6. CASE ~EscapedQuote
  <2> DEFINE next == i + 1
             flipped == ~scan.quoted
             after == [scan EXCEPT !.quoted = ~@, !.index = @ + 1]
  <2>1. /\ after \in Scans /\ after.line = line /\ after.index = next
        /\ after.field = scan.field /\ after.fields = scan.fields
        /\ after.quoted = flipped /\ after.outcome = "running"
    <3>1. flipped \in BOOLEAN /\ next \in Nat
      BY <1>3
    <3>2. after = [scan EXCEPT !.quoted = flipped, !.index = next]
      OBVIOUS
    <3> HIDE DEF flipped, next, after
    <3> QED BY <1>2, <3>1, <3>2 DEF Scans
  <2>2. (after.quoted <=> ~scan.quoted) /\ after.quoted \in BOOLEAN
    BY <2>1
  <2>3. scan' = after
    BY <1>6 DEF ScanQuote
  <2>4. next - 1 = i /\ next \in 1..Len(line) + 1
    BY <1>1, <1>3
  <2>5. scan.quoted /\ next \in 2..Len(line) => line[next] # Quote
    BY <1>1, <1>3, <1>6 DEF EscapedQuote
  <2>6. Inside(line, next) <=> ~scan.quoted
    BY <1>1
  <2> HIDE DEF after, next, line, i
  <2>7. Goes(after)
    BY <1>1, <1>4, <2>1, <2>2, <2>4, <2>5, <2>6 DEF Goes
  <2> QED BY <2>1, <2>3, <2>7 DEF Parses
<1> QED BY <1>5, <1>6

LEMMA CommaParses ==
  ASSUME Parses(scan), ScanComma
  PROVE  Parses(scan')
<1> DEFINE line == scan.line
           next == scan.index + 1
           longer == Append(scan.fields, scan.field)
           after == [scan EXCEPT !.fields = Append(@, scan.field), !.field = <<>>, !.index = @ + 1]
<1>1. /\ line \in Seq(Token) /\ scan.index \in 1..Len(line)
      /\ scan.field \in Seq(Token) /\ scan.fields \in Seq(Seq(Token))
      /\ scan.quoted \in BOOLEAN
      /\ Inside(line, next) <=> scan.quoted
      /\ ~scan.quoted /\ line[scan.index] = Comma
      /\ Seen(line, scan.index, <<>>, longer)
  <2>1. Current = Comma /\ Current # Quote /\ Scanning /\ ~AtEnd /\ ~scan.quoted
    BY DEF ScanComma, Quote, Comma
  <2> QED BY <2>1, PlaceTaken DEF Current
<1>2. scan \in Scans /\ scan.outcome = "running"
  BY DEF Parses, ScanComma, Scanning
<1>3. next \in Nat /\ next - 1 = scan.index /\ next \in 1..Len(line) + 1
  BY <1>1
<1>4. longer \in Seq(Seq(Token)) /\ <<>> \in Seq(Token)
  <2> DEFINE Line == Seq(Token)
  <2>1. scan.fields \in Seq(Line) /\ scan.field \in Line
    BY <1>1
  <2> HIDE DEF Line
  <2>2. longer \in Seq(Line)
    BY <2>1
  <2> QED BY <2>2 DEF Line
<1>5. scan' = after
  BY DEF ScanComma
<1>6. after = [scan EXCEPT !.fields = longer, !.field = <<>>, !.index = next]
  OBVIOUS
<1> HIDE DEF after, longer
<1>7. /\ after \in Scans /\ after.line = line /\ after.index = next
      /\ after.field = <<>> /\ after.fields = longer
      /\ after.quoted = scan.quoted /\ after.outcome = "running"
  <2> DEFINE none == <<>>
  <2>1. none \in Seq(Token) /\ after = [scan EXCEPT !.fields = longer, !.field = none, !.index = next]
    BY <1>4, <1>6
  <2> HIDE DEF none, next
  <2>2. /\ after \in Scans /\ after.line = line /\ after.index = next
        /\ after.field = none /\ after.fields = longer
        /\ after.quoted = scan.quoted /\ after.outcome = "running"
    BY <1>2, <1>3, <1>4, <2>1 DEF Scans
  <2> QED BY <2>2 DEF none
<1>8. line[next - 1] # Quote
  BY <1>1, <1>3 DEF Quote, Comma
<1> HIDE DEF line, next
<1>9. Goes(after)
  BY <1>1, <1>3, <1>7, <1>8 DEF Goes
<1> QED BY <1>5, <1>7, <1>9 DEF Parses

LEMMA TextParses ==
  ASSUME Parses(scan), ScanText
  PROVE  Parses(scan')
<1> DEFINE line == scan.line
           next == scan.index + 1
           longer == Append(scan.field, Current)
           after == [scan EXCEPT !.field = Append(@, Current), !.index = @ + 1]
<1>1. /\ line \in Seq(Token) /\ scan.index \in 1..Len(line)
      /\ scan.field \in Seq(Token) /\ Current \in Token /\ scan.quoted \in BOOLEAN
      /\ Inside(line, next) <=> scan.quoted
      /\ line[scan.index] # Quote
      /\ ~IsSeparator(line, scan.index)
      /\ Seen(line, scan.index,
              IF IsText(line, scan.index) THEN longer ELSE scan.field, scan.fields)
  <2>1. Current # Quote /\ ~(Current = Comma /\ ~scan.quoted) /\ Scanning /\ ~AtEnd
    BY DEF ScanText
  <2> QED BY <2>1, PlaceTaken DEF Current
<1>2. scan \in Scans /\ scan.outcome = "running"
  BY DEF Parses, ScanText, Scanning
<1>3. next \in Nat /\ next - 1 = scan.index /\ next \in 1..Len(line) + 1
  BY <1>1
<1>4. longer \in Seq(Token)
  BY <1>1
<1>5. Seen(line, scan.index, longer, scan.fields)
  <2>1. IsText(line, scan.index)
    BY <1>1 DEF IsText
  <2> QED BY <1>1, <2>1
<1>6. scan' = after
  BY DEF ScanText
<1>7. after = [scan EXCEPT !.field = longer, !.index = next]
  OBVIOUS
<1> HIDE DEF after, longer, next
<1>8. /\ after \in Scans /\ after.line = line /\ after.index = next
      /\ after.field = longer /\ after.fields = scan.fields
      /\ after.quoted = scan.quoted /\ after.outcome = "running"
  BY <1>2, <1>3, <1>4, <1>7 DEF Scans
<1> HIDE DEF line
<1>9. Goes(after)
  BY <1>1, <1>3, <1>5, <1>8 DEF Goes
<1> QED BY <1>6, <1>8, <1>9 DEF Parses

LEMMA EndParses ==
  ASSUME Parses(scan), ScanEnd
  PROVE  Parses(scan')
<1> DEFINE line == scan.line
<1>1. scan \in Scans /\ Goes(scan) /\ scan.outcome = "running"
  BY DEF Parses, ScanEnd, Scanning
<1>2. /\ line \in Seq(Token) /\ Len(line) \in Nat /\ scan.fields \in Seq(Seq(Token))
      /\ scan.field \in Seq(Token) /\ scan.index \in Nat
  BY <1>1 DEF Scans
<1>3. scan.index = Len(line) + 1 /\ scan.index - 1 = Len(line)
  BY <1>1, <1>2 DEF Goes, ScanEnd, AtEnd
<1>4. scan.quoted <=> ~WellQuoted(line)
  BY <1>1, <1>3 DEF Goes, WellQuoted
<1>5. CASE scan.quoted
  <2> DEFINE after == [scan EXCEPT !.outcome = "thrown"]
  <2>1. after \in Scans /\ after.line = line /\ after.outcome = "thrown"
    BY <1>1 DEF Scans
  <2>2. scan' = after
    BY <1>5 DEF ScanEnd
  <2> QED BY <1>4, <1>5, <2>1, <2>2 DEF Parses
<1>6. CASE ~scan.quoted
  <2> DEFINE longer == Append(scan.fields, scan.field)
             after == [scan EXCEPT !.fields = Append(@, scan.field), !.outcome = "fields"]
  <2>1. longer = FieldsOf(line)
    BY <1>1, <1>2, <1>3, AllSeen DEF Goes
  <2>2. longer \in Seq(Seq(Token))
    <3> DEFINE Line == Seq(Token)
    <3>1. scan.fields \in Seq(Line) /\ scan.field \in Line
      BY <1>2
    <3> HIDE DEF Line
    <3>2. longer \in Seq(Line)
      BY <3>1
    <3> QED BY <3>2 DEF Line
  <2>3. scan' = after /\ after = [scan EXCEPT !.fields = longer, !.outcome = "fields"]
    BY <1>6 DEF ScanEnd
  <2> HIDE DEF after, longer
  <2>4. /\ after \in Scans /\ after.line = line /\ after.outcome = "fields"
        /\ after.fields = longer
    BY <1>1, <2>2, <2>3 DEF Scans
  <2> QED BY <1>4, <1>6, <2>1, <2>3, <2>4 DEF Parses
<1> QED BY <1>5, <1>6

LEMMA ParserInvariant == ParserSpec => []Parses(scan)
<1>1. scan = NoScan => Parses(scan)
  BY NoScanParses
<1>2. Parses(scan) /\ [ParserNext]_scan => Parses(scan)'
  BY QuoteParses, CommaParses, TextParses, EndParses, ParseLineParses, NoScanParses
     DEF ParserNext, Scan
<1> QED BY <1>1, <1>2, PTL DEF ParserSpec

(* For any line, of any length and with quotes and commas anywhere, a call *)
(* of parseLine that has ended returned the fields the line says, and      *)
(* threw exactly when a quote was not closed (csv_parser.cpp).             *)
THEOREM ParserReadsWhatIsWritten == ParserSpec => []ParsesWhatIsWritten
<1>1. Parses(scan) => ParsesWhatIsWritten
  BY DEF Parses, ParsesWhatIsWritten
<1> QED BY <1>1, ParserInvariant, PTL

-----------------------------------------------------------------------------
(* A caller of the backend executes queries that the constructors built.   *)
(* Between executions it may do what it likes with the parser, and sources *)
(* are registered.                                                         *)

\* The queries that are executed, and their parts.
Query == UNION {Queries(bindings) : bindings \in Catalogs}

\* What the constructors give, and the theorem ExecutionFits of QueryOptimizer.
QueriesBuilt ==
  \A expr \in Query : NodeOK(expr, Query) /\ Fits(expr.answer, expr.schema)

ExecutionInit ==
  /\ scan = NoScan /\ query = <<>> /\ stack = <<>> /\ plan = <<>> /\ outcome = NoOutcome

CallerStep ==
  /\ outcome.status # "running"
  /\ \/ \E expr \in Query : Execute(expr) /\ UNCHANGED catalog
     \/ ParserNext /\ UNCHANGED <<query, stack, plan, outcome>>
     \/ UNCHANGED csvVars
     \/ outcome' = NoOutcome /\ query' = <<>> /\ scan' = NoScan /\ UNCHANGED stack

ExecutionNext == CallerStep \/ CsvStep

ExecutionSpec == ExecutionInit /\ [][ExecutionNext]_<<csvVars, catalog>>

-----------------------------------------------------------------------------
(* The invariant of an execution.                                          *)

FieldValue == Cell \cup {FieldText(field) : field \in Seq(Token)}
Result == [schema : Seq(Column), rows : Seq(Seq(FieldValue))]

Activation ==
  [expr : Query, pc : {"begin", "header", "mapping", "lines", "fields", "loop", "left", "right"},
   lines : Seq(Seq(Token)), header : Seq(Seq(Token)), mapping : Seq(Nat),
   left : Result, right : Result, output : Result,
   keys : Nat \X Nat, row : Nat, inner : Nat]

\* rows are f of the identities in S, each once; ids says which is where.
Lists(ids, rows, S, f) ==
  /\ ids \in Seq(S) /\ Len(rows) = Len(ids)
  /\ \A k \in 1..Len(ids) : rows[k] = f[ids[k]]
  /\ \A id \in S : \E k \in 1..Len(ids) : ids[k] = id
  /\ \A j, k \in 1..Len(ids) : ids[j] = ids[k] => j = k

\* result is what the expression means.
Gives(result, expr) ==
  /\ expr.answer.error = "none" /\ result.schema = expr.answer.schema
  /\ \E ids : Lists(ids, result.rows, DOMAIN expr.answer.rows, expr.answer.rows)

\* The lines of a file behind the first n.
Rest(rest, lines, n) ==
  /\ n <= Len(lines) /\ Len(rest) = Len(lines) - n
  /\ \A k \in 1..Len(rest) : rest[k] = lines[n + k]

Begun(s, line) == s.outcome \in {"running", "fields", "thrown"} /\ s.line = line

RowOfLine(line, mapping) == [k \in DOMAIN mapping |-> FieldText(FieldsOf(line)[mapping[k]])]

\* The mapped file has given the lines there are rows of.
Mapped(f, lines) ==
  LET schema == f.expr.schema
      file == Files[f.expr.name]
  IN  /\ Readable(lines) /\ HeaderHas(file, schema)
      /\ f.header = FieldsOf(lines[1])
      /\ f.mapping = [k \in DOMAIN schema |-> ColumnIndex(file.header, PhysicalColumn[schema[k]])]
      /\ f.output.schema = schema
      /\ \A k \in 1..Len(f.output.rows) :
           GoodLine(lines, k + 1) /\ f.output.rows[k] = RowOfLine(lines[k + 1], f.mapping)

TableActive(f, s, lines) ==
  \/ f.pc = "begin"
  \/ f.pc = "header" /\ f.lines = lines /\ lines # <<>>
  \/ f.pc = "mapping" /\ lines # <<>> /\ Rest(f.lines, lines, 1) /\ Begun(s, lines[1])
  \/ f.pc = "lines" /\ Mapped(f, lines) /\ Rest(f.lines, lines, Len(f.output.rows) + 1)
  \/ /\ f.pc = "fields" /\ Mapped(f, lines) /\ Rest(f.lines, lines, Len(f.output.rows) + 2)
     /\ Begun(s, lines[Len(f.output.rows) + 2])

\* The rows a loop has collected from the first n rows of its input.
Collects(f, result) ==
  LET input == f.expr.child.answer IN
  \E ids : /\ Lists(ids, f.left.rows, DOMAIN input.rows, input.rows)
           /\ \E out : Lists(out, f.output.rows,
                             {ids[k] : k \in 1..f.row - 1} \cap DOMAIN result, result)

UnaryActive(f, result) ==
  \/ f = Frame(f.expr)
  \/ /\ f.pc = "loop"
     /\ f.expr.child.answer.error = "none"
     /\ f.left.schema = f.expr.child.answer.schema /\ f.output.schema = f.expr.schema
     /\ f.row \in 1..Len(f.left.rows) + 1
     /\ f.row # 1 => f.expr.answer.error = "none"
     /\ Collects(f, result)

\* The pairs of places the nested loops have been at.
Compared(f) ==
  {place \in (1..Len(f.left.rows)) \X (1..Len(f.right.rows)) :
     place[1] < f.row \/ (place[1] = f.row /\ place[2] < f.inner)}

PairsOf(f, ids, others) == {<<ids[place[1]], others[place[2]]>> : place \in Compared(f)}

CollectsFrom(f, ids, others, result) ==
  LET left == f.expr.left.answer
      right == f.expr.right.answer
  IN  /\ Lists(ids, f.left.rows, DOMAIN left.rows, left.rows)
      /\ Lists(others, f.right.rows, DOMAIN right.rows, right.rows)
      /\ \E out : Lists(out, f.output.rows, PairsOf(f, ids, others) \cap DOMAIN result, result)

CollectsPairs(f, result) == \E ids, others : CollectsFrom(f, ids, others, result)

LoopsBegin(f) == f.output = NoResult /\ f.row = 1 /\ f.inner = 1

JoinActive(f) ==
  LET expr == f.expr IN
  \/ f = Frame(expr)
  \/ f.pc = "left" /\ LoopsBegin(f) /\ Gives(f.left, expr.left)
  \/ f.pc = "right" /\ LoopsBegin(f) /\ Gives(f.left, expr.left) /\ Gives(f.right, expr.right)
  \/ /\ f.pc = "loop"
     /\ expr.left.answer.error = "none" /\ f.left.schema = expr.left.answer.schema
     /\ expr.right.answer.error = "none" /\ f.right.schema = expr.right.answer.schema
     /\ SequenceContains(f.left.schema, expr.leftColumn)
     /\ SequenceContains(f.right.schema, expr.rightColumn)
     /\ f.keys = << ColumnIndex(f.left.schema, expr.leftColumn),
                    ColumnIndex(f.right.schema, expr.rightColumn) >>
     /\ f.output.schema = expr.schema
     /\ f.row \in 1..Len(f.left.rows) + 1 /\ f.inner \in 1..Len(f.right.rows) + 1
     /\ CollectsPairs(f, JoinedRows(expr.left.answer, expr.right.answer,
                                    expr.leftColumn, expr.rightColumn))

\* The innermost activation, with the call of the parser and the lines of its file.
Active(f, s, lines) ==
  LET expr == f.expr IN
  \/ expr.kind = "Table" /\ TableActive(f, s, lines)
  \/ expr.kind = "Select" /\ UnaryActive(f, SelectedRows(expr.condition, expr.child.answer))
  \/ expr.kind = "Project" /\ UnaryActive(f, ProjectedRows(expr.columns, expr.child.answer))
  \/ expr.kind = "Rename" /\ f = Frame(expr)
  \/ expr.kind = "Join" /\ JoinActive(f)

\* An activation that waits for the answer of an expression.
Waits(f, expr) ==
  \/ /\ f.expr.kind \in {"Select", "Project"} /\ f.pc = "loop"
     /\ f.output = [schema |-> f.expr.schema, rows |-> <<>>] /\ f.row = 1
     /\ SameMeaning(expr, f.expr.child)
  \/ /\ f.expr.kind = "Join" /\ f.pc = "left" /\ LoopsBegin(f)
     /\ SameMeaning(expr, f.expr.left)
  \/ /\ f.expr.kind = "Join" /\ f.pc = "right" /\ LoopsBegin(f)
     /\ Gives(f.left, f.expr.left) /\ SameMeaning(expr, f.expr.right)

\* What fails in an activation fails the query.
Fails(expr, root) == expr.answer.error # "none" => root.answer.error = expr.answer.error

Called(calls) == \A i \in 1..Len(calls) - 1 : Waits(calls[i], calls[i + 1].expr)

Executes(calls, root) ==
  /\ root \in Query /\ SameMeaning(calls[1].expr, root)
  /\ \A i \in 1..Len(calls) : Fails(calls[i].expr, root)
  /\ Called(calls)

\* What was returned is listed by the identities of the rows.
Answered ==
  /\ AnsweredAsMeant
  /\ outcome.status = "returned" =>
       outcome.result \in Result /\ Gives(outcome.result, query[1])

ExecutionInv ==
  /\ Parses(scan)
  /\ stack \in Seq(Activation)
  /\ outcome.status = "running" <=> stack # <<>>
  /\ stack # <<>> => /\ Executes(stack, query[1])
                     /\ Active(Top, scan, LinesOf(Top.expr.name))
  /\ Answered

-----------------------------------------------------------------------------
(* Listed rows.                                                            *)

LEMMA NothingListed ==
  ASSUME NEW S, S = {}, NEW rows, rows = <<>>, NEW f
  PROVE  \E ids : Lists(ids, rows, S, f)
<1> DEFINE none == <<>>
<1>1. none \in Seq(S) /\ Len(none) = 0 /\ Len(rows) = 0
  OBVIOUS
<1> HIDE DEF none
<1>2. Lists(none, rows, S, f)
  BY <1>1 DEF Lists
<1> QED BY <1>2

LEMMA ListsOneMore ==
  ASSUME NEW V, NEW rows \in Seq(V), NEW row \in V, NEW S, NEW id, id \notin S, NEW f, row = f[id],
         \E ids : Lists(ids, rows, S, f)
  PROVE  \E ids : Lists(ids, Append(rows, row), S \cup {id}, f)
<1>1. PICK ids : Lists(ids, rows, S, f)
  OBVIOUS
<1> DEFINE T == S \cup {id}
           longer == Append(ids, id)
           more == Append(rows, row)
           n == Len(ids)
           m == n + 1
<1>2. ids \in Seq(T) /\ id \in T /\ n \in Nat /\ Len(rows) = n
      /\ \A k \in 1..n : ids[k] \in S
  BY <1>1 DEF Lists
<1>3. /\ longer \in Seq(T) /\ Len(longer) = m
      /\ \A k \in 1..n : longer[k] = ids[k]
      /\ longer[m] = id
  <2> HIDE DEF T
  <2> QED BY <1>2, AppendItems
<1>4. /\ Len(more) = m
      /\ \A k \in 1..n : more[k] = rows[k]
      /\ more[m] = row
  BY <1>2, AppendItems
<1>5. \A k \in 1..m : k \in 1..n \/ k = m
  BY <1>2
<1>6. \A k \in 1..n : k \in 1..m /\ m \in 1..m
  BY <1>2
<1>7. m \in 1..m
  BY <1>2
<1> HIDE DEF longer, more, m, n
<1>8. \A k \in 1..m : more[k] = f[longer[k]]
  BY <1>1, <1>3, <1>4, <1>5 DEF Lists, n
<1>9. \A i \in T : \E k \in 1..m : longer[k] = i
  <2> SUFFICES ASSUME NEW i \in T PROVE \E k \in 1..m : longer[k] = i
    OBVIOUS
  <2>1. CASE i = id
    BY <1>3, <1>7, <2>1
  <2>2. CASE i \in S
    <3>1. PICK k \in 1..n : ids[k] = i
      BY <1>1, <2>2 DEF Lists, n
    <3> QED BY <1>3, <1>6, <3>1
  <2> QED BY <2>1, <2>2
<1>10. \A j, k \in 1..m : longer[j] = longer[k] => j = k
  <2>1. \A j \in 1..n : longer[j] \in S
    BY <1>2, <1>3
  <2>2. \A j, k \in 1..n : longer[j] = longer[k] => j = k
    BY <1>1, <1>3 DEF Lists, n
  <2> QED BY <1>3, <1>5, <2>1, <2>2
<1>11. Lists(longer, more, T, f)
  BY <1>3, <1>4, <1>8, <1>9, <1>10 DEF Lists
<1> QED BY <1>11 DEF more

LEMMA ListedItems ==
  ASSUME NEW ids, NEW rows, NEW S, NEW f, Lists(ids, rows, S, f)
  PROVE  /\ \A k \in 1..Len(rows) : ids[k] \in S /\ f[ids[k]] = rows[k]
         /\ \A j, k \in 1..Len(rows) : ids[j] = ids[k] => j = k
<1>1. /\ ids \in Seq(S) /\ Len(rows) = Len(ids)
      /\ \A k \in 1..Len(ids) : rows[k] = f[ids[k]]
      /\ \A j, k \in 1..Len(ids) : ids[j] = ids[k] => j = k
  BY DEF Lists
<1> QED BY <1>1

\* A listed function has each row as often as the list.
LEMMA ListedRows ==
  ASSUME NEW rows, NEW f, DOMAIN rows = 1..Len(rows), \E ids : Lists(ids, rows, DOMAIN f, f)
  PROVE  SameRows(rows, f)
<1>1. PICK ids : Lists(ids, rows, DOMAIN f, f)
  OBVIOUS
<1>2. ids \in Seq(DOMAIN f) /\ Len(ids) \in Nat /\ Len(rows) = Len(ids)
      /\ \A k \in 1..Len(ids) : ids[k] \in DOMAIN f
  BY <1>1 DEF Lists
<1> SUFFICES ASSUME NEW row
             PROVE  Cardinality({k \in DOMAIN rows : rows[k] = row})
                      = Cardinality({id \in DOMAIN f : f[id] = row})
  BY DEF SameRows
<1> DEFINE places == {k \in DOMAIN rows : rows[k] = row}
           found == {id \in DOMAIN f : f[id] = row}
           at == [k \in places |-> ids[k]]
<1>3. IsFiniteSet(places)
  <2>1. IsFiniteSet(1..Len(ids))
    BY <1>2, FS_Interval
  <2> QED BY <1>2, <2>1, FS_Subset
<1>4. at \in Bijection(places, found)
  <2>1. \A k \in places : ids[k] \in found
    BY <1>1, <1>2 DEF Lists
  <2>2. at \in [places -> found]
    BY <2>1
  <2>3. \A j, k \in places : at[j] = at[k] => j = k
    BY <1>1, <1>2 DEF Lists
  <2>4. \A id \in found : \E k \in places : at[k] = id
    <3> SUFFICES ASSUME NEW id \in found PROVE \E k \in places : at[k] = id
      OBVIOUS
    <3>1. PICK k \in 1..Len(ids) : ids[k] = id
      BY <1>1 DEF Lists
    <3>2. rows[k] = f[id] /\ f[id] = row
      BY <1>1, <3>1 DEF Lists
    <3>3. k \in places
      BY <1>2, <3>1, <3>2
    <3> QED BY <3>1, <3>3
  <2> HIDE DEF at, places, found
  <2> QED BY <2>2, <2>3, <2>4 DEF Bijection, Injection, Surjection, IsInjective
<1> HIDE DEF at, places, found
<1>5. ExistsBijection(places, found)
  BY <1>4 DEF ExistsBijection
<1> QED BY <1>3, <1>5, FS_Bijection DEF places, found

-----------------------------------------------------------------------------
(* What a query means, by the kind of its root.                            *)

LEMMA AnswersOf ==
  ASSUME QueriesBuilt, NEW expr \in Query
  PROVE  /\ NodeOK(expr, Query) /\ Fits(expr.answer, expr.schema)
         /\ expr.kind \in ExprKind /\ LabelOK(expr) /\ expr.schema \in Seq(Column)
         /\ expr = Rebuilt(expr)
         /\ expr.answer.error # "size"
         /\ expr.answer.error = "none" =>
              /\ expr.answer.schema = expr.schema
              /\ \A id \in DOMAIN expr.answer.rows :
                   expr.answer.rows[id] \in [DOMAIN expr.schema -> Cell]
BY DEF QueriesBuilt, NodeOK, Fits

\* The rows of an answer are as long as its schema.
LEMMA AnswerRows ==
  ASSUME QueriesBuilt, NEW expr \in Query, expr.answer.error = "none"
  PROVE  \A id \in DOMAIN expr.answer.rows :
           /\ expr.answer.rows[id] \in Seq(FieldValue)
           /\ Len(expr.answer.rows[id]) = Len(expr.schema)
<1> SUFFICES ASSUME NEW id \in DOMAIN expr.answer.rows
             PROVE  /\ expr.answer.rows[id] \in Seq(FieldValue)
                    /\ Len(expr.answer.rows[id]) = Len(expr.schema)
  OBVIOUS
<1>1. expr.answer.rows[id] \in [DOMAIN expr.schema -> Cell] /\ expr.schema \in Seq(Column)
  BY AnswersOf
<1> DEFINE row == expr.answer.rows[id]
           size == Len(expr.schema)
<1>2. row \in [1..size -> Cell] /\ size \in Nat
  BY <1>1
<1> HIDE DEF row, size
<1>3. row \in Seq(Cell) /\ Len(row) = size
  BY <1>2
<1>4. row \in Seq(FieldValue)
  BY <1>3 DEF FieldValue
<1> QED BY <1>3, <1>4 DEF row, size

LEMMA CollectedRows ==
  ASSUME NEW schema, NEW rows, Collected(schema, rows).error # "size"
  PROVE  Collected(schema, rows) = Answer(schema, rows)
BY DEF Collected, Failed

LEMMA TableAnswers ==
  ASSUME QueriesBuilt, NEW expr \in Query, expr.kind = "Table"
  PROVE  LET file == Files[expr.name] IN
         /\ expr.name \in TableName
         /\ ~file.readable => expr.answer.error = "source"
         /\ file.readable /\ ~HeaderHas(file, expr.schema) => expr.answer.error = "column"
         /\ file.readable /\ HeaderHas(file, expr.schema) /\ file.malformed
              => expr.answer.error = "row"
         /\ file.readable /\ HeaderHas(file, expr.schema) /\ ~file.malformed
              => expr.answer = Answer(expr.schema, ReadRows(file, expr.schema))
<1>1. expr.name \in TableName /\ expr = TableExpr(expr.name, expr.schema)
  BY AnswersOf DEF LabelOK, Rebuilt
<1>2. expr.answer = ExecuteTable(expr.name, expr.schema)
  BY <1>1 DEF TableExpr
<1>3. expr.answer.error # "size"
  BY AnswersOf
<1> QED BY <1>1, <1>2, <1>3, CollectedRows DEF ExecuteTable, Failed

LEMMA SelectAnswer ==
  ASSUME QueriesBuilt, NEW expr \in Query, expr.kind = "Select"
  PROVE  LET input == expr.child.answer
             rows == SelectedRows(expr.condition, input)
         IN  /\ expr.child \in Query /\ expr.schema = expr.child.schema
             /\ input.error # "none" => expr.answer.error = input.error
             /\ input.error = "none" /\ expr.condition.raw /\ DOMAIN input.rows # {}
                  => expr.answer.error = "raw"
             /\ input.error = "none" /\ ~(expr.condition.raw /\ DOMAIN input.rows # {})
                  => expr.answer = Answer(expr.schema, rows)
<1>1. expr = SelectExpr(expr.condition, expr.child)
  BY AnswersOf DEF Rebuilt
<1>2. expr.child \in Query
  <2>1. Children(expr) = <<expr.child>>
    BY DEF Children
  <2> QED BY <2>1, AnswersOf DEF NodeOK
<1>3. /\ expr.schema = expr.child.schema
      /\ expr.answer = ExecuteSelect(expr.condition, expr.child.schema, expr.child.answer)
  BY <1>1 DEF SelectExpr
<1>4. expr.answer.error # "size"
  BY AnswersOf
<1> QED BY <1>2, <1>3, <1>4, CollectedRows DEF ExecuteSelect, Failed

LEMMA ProjectAnswer ==
  ASSUME QueriesBuilt, NEW expr \in Query, expr.kind = "Project"
  PROVE  LET input == expr.child.answer
             rows == ProjectedRows(expr.columns, input)
         IN  /\ expr.child \in Query /\ expr.schema = expr.columns /\ expr.columns \in Seq(Column)
             /\ input.error # "none" => expr.answer.error = input.error
             /\ input.error = "none" /\ DOMAIN input.rows # {}
                  /\ ~AllColumnsIncluded(expr.columns, input.schema) => expr.answer.error = "column"
             /\ input.error = "none"
                  /\ ~(DOMAIN input.rows # {} /\ ~AllColumnsIncluded(expr.columns, input.schema))
                  => expr.answer = Answer(expr.schema, rows)
<1>1. expr = ProjectExpr(expr.columns, expr.child) /\ expr.columns \in Seq(Column)
  BY AnswersOf DEF Rebuilt, LabelOK
<1>2. expr.child \in Query
  <2>1. Children(expr) = <<expr.child>>
    BY DEF Children
  <2> QED BY <2>1, AnswersOf DEF NodeOK
<1>3. /\ expr.schema = expr.columns
      /\ expr.answer = ExecuteProject(expr.columns, expr.child.answer)
  BY <1>1 DEF ProjectExpr
<1>4. expr.answer.error # "size"
  BY AnswersOf
<1> QED BY <1>1, <1>2, <1>3, <1>4, CollectedRows DEF ExecuteProject, Failed

LEMMA RenameAnswer ==
  ASSUME QueriesBuilt, NEW expr \in Query, expr.kind = "Rename"
  PROVE  expr.child \in Query /\ SameMeaning(expr, expr.child)
<1>1. expr = RenameExpr(expr.alias, expr.child)
  BY AnswersOf DEF Rebuilt
<1>2. expr.child \in Query
  <2>1. Children(expr) = <<expr.child>>
    BY DEF Children
  <2> QED BY <2>1, AnswersOf DEF NodeOK
<1> QED BY <1>1, <1>2 DEF RenameExpr, SameMeaning

LEMMA JoinAnswer ==
  ASSUME QueriesBuilt, NEW expr \in Query, expr.kind = "Join"
  PROVE  LET left == expr.left.answer
             right == expr.right.answer
             keys == /\ SequenceContains(left.schema, expr.leftColumn)
                     /\ SequenceContains(right.schema, expr.rightColumn)
         IN  /\ expr.left \in Query /\ expr.right \in Query
             /\ expr.schema = expr.left.schema \o expr.right.schema
             /\ left.error # "none" => expr.answer.error = left.error
             /\ left.error = "none" /\ right.error # "none" => expr.answer.error = right.error
             /\ left.error = "none" /\ right.error = "none" /\ ~keys => expr.answer.error = "column"
             /\ left.error = "none" /\ right.error = "none" /\ keys
                  => expr.answer = Answer(expr.schema, JoinedRows(left, right, expr.leftColumn,
                                                                  expr.rightColumn))
<1>1. expr = JoinExpr(expr.left, expr.right, expr.leftColumn, expr.rightColumn)
  BY AnswersOf DEF Rebuilt
<1>2. expr.left \in Query /\ expr.right \in Query
  <2>1. Children(expr) = <<expr.left, expr.right>>
    BY DEF Children
  <2> QED BY <2>1, AnswersOf DEF NodeOK
<1>3. /\ expr.schema = expr.left.schema \o expr.right.schema
      /\ expr.answer = ExecuteJoin(expr.schema, expr.left.answer, expr.right.answer,
                                   expr.leftColumn, expr.rightColumn)
  <2> DEFINE l == expr.left
             r == expr.right
             a == expr.leftColumn
             b == expr.rightColumn
             built == JoinExpr(l, r, a, b)
  <2>1. built.schema = l.schema \o r.schema
    BY DEF JoinExpr
  <2>2. built.answer = ExecuteJoin(l.schema \o r.schema, l.answer, r.answer, a, b)
    BY DEF JoinExpr
  <2>3. expr = built
    BY <1>1
  <2> HIDE DEF built, l, r, a, b
  <2>4. expr.schema = l.schema \o r.schema
    BY <2>1, <2>3
  <2>5. expr.answer = ExecuteJoin(expr.schema, l.answer, r.answer, a, b)
    BY <2>2, <2>3, <2>4
  <2> QED BY <2>4, <2>5 DEF l, r, a, b
<1>4. expr.answer.error # "size"
  BY AnswersOf
<1> QED BY <1>2, <1>3, <1>4, CollectedRows DEF ExecuteJoin, Failed

-----------------------------------------------------------------------------
(* The stack of activations.                                               *)

\* The catalog alone says what a file has.
LEMMA SameFiles ==
  ASSUME UNCHANGED catalog
  PROVE  \A name : LinesOf(name)' = LinesOf(name)
BY DEF LinesOf

LEMMA TopOf ==
  ASSUME stack \in Seq(Activation), stack # <<>>
  PROVE  /\ Top \in Activation /\ Top = stack[Len(stack)] /\ Top.expr \in Query
         /\ Len(stack) \in Nat /\ Len(stack) >= 1 /\ Len(stack) \in 1..Len(stack)
<1>1. Len(stack) \in Nat /\ Len(stack) >= 1 /\ Len(stack) \in 1..Len(stack)
  OBVIOUS
<1>2. Top \in Activation /\ Top = stack[Len(stack)]
  BY <1>1 DEF Top
<1> QED BY <1>1, <1>2 DEF Activation

LEMMA FreshActivation ==
  ASSUME NEW expr \in Query
  PROVE  Frame(expr) \in Activation /\ Frame(expr).expr = expr
<1> DEFINE none == <<>>
<1>1. /\ none \in Seq(Seq(Token)) /\ none \in Seq(Nat) /\ none \in Seq(Column)
      /\ none \in Seq(Seq(FieldValue))
  OBVIOUS
<1>2. NoResult \in Result
  BY <1>1 DEF NoResult, Result
<1>3. <<0, 0>> \in Nat \X Nat /\ 1 \in Nat
  OBVIOUS
<1> HIDE DEF none
<1>4. Frame(expr) = [expr |-> expr, pc |-> "begin", lines |-> none, header |-> none,
                     mapping |-> none, left |-> NoResult, right |-> NoResult,
                     output |-> NoResult, keys |-> <<0, 0>>, row |-> 1, inner |-> 1]
  BY DEF Frame, none
<1> QED BY <1>1, <1>2, <1>3, <1>4 DEF Activation

LEMMA FreshActive ==
  ASSUME QueriesBuilt, NEW expr \in Query, NEW s, NEW lines
  PROVE  Active(Frame(expr), s, lines)
<1>1. Frame(expr).expr = expr /\ Frame(expr).pc = "begin"
  BY DEF Frame
<1>2. expr.kind \in ExprKind
  BY AnswersOf
<1> QED BY <1>1, <1>2 DEF Active, ExprKind, TableActive, UnaryActive, JoinActive

\* What fails in a call fails in the caller.
LEMMA CallerFails ==
  ASSUME QueriesBuilt, NEW f, f.expr \in Query, NEW expr, Waits(f, expr),
         expr.answer.error # "none"
  PROVE  f.expr.answer.error = expr.answer.error
<1>1. CASE f.expr.kind = "Select"
  <2>1. SameMeaning(expr, f.expr.child)
    BY <1>1 DEF Waits
  <2> QED BY <1>1, <2>1, SelectAnswer DEF SameMeaning
<1>2. CASE f.expr.kind = "Project"
  <2>1. SameMeaning(expr, f.expr.child)
    BY <1>2 DEF Waits
  <2> QED BY <1>2, <2>1, ProjectAnswer DEF SameMeaning
<1>3. CASE f.expr.kind = "Join" /\ f.pc = "left"
  <2>1. SameMeaning(expr, f.expr.left)
    BY <1>3 DEF Waits
  <2> QED BY <1>3, <2>1, JoinAnswer DEF SameMeaning
<1>4. CASE f.expr.kind = "Join" /\ f.pc # "left"
  <2>1. SameMeaning(expr, f.expr.right) /\ f.expr.left.answer.error = "none"
    BY <1>4 DEF Waits, Gives
  <2>2. f.expr.right.answer.error = expr.answer.error
    BY <2>1 DEF SameMeaning
  <2>3. f.expr.right.answer.error # "none" => f.expr.answer.error = f.expr.right.answer.error
    BY <1>4, <2>1, JoinAnswer
  <2> QED BY <2>2, <2>3
<1>5. f.expr.kind \in {"Select", "Project", "Join"}
  BY DEF Waits
<1> QED BY <1>1, <1>2, <1>3, <1>4, <1>5

LEMMA WaitsForSame ==
  ASSUME NEW f, NEW expr, NEW other, Waits(f, expr), SameMeaning(other, expr)
  PROVE  Waits(f, other)
BY DEF Waits, SameMeaning

\* The innermost activation goes on.
LEMMA StepKept ==
  ASSUME ExecutionInv, stack # <<>>, NEW g \in Activation, SameMeaning(g.expr, Top.expr),
         Step(g), UNCHANGED <<query, outcome, catalog>>, Parses(scan'),
         Active(g, scan', LinesOf(g.expr.name))
  PROVE  ExecutionInv'
<1> DEFINE n == Len(stack)
<1>1. /\ stack \in Seq(Activation) /\ Executes(stack, query[1])
      /\ outcome.status = "running" /\ Answered
  BY DEF ExecutionInv
<1>2. /\ Top = stack[n] /\ n \in Nat /\ n >= 1 /\ n \in 1..n
  BY <1>1, TopOf
<1>3. /\ stack' \in Seq(Activation) /\ Len(stack') = n /\ stack' # <<>>
      /\ stack'[n] = g /\ \A i \in 1..n : i # n => stack'[i] = stack[i]
  BY <1>1, <1>2 DEF Step
<1>4. Executes(stack', query[1])
  <2>1. SameMeaning(stack'[1].expr, query[1])
    BY <1>1, <1>2, <1>3 DEF Executes, SameMeaning
  <2>2. ASSUME NEW i \in 1..n PROVE Fails(stack'[i].expr, query[1])
    BY <1>1, <1>2, <1>3 DEF Executes, Fails, SameMeaning
  <2>3. ASSUME NEW i \in 1..n - 1 PROVE Waits(stack'[i], stack'[i + 1].expr)
    <3>1. i \in 1..n /\ i + 1 \in 1..n /\ i # n
      BY <1>2
    <3>2. Waits(stack[i], stack[i + 1].expr)
      BY <1>1 DEF Executes, Called
    <3>3. CASE i + 1 = n
      BY <1>2, <1>3, <3>1, <3>2, <3>3, WaitsForSame
    <3>4. CASE i + 1 # n
      BY <1>3, <3>1, <3>2, <3>4
    <3> QED BY <3>3, <3>4
  <2> QED BY <1>1, <1>3, <2>1, <2>2, <2>3 DEF Executes, Called
<1>5. Top' = g
  BY <1>3 DEF Top
<1>6. LinesOf(Top.expr.name)' = LinesOf(g.expr.name)
  BY <1>5, SameFiles
<1>7. Answered'
  BY <1>1 DEF Answered, AnsweredAsMeant
<1> HIDE DEF n
<1> QED BY <1>1, <1>3, <1>4, <1>5, <1>6, <1>7 DEF ExecutionInv

\* An expression is called, and the innermost activation waits for it.
LEMMA CallKept ==
  ASSUME QueriesBuilt, ExecutionInv, stack # <<>>, NEW g \in Activation, g.expr = Top.expr,
         NEW expr \in Query, Waits(g, expr), Call(g, expr),
         UNCHANGED <<query, outcome, catalog>>, Parses(scan')
  PROVE  ExecutionInv'
<1> DEFINE n == Len(stack)
           m == n + 1
           below == [stack EXCEPT ![n] = g]
           fresh == Frame(expr)
<1>1. /\ stack \in Seq(Activation) /\ Executes(stack, query[1])
      /\ outcome.status = "running" /\ Answered
  BY DEF ExecutionInv
<1>2. /\ Top = stack[n] /\ n \in Nat /\ n >= 1 /\ n \in 1..n
  BY <1>1, TopOf
<1>3. /\ below \in Seq(Activation) /\ Len(below) = n
      /\ below[n] = g /\ \A i \in 1..n : i # n => below[i] = stack[i]
  BY <1>1, <1>2
<1>4. fresh \in Activation /\ fresh.expr = expr
  BY FreshActivation
<1>5. stack' = Append(below, fresh)
  BY DEF Call
<1> HIDE DEF below, fresh
<1>6. /\ stack' \in Seq(Activation) /\ Len(stack') = m /\ stack' # <<>>
      /\ stack'[m] = fresh /\ stack'[n] = g
      /\ \A i \in 1..n : i # n => stack'[i] = stack[i]
  <2>1. /\ stack' \in Seq(Activation) /\ Len(stack') = Len(below) + 1 /\ stack' # <<>>
        /\ \A i \in 1..Len(below) : stack'[i] = below[i]
        /\ stack'[Len(below) + 1] = fresh
    BY <1>3, <1>4, <1>5, AppendItems
  <2> HIDE DEF n
  <2> QED BY <1>2, <1>3, <2>1
<1>61. /\ m \in Nat /\ m - 1 = n /\ n # m
       /\ \A i \in 1..m : i \in 1..n \/ i = m
       /\ \A i \in 1..n : i # n => i \in 1..n - 1 /\ i + 1 \in 1..n
       /\ \A i \in 1..m - 1 : i \in 1..n
  <2> HIDE DEF n
  <2> QED BY <1>2
<1> HIDE DEF n, m
<1>7. Executes(stack', query[1])
  <2>1. SameMeaning(stack'[1].expr, query[1])
    BY <1>1, <1>2, <1>6 DEF Executes
  <2>2. Fails(g.expr, query[1])
    BY <1>1, <1>2 DEF Executes, n
  <2>3. Fails(expr, query[1])
    <3>1. g.expr \in Query
      BY DEF Activation
    <3> QED BY <2>2, <3>1, CallerFails DEF Fails
  <2>4. ASSUME NEW i \in 1..m PROVE Fails(stack'[i].expr, query[1])
    <3>1. i \in 1..n \/ i = m
      BY <1>61
    <3>2. \A j \in 1..n : Fails(stack[j].expr, query[1])
      BY <1>1 DEF Executes, n
    <3> QED BY <1>4, <1>6, <2>2, <2>3, <3>1, <3>2
  <2>5. ASSUME NEW i \in 1..m - 1 PROVE Waits(stack'[i], stack'[i + 1].expr)
    <3>1. CASE i = n
      BY <1>4, <1>6, <3>1 DEF m
    <3>2. CASE i # n
      <4>1. i \in 1..n - 1 /\ i \in 1..n /\ i + 1 \in 1..n
        BY <1>61, <3>2
      <4>2. Waits(stack[i], stack[i + 1].expr)
        BY <1>1, <4>1 DEF Executes, Called, n
      <4>3. stack'[i + 1].expr = stack[i + 1].expr
        BY <1>2, <1>6, <4>1
      <4> QED BY <1>6, <3>2, <4>1, <4>2, <4>3
    <3> QED BY <3>1, <3>2
  <2> QED BY <1>1, <1>6, <2>1, <2>4, <2>5 DEF Executes, Called
<1>8. Top' = fresh
  BY <1>6 DEF Top
<1>9. Active(Top, scan, LinesOf(Top.expr.name))'
  BY <1>8, FreshActive DEF fresh
<1>10. Answered'
  BY <1>1 DEF Answered, AnsweredAsMeant
<1> QED BY <1>1, <1>6, <1>7, <1>9, <1>10 DEF ExecutionInv

\* An exception that the innermost activation means.
LEMMA ThrowKept ==
  ASSUME ExecutionInv, stack # <<>>, NEW error, error # "none", Top.expr.answer.error = error,
         Throw(error), UNCHANGED query, Parses(scan')
  PROVE  ExecutionInv'
<1>1. stack \in Seq(Activation) /\ Executes(stack, query[1])
  BY DEF ExecutionInv
<1>2. Len(stack) \in 1..Len(stack) /\ Top = stack[Len(stack)]
  BY <1>1, TopOf
<1>3. query[1].answer.error = error
  BY <1>1, <1>2 DEF Executes, Fails
<1>4. outcome'.status = "thrown" /\ outcome'.error = error /\ stack' = <<>>
  BY DEF Throw, NoOutcome
<1>5. Answered'
  BY <1>3, <1>4 DEF Answered, AnsweredAsMeant
<1>6. stack' \in Seq(Activation)
  BY <1>4
<1> QED BY <1>4, <1>5, <1>6 DEF ExecutionInv

LEMMA GivesSame ==
  ASSUME NEW result, NEW expr, NEW other, Gives(result, expr), SameMeaning(expr, other)
  PROVE  Gives(result, other)
BY DEF Gives, SameMeaning

\* A caller with the answer it waited for.
LEMMA SlotFilled ==
  ASSUME NEW f \in Activation, NEW expr, Waits(f, expr), NEW result \in Result, Gives(result, expr),
         NEW s, NEW lines
  PROVE  LET slot == IF f.pc = "right" THEN [f EXCEPT !.right = result] ELSE [f EXCEPT !.left = result]
         IN  slot \in Activation /\ slot.expr = f.expr /\ Active(slot, s, lines)
<1> DEFINE right == [f EXCEPT !.right = result]
           left == [f EXCEPT !.left = result]
<1>1. /\ right \in Activation /\ right.expr = f.expr /\ right.pc = f.pc
      /\ right.output = f.output /\ right.row = f.row /\ right.inner = f.inner
      /\ right.left = f.left /\ right.right = result
  BY DEF Activation
<1>2. /\ left \in Activation /\ left.expr = f.expr /\ left.pc = f.pc
      /\ left.output = f.output /\ left.row = f.row /\ left.inner = f.inner
      /\ left.left = result
  BY DEF Activation
<1> HIDE DEF left, right
<1>3. CASE f.expr.kind \in {"Select", "Project"}
  <2> DEFINE input == f.expr.child.answer
  <2>1. /\ f.pc = "loop" /\ f.row = 1
        /\ f.output = [schema |-> f.expr.schema, rows |-> <<>>]
        /\ SameMeaning(expr, f.expr.child)
    BY <1>3 DEF Waits
  <2>2. /\ input.error = "none" /\ result.schema = input.schema
        /\ \E ids : Lists(ids, result.rows, DOMAIN input.rows, input.rows)
    BY <2>1, GivesSame DEF Gives
  <2>3. PICK ids : Lists(ids, result.rows, DOMAIN input.rows, input.rows)
    BY <2>2
  <2>4. ASSUME NEW rows PROVE Collects(left, rows)
    <3>1. {ids[k] : k \in 1..1 - 1} \cap DOMAIN rows = {}
      OBVIOUS
    <3>2. f.output.rows = <<>>
      BY <2>1
    <3> DEFINE S == {ids[k] : k \in 1..1 - 1} \cap DOMAIN rows
    <3>3. \E out : Lists(out, f.output.rows, S, rows)
      BY <3>1, <3>2, NothingListed
    <3> QED BY <1>2, <2>1, <2>3, <3>3 DEF Collects
  <2>5. Len(result.rows) \in Nat
    BY DEF Result
  <2>6. ASSUME NEW rows PROVE UnaryActive(left, rows)
    BY <1>2, <2>1, <2>2, <2>4, <2>5 DEF UnaryActive
  <2>7. Active(left, s, lines)
    BY <1>2, <1>3, <2>6 DEF Active
  <2> QED BY <1>2, <2>1, <2>7 DEF left
<1>4. CASE f.expr.kind = "Join" /\ f.pc = "left"
  <2>1. LoopsBegin(f) /\ SameMeaning(expr, f.expr.left)
    BY <1>4 DEF Waits
  <2>2. Gives(result, f.expr.left)
    BY <2>1, GivesSame
  <2>3. LoopsBegin(left)
    BY <1>2, <2>1 DEF LoopsBegin
  <2>4. JoinActive(left)
    BY <1>2, <1>4, <2>2, <2>3 DEF JoinActive
  <2>5. Active(left, s, lines)
    BY <1>2, <1>4, <2>4 DEF Active
  <2> QED BY <1>2, <1>4, <2>5 DEF left
<1>5. CASE f.expr.kind = "Join" /\ f.pc = "right"
  <2>1. LoopsBegin(f) /\ Gives(f.left, f.expr.left) /\ SameMeaning(expr, f.expr.right)
    BY <1>5 DEF Waits
  <2>2. Gives(result, f.expr.right)
    BY <2>1, GivesSame
  <2>3. LoopsBegin(right)
    BY <1>1, <2>1 DEF LoopsBegin
  <2>4. JoinActive(right)
    BY <1>1, <1>5, <2>1, <2>2, <2>3 DEF JoinActive
  <2>5. Active(right, s, lines)
    BY <1>1, <1>5, <2>4 DEF Active
  <2> QED BY <1>1, <1>5, <2>5 DEF right
<1> QED BY <1>3, <1>4, <1>5 DEF Waits

\* The innermost activation returns what its expression means.
LEMMA ReturnKept ==
  ASSUME ExecutionInv, stack # <<>>, NEW result \in Result, Gives(result, Top.expr),
         NEW entries, Return(result, entries), UNCHANGED <<query, catalog>>, Parses(scan')
  PROVE  ExecutionInv'
<1> DEFINE n == Len(stack)
<1>1. /\ stack \in Seq(Activation) /\ Executes(stack, query[1])
      /\ outcome.status = "running" /\ Answered
  BY DEF ExecutionInv
<1>2. Top = stack[n] /\ n \in Nat /\ n >= 1 /\ n \in 1..n
  BY <1>1, TopOf
<1>3. CASE n = 1
  <2>1. Gives(result, query[1])
    BY <1>1, <1>2, <1>3, GivesSame DEF Executes
  <2>2. stack' = <<>>
    BY <1>3 DEF Return
  <2>3. outcome'.status = "returned" /\ outcome'.result = result
    BY <1>3 DEF Return, NoOutcome
  <2>4. DOMAIN result.rows = 1..Len(result.rows)
    BY DEF Result
  <2>5. SameRows(result.rows, query[1].answer.rows)
    BY <2>1, <2>4, ListedRows DEF Gives
  <2>6. Answered'
    <3>1. AnsweredAsMeant'
      BY <2>1, <2>3, <2>5 DEF AnsweredAsMeant, Gives
    <3> QED BY <2>1, <2>3, <3>1 DEF Answered
  <2>7. stack' \in Seq(Activation)
    BY <2>2
  <2> QED BY <2>2, <2>3, <2>6, <2>7 DEF ExecutionInv
<1>4. CASE n # 1
  <2> DEFINE m == n - 1
             f == stack[m]
             below == SubSeq(stack, 1, m)
             slot == IF f.pc = "right" THEN [f EXCEPT !.right = result]
                     ELSE [f EXCEPT !.left = result]
  <2>1. m \in Nat /\ m >= 1 /\ m \in 1..m /\ m \in 1..n /\ m \in 1..n - 1 /\ m \in 0..n /\ m + 1 = n
        /\ \A i \in 1..m : i \in 1..n
        /\ \A j \in 1..m - 1 : j \in 1..m /\ j + 1 \in 1..m /\ j # m /\ j \in 1..n - 1
    <3> HIDE DEF n
    <3> QED BY <1>2, <1>4
  <2>2. f \in Activation /\ Waits(f, Top.expr)
    <3>1. \A i \in 1..n - 1 : Waits(stack[i], stack[i + 1].expr)
      BY <1>1 DEF Executes, Called
    <3> HIDE DEF m, n
    <3>2. stack[m] \in Activation
      BY <1>1, <2>1 DEF n
    <3> QED BY <1>2, <2>1, <3>1, <3>2
  <2>3. slot \in Activation /\ slot.expr = f.expr
        /\ Active(slot, scan', LinesOf(f.expr.name))
    BY <2>2, SlotFilled
  <2>4. /\ below \in Seq(Activation) /\ Len(below) = m
        /\ \A i \in 1..m : below[i] = stack[i]
    BY <1>1, <2>1, PrefixItems
  <2>5. stack' = [below EXCEPT ![m] = slot] /\ outcome' = outcome
    BY <1>4 DEF Return
  <2> HIDE DEF slot, f, below, m, n
  <2>6. /\ stack' \in Seq(Activation) /\ Len(stack') = m /\ stack' # <<>>
        /\ stack'[m] = slot /\ \A i \in 1..m : i # m => stack'[i] = stack[i]
    BY <2>1, <2>3, <2>4, <2>5
  <2>7. \A i \in 1..m : stack'[i].expr = stack[i].expr
    BY <2>3, <2>6 DEF f
  <2>8. Executes(stack', query[1])
    <3>1. 1 \in 1..m
      BY <2>1
    <3>2. SameMeaning(stack'[1].expr, query[1])
      BY <1>1, <2>7, <3>1 DEF Executes
    <3>3. \A i \in 1..m : Fails(stack'[i].expr, query[1])
      BY <1>1, <2>1, <2>7 DEF Executes, n
    <3>4. ASSUME NEW i \in 1..m - 1 PROVE Waits(stack'[i], stack'[i + 1].expr)
      <4>1. Waits(stack[i], stack[i + 1].expr)
        BY <1>1, <2>1 DEF Executes, Called, n
      <4> QED BY <2>1, <2>6, <2>7, <4>1
    <3> QED BY <1>1, <2>6, <3>2, <3>3, <3>4 DEF Executes, Called
  <2>9. Top' = slot
    BY <2>6 DEF Top
  <2>10. LinesOf(Top.expr.name)' = LinesOf(f.expr.name)
    BY <2>3, <2>9, SameFiles
  <2>11. Answered'
    BY <1>1, <2>5 DEF Answered, AnsweredAsMeant
  <2> QED BY <1>1, <2>3, <2>5, <2>6, <2>8, <2>9, <2>10, <2>11 DEF ExecutionInv
<1> QED BY <1>3, <1>4

-----------------------------------------------------------------------------
(* The loops of Select and Project.                                        *)

\* The loop goes on by a row, which makes a row of the result or none.
LEMMA CollectsNext ==
  ASSUME NEW f \in Activation, NEW g, g.expr = f.expr, g.left = f.left, g.row = f.row + 1,
         f.row \in 1..Len(f.left.rows), NEW result, Collects(f, result),
         NEW row \in Seq(FieldValue), NEW kept \in BOOLEAN,
         \A id \in DOMAIN f.expr.child.answer.rows :
           f.expr.child.answer.rows[id] = f.left.rows[f.row]
             => (id \in DOMAIN result <=> kept) /\ (kept => result[id] = row),
         g.output.rows = IF kept THEN Append(f.output.rows, row) ELSE f.output.rows
  PROVE  Collects(g, result)
<1> DEFINE input == f.expr.child.answer
           n == f.row
           D == DOMAIN result
<1>1. PICK ids :
        /\ Lists(ids, f.left.rows, DOMAIN input.rows, input.rows)
        /\ \E out : Lists(out, f.output.rows, {ids[k] : k \in 1..f.row - 1} \cap D, result)
  BY DEF Collects
<1> DEFINE id == ids[n]
           Before == {ids[k] : k \in 1..n - 1}
           Until == {ids[k] : k \in 1..n}
<1>2. /\ ids \in Seq(DOMAIN input.rows) /\ n \in 1..Len(ids) /\ n \in Nat
      /\ \A j, k \in 1..Len(ids) : ids[j] = ids[k] => j = k
      /\ id \in DOMAIN input.rows /\ input.rows[id] = f.left.rows[n]
  <2>1. Lists(ids, f.left.rows, DOMAIN input.rows, input.rows)
    BY <1>1
  <2> HIDE DEF input
  <2>2. /\ ids \in Seq(DOMAIN input.rows) /\ n \in 1..Len(ids)
        /\ \A j, k \in 1..Len(ids) : ids[j] = ids[k] => j = k
        /\ f.left.rows[n] = input.rows[ids[n]]
    BY <2>1 DEF Lists
  <2> QED BY <2>2
<1>3. Until = Before \cup {id} /\ id \notin Before
  <2>1. \A k : k \in 1..n <=> k \in 1..n - 1 \/ k = n
    BY <1>2
  <2>2. \A k \in 1..n - 1 : k # n /\ k \in 1..Len(ids)
    BY <1>2
  <2>3. Until = Before \cup {id}
    BY <2>1
  <2> QED BY <1>2, <2>2, <2>3
<1>4. (id \in D <=> kept) /\ (kept => result[id] = row)
  BY <1>2
<1>5. f.output.rows \in Seq(Seq(FieldValue)) /\ (n + 1) - 1 = n
  BY <1>2 DEF Activation, Result
<1> DEFINE old == Before \cap D
           new == Until \cap D
<1>6. \E out : Lists(out, f.output.rows, old, result)
  BY <1>1
<1>7. new = IF kept THEN old \cup {id} ELSE old
  BY <1>3, <1>4
<1>8. id \notin old
  BY <1>3
<1> HIDE DEF id, Before, Until, old, new, D
<1>9. \E out : Lists(out, g.output.rows, new, result)
  <2>1. CASE kept
    <3> DEFINE Row == Seq(FieldValue)
    <3>1. f.output.rows \in Seq(Row) /\ row \in Row /\ row = result[id]
      BY <1>4, <1>5, <2>1
    <3> HIDE DEF Row
    <3>2. \E out : Lists(out, Append(f.output.rows, row), old \cup {id}, result)
      BY <1>6, <1>8, <3>1, ListsOneMore
    <3> QED BY <1>7, <2>1, <3>2
  <2>2. CASE ~kept
    BY <1>6, <1>7, <2>2
  <2> QED BY <2>1, <2>2
<1>10. g.row - 1 = n
  BY <1>5
<1>11. new = {ids[k] : k \in 1..g.row - 1} \cap D
  BY <1>10 DEF new, Until
<1> QED BY <1>1, <1>9, <1>11 DEF Collects, D

\* At its end a loop has collected the whole result.
LEMMA CollectsAll ==
  ASSUME NEW f \in Activation, f.row \in 1..Len(f.left.rows) + 1, f.row > Len(f.left.rows),
         NEW result, Collects(f, result), DOMAIN result \subseteq DOMAIN f.expr.child.answer.rows
  PROVE  \E out : Lists(out, f.output.rows, DOMAIN result, result)
<1> DEFINE input == f.expr.child.answer
<1>1. PICK ids :
        /\ Lists(ids, f.left.rows, DOMAIN input.rows, input.rows)
        /\ \E out : Lists(out, f.output.rows,
                          {ids[k] : k \in 1..f.row - 1} \cap DOMAIN result, result)
  BY DEF Collects
<1>2. Len(f.left.rows) \in Nat /\ Len(f.left.rows) = Len(ids)
  BY <1>1 DEF Lists, Activation, Result
<1>3. f.row - 1 = Len(ids)
  BY <1>2
<1>4. \A id \in DOMAIN input.rows : \E k \in 1..Len(ids) : ids[k] = id
  BY <1>1 DEF Lists
<1>5. {ids[k] : k \in 1..f.row - 1} \cap DOMAIN result = DOMAIN result
  BY <1>3, <1>4
<1> QED BY <1>1, <1>5

\* A row of the input is a row of an answer.
LEMMA InputRows ==
  ASSUME QueriesBuilt, NEW expr \in Query, expr.answer.error = "none", NEW rows,
         NEW ids, Lists(ids, rows, DOMAIN expr.answer.rows, expr.answer.rows),
         NEW k \in 1..Len(rows)
  PROVE  /\ ids[k] \in DOMAIN expr.answer.rows /\ rows[k] = expr.answer.rows[ids[k]]
         /\ rows[k] \in Seq(FieldValue) /\ Len(rows[k]) = Len(expr.schema)
         /\ DOMAIN expr.answer.rows # {}
<1>1. ids[k] \in DOMAIN expr.answer.rows /\ rows[k] = expr.answer.rows[ids[k]]
  BY DEF Lists
<1> QED BY <1>1, AnswerRows

-----------------------------------------------------------------------------
(* The steps of Select, Project and Rename.                                *)

\* What is found is the first place that has it.
LEMMA IndexFound ==
  ASSUME NEW sequence \in Seq(Column), NEW value, Positions(sequence, value) # {}
  PROVE  /\ ColumnIndex(sequence, value) \in Positions(sequence, value)
         /\ ColumnIndex(sequence, value) \in 1..Len(sequence)
         /\ \A i \in Positions(sequence, value) : ColumnIndex(sequence, value) <= i
<1> DEFINE T == Positions(sequence, value)
<1>1. T \subseteq 1..Len(sequence) /\ T \subseteq Nat
  BY DEF Positions
<1> HIDE DEF T
<1>2. \E i \in T : \A j \in T : i <= j
  BY <1>1, Smallest DEF T
<1> QED BY <1>1, <1>2 DEF ColumnIndex, T

LEMMA RunningTop ==
  ASSUME ExecutionInv, NEW kind, NEW pc, Running(kind, pc)
  PROVE  /\ stack # <<>> /\ Top \in Activation /\ Top.expr \in Query
         /\ Top.expr.kind = kind /\ Top.pc = pc
         /\ Parses(scan) /\ Active(Top, scan, LinesOf(Top.expr.name))
<1>1. stack # <<>> /\ stack \in Seq(Activation)
  BY DEF ExecutionInv, Running
<1> QED BY <1>1, TopOf DEF ExecutionInv, Running

\* A row goes to the result of an activation.
LEMMA AppendedRow ==
  ASSUME NEW next \in Activation, NEW row \in Seq(FieldValue)
  PROVE  LET g == [next EXCEPT !.output.rows = Append(@, row)]
         IN  /\ g \in Activation /\ g.expr = next.expr /\ g.pc = next.pc
             /\ g.lines = next.lines /\ g.header = next.header /\ g.mapping = next.mapping
             /\ g.left = next.left /\ g.right = next.right /\ g.keys = next.keys
             /\ g.row = next.row /\ g.inner = next.inner
             /\ g.output.schema = next.output.schema
             /\ g.output.rows = Append(next.output.rows, row)
<1> DEFINE Row == Seq(FieldValue)
           rows == Append(next.output.rows, row)
           output == [next.output EXCEPT !.rows = rows]
           g == [next EXCEPT !.output = output]
<1>1. next.output \in [schema : Seq(Column), rows : Seq(Row)] /\ row \in Row
  BY DEF Activation, Result
<1> HIDE DEF Row
<1>2. rows \in Seq(Row)
  BY <1>1
<1> HIDE DEF rows
<1>3. output \in Result /\ output.schema = next.output.schema /\ output.rows = rows
  BY <1>1, <1>2 DEF Result, Row
<1> HIDE DEF output
<1>4. /\ g \in Activation /\ g.expr = next.expr /\ g.pc = next.pc
      /\ g.lines = next.lines /\ g.header = next.header /\ g.mapping = next.mapping
      /\ g.left = next.left /\ g.right = next.right /\ g.keys = next.keys
      /\ g.row = next.row /\ g.inner = next.inner
      /\ g.output = output
  BY <1>3 DEF Activation
<1>5. [next EXCEPT !.output.rows = Append(@, row)] = g
  BY DEF output, rows
<1> QED BY <1>3, <1>4, <1>5 DEF rows

LEMMA RowPassed ==
  ASSUME NEW f \in Activation
  PROVE  LET g == [f EXCEPT !.row = @ + 1]
         IN  /\ g \in Activation /\ g.expr = f.expr /\ g.pc = f.pc
             /\ g.left = f.left /\ g.right = f.right /\ g.output = f.output /\ g.row = f.row + 1
<1> DEFINE row == f.row + 1
           g == [f EXCEPT !.row = row]
<1>1. row \in Nat
  BY DEF Activation
<1> HIDE DEF row
<1>2. /\ g \in Activation /\ g.expr = f.expr /\ g.pc = f.pc
      /\ g.left = f.left /\ g.right = f.right /\ g.output = f.output /\ g.row = row
  BY <1>1 DEF Activation
<1> QED BY <1>2 DEF row

\* A loop over rows, at a row it has not passed.
LEMMA InLoop ==
  ASSUME QueriesBuilt, NEW f \in Activation, f.expr.kind \in {"Select", "Project"},
         f.pc = "loop", NEW s, NEW lines, Active(f, s, lines)
  PROVE  LET input == f.expr.child.answer
             result == IF f.expr.kind = "Select" THEN SelectedRows(f.expr.condition, input)
                       ELSE ProjectedRows(f.expr.columns, input)
         IN  /\ f.expr \in Query /\ f.expr.child \in Query
             /\ UnaryActive(f, result)
             /\ input.error = "none" /\ f.left.schema = input.schema
             /\ f.output.schema = f.expr.schema
             /\ f.row \in 1..Len(f.left.rows) + 1 /\ Collects(f, result)
             /\ f.row # 1 => f.expr.answer.error = "none"
             /\ Len(f.left.rows) \in Nat
             /\ ~(f.row <= Len(f.left.rows)) /\ f.expr.answer.error # "none"
                  => DOMAIN input.rows = {}
             /\ f.row <= Len(f.left.rows) =>
                  /\ f.left.rows[f.row] \in Seq(FieldValue)
                  /\ Len(f.left.rows[f.row]) = Len(f.expr.child.schema)
                  /\ DOMAIN input.rows # {}
<1> DEFINE input == f.expr.child.answer
           result == IF f.expr.kind = "Select" THEN SelectedRows(f.expr.condition, input)
                     ELSE ProjectedRows(f.expr.columns, input)
<1>1. f.expr \in Query /\ Len(f.left.rows) \in Nat
  BY DEF Activation, Result
<1>2. f.expr.child \in Query
  BY <1>1, SelectAnswer, ProjectAnswer
<1>3. UnaryActive(f, result)
  BY DEF Active
<1>4. f # Frame(f.expr)
  BY DEF Frame
<1>5. /\ input.error = "none" /\ f.left.schema = input.schema
      /\ f.output.schema = f.expr.schema
      /\ f.row \in 1..Len(f.left.rows) + 1 /\ Collects(f, result)
      /\ f.row # 1 => f.expr.answer.error = "none"
  BY <1>3, <1>4 DEF UnaryActive
<1>6. ASSUME f.row <= Len(f.left.rows)
      PROVE  /\ f.left.rows[f.row] \in Seq(FieldValue)
             /\ Len(f.left.rows[f.row]) = Len(f.expr.child.schema)
             /\ DOMAIN input.rows # {}
  <2>1. PICK ids : Lists(ids, f.left.rows, DOMAIN input.rows, input.rows)
    BY <1>5 DEF Collects
  <2>2. f.row \in 1..Len(f.left.rows)
    BY <1>1, <1>5, <1>6
  <2> QED BY <1>2, <1>5, <2>1, <2>2, InputRows
<1>7. ASSUME ~(f.row <= Len(f.left.rows)), f.expr.answer.error # "none"
      PROVE  DOMAIN input.rows = {}
  <2>1. PICK ids : Lists(ids, f.left.rows, DOMAIN input.rows, input.rows)
    BY <1>5 DEF Collects
  <2>2. f.row = 1 /\ Len(f.left.rows) = 0 /\ Len(f.left.rows) = Len(ids)
    BY <1>1, <1>5, <1>7, <2>1 DEF Lists
  <2> QED BY <2>1, <2>2 DEF Lists
<1> QED BY <1>1, <1>2, <1>3, <1>5, <1>6, <1>7

\* The loop goes on as next, with a row more or not.
LEMMA LoopKept ==
  ASSUME QueriesBuilt, ExecutionInv, stack # <<>>, Top.expr.kind \in {"Select", "Project"},
         Top.pc = "loop", MoreRows, NEW result,
         result = IF Top.expr.kind = "Select"
                  THEN SelectedRows(Top.expr.condition, Top.expr.child.answer)
                  ELSE ProjectedRows(Top.expr.columns, Top.expr.child.answer),
         Top.expr.answer.error = "none",
         NEW row \in Seq(FieldValue), Len(row) = Len(Top.expr.schema), NEW kept \in BOOLEAN,
         \A id \in DOMAIN Top.expr.child.answer.rows :
           Top.expr.child.answer.rows[id] = InputRow
             => (id \in DOMAIN result <=> kept) /\ (kept => result[id] = row),
         IF kept THEN AppendRow(NextRow, row) ELSE Step(NextRow) /\ UNCHANGED <<plan, outcome>>,
         UNCHANGED <<scan, query, catalog>>
  PROVE  ExecutionInv'
<1> DEFINE f == Top
           next == NextRow
           more == [next EXCEPT !.output.rows = Append(@, row)]
           g == IF kept THEN more ELSE next
<1>1. f \in Activation /\ Parses(scan) /\ Active(f, scan, LinesOf(f.expr.name))
  BY TopOf DEF ExecutionInv
<1>2. /\ f.expr \in Query /\ UnaryActive(f, result)
      /\ f.expr.child.answer.error = "none" /\ f.left.schema = f.expr.child.answer.schema
      /\ f.output.schema = f.expr.schema
      /\ f.row \in 1..Len(f.left.rows) + 1 /\ Collects(f, result)
      /\ Len(f.left.rows) \in Nat
  BY <1>1, InLoop
<1>3. f.row \in 1..Len(f.left.rows) /\ f.row + 1 \in 1..Len(f.left.rows) + 1
  BY <1>2 DEF MoreRows
<1>4. /\ next \in Activation /\ next.expr = f.expr /\ next.pc = f.pc /\ next.left = f.left
      /\ next.output = f.output /\ next.row = f.row + 1
  BY <1>1, RowPassed DEF NextRow
<1>5. /\ more \in Activation /\ more.expr = next.expr /\ more.pc = next.pc /\ more.left = next.left
      /\ more.row = next.row /\ more.output.schema = next.output.schema
      /\ more.output.rows = Append(next.output.rows, row)
  BY <1>4, AppendedRow
<1>6. Step(g) /\ UNCHANGED <<plan, outcome>>
  <2>1. Len(row) = Len(next.output.schema)
    BY <1>2, <1>4
  <2> QED BY <2>1 DEF AppendRow
<1> HIDE DEF more, next
<1>7. /\ g \in Activation /\ g.expr = f.expr /\ g.pc = f.pc /\ g.left = f.left
      /\ g.row = f.row + 1 /\ g.output.schema = f.output.schema
      /\ g.output.rows = IF kept THEN Append(f.output.rows, row) ELSE f.output.rows
  BY <1>4, <1>5
<1>8. \A id \in DOMAIN f.expr.child.answer.rows :
        f.expr.child.answer.rows[id] = f.left.rows[f.row]
          => (id \in DOMAIN result <=> kept) /\ (kept => result[id] = row)
  BY DEF InputRow
<1> HIDE DEF g, f
<1>9. Collects(g, result)
  BY <1>1, <1>2, <1>3, <1>7, <1>8, CollectsNext
<1>10. UnaryActive(g, result)
  BY <1>2, <1>3, <1>7, <1>9 DEF UnaryActive, f
<1>11. Active(g, scan', LinesOf(g.expr.name))
  BY <1>7, <1>10 DEF Active, f
<1>12. SameMeaning(g.expr, Top.expr)
  BY <1>7 DEF SameMeaning, f
<1> QED BY <1>1, <1>6, <1>7, <1>11, <1>12, StepKept

LEMMA SelectRowKept ==
  ASSUME QueriesBuilt, ExecutionInv, SelectRow, UNCHANGED <<query, catalog>>
  PROVE  ExecutionInv'
<1> DEFINE f == Top
           input == f.expr.child.answer
           result == SelectedRows(f.expr.condition, input)
           row == InputRow
           kept == Evaluate(f.expr.condition, f.left.schema, row)
<1>1. /\ stack # <<>> /\ f \in Activation /\ f.expr \in Query
      /\ f.expr.kind = "Select" /\ f.pc = "loop" /\ Parses(scan)
      /\ Active(f, scan, LinesOf(f.expr.name)) /\ MoreRows
  BY RunningTop DEF SelectRow
<1>2. /\ input.error = "none" /\ f.left.schema = input.schema
      /\ row \in Seq(FieldValue) /\ Len(row) = Len(f.expr.child.schema) /\ DOMAIN input.rows # {}
  BY <1>1, InLoop DEF MoreRows, InputRow
<1>3. UNCHANGED scan /\ Parses(scan')
  BY <1>1 DEF SelectRow
<1>4. CASE f.expr.condition.raw
  <2>1. Throw("raw")
    BY <1>4 DEF SelectRow
  <2>2. f.expr.answer.error = "raw"
    BY <1>1, <1>2, <1>4, SelectAnswer
  <2> QED BY <1>1, <1>3, <2>1, <2>2, ThrowKept
<1>5. CASE ~f.expr.condition.raw
  <2>1. IF kept THEN AppendRow(NextRow, row) ELSE Step(NextRow) /\ UNCHANGED <<plan, outcome>>
    BY <1>5 DEF SelectRow
  <2>2. kept \in BOOLEAN
    BY DEF Evaluate
  <2>3. \A id \in DOMAIN input.rows :
          input.rows[id] = row => (id \in DOMAIN result <=> kept) /\ (kept => result[id] = row)
    BY <1>2 DEF SelectedRows
  <2>4. Len(row) = Len(f.expr.schema)
    BY <1>1, <1>2, SelectAnswer
  <2>5. result = IF Top.expr.kind = "Select"
                 THEN SelectedRows(Top.expr.condition, Top.expr.child.answer)
                 ELSE ProjectedRows(Top.expr.columns, Top.expr.child.answer)
    BY <1>1
  <2>6. f.expr.answer.error = "none"
    <3>1. f.expr.answer = Answer(f.expr.schema, result)
      BY <1>1, <1>2, <1>5, SelectAnswer
    <3> QED BY <3>1 DEF Answer
  <2> HIDE DEF kept, result
  <2> QED BY <1>1, <1>2, <1>3, <2>1, <2>2, <2>3, <2>4, <2>5, <2>6, LoopKept
<1> QED BY <1>4, <1>5

LEMMA ProjectRowKept ==
  ASSUME QueriesBuilt, ExecutionInv, ProjectRow, UNCHANGED <<query, catalog>>
  PROVE  ExecutionInv'
<1> DEFINE f == Top
           columns == f.expr.columns
           input == f.expr.child.answer
           result == ProjectedRows(columns, input)
           row == ProjectedRow(columns, f.left.schema, InputRow)
           size == Len(columns)
<1>1. /\ stack # <<>> /\ f \in Activation /\ f.expr \in Query
      /\ f.expr.kind = "Project" /\ f.pc = "loop" /\ Parses(scan)
      /\ Active(f, scan, LinesOf(f.expr.name)) /\ MoreRows
  BY RunningTop DEF ProjectRow
<1>2. /\ f.expr.child \in Query /\ input.error = "none" /\ f.left.schema = input.schema
      /\ InputRow \in Seq(FieldValue) /\ Len(InputRow) = Len(f.expr.child.schema)
      /\ DOMAIN input.rows # {}
  BY <1>1, InLoop DEF MoreRows, InputRow
<1>3. UNCHANGED scan /\ Parses(scan')
  BY <1>1 DEF ProjectRow
<1>4. columns \in Seq(Column) /\ f.expr.schema = columns /\ input.schema = f.expr.child.schema
      /\ f.expr.child.schema \in Seq(Column)
  BY <1>1, <1>2, ProjectAnswer, AnswersOf
<1>5. CASE ~AllColumnsIncluded(columns, f.left.schema)
  <2>1. Throw("column")
    BY <1>5 DEF ProjectRow
  <2>2. f.expr.answer.error = "column"
    BY <1>1, <1>2, <1>5, ProjectAnswer
  <2> QED BY <1>1, <1>3, <2>1, <2>2, ThrowKept
<1>6. CASE AllColumnsIncluded(columns, f.left.schema)
  <2> DEFINE kept == TRUE
  <2>1. IF kept THEN AppendRow(NextRow, row) ELSE Step(NextRow) /\ UNCHANGED <<plan, outcome>>
    BY <1>6 DEF ProjectRow
  <2>2. \A id \in DOMAIN input.rows :
          input.rows[id] = InputRow => (id \in DOMAIN result <=> kept) /\ (kept => result[id] = row)
    BY <1>2 DEF ProjectedRows
  <2>3. row \in Seq(FieldValue) /\ Len(row) = Len(f.expr.schema)
    <3> DEFINE place(k) == ColumnIndex(f.left.schema, columns[k])
    <3>1. ASSUME NEW k \in 1..size PROVE InputRow[place(k)] \in FieldValue
      <4>1. place(k) \in 1..Len(f.left.schema)
        <5>1. Positions(f.left.schema, columns[k]) # {}
          BY <1>4, <1>6 DEF AllColumnsIncluded, SequenceContains
        <5>2. f.left.schema \in Seq(Column)
          BY <1>2, <1>4
        <5> QED BY <5>1, <5>2, IndexFound
      <4>2. Len(f.left.schema) = Len(InputRow)
        BY <1>2, <1>4
      <4> QED BY <1>2, <4>1, <4>2
    <3>2. row = [k \in 1..size |-> InputRow[place(k)]] /\ size \in Nat
      BY <1>4 DEF ProjectedRow
    <3> HIDE DEF place, row, size
    <3>3. row \in Seq(FieldValue) /\ Len(row) = size
      BY <3>1, <3>2
    <3> QED BY <1>4, <3>3 DEF size
  <2>4. result = IF Top.expr.kind = "Select"
                 THEN SelectedRows(Top.expr.condition, Top.expr.child.answer)
                 ELSE ProjectedRows(Top.expr.columns, Top.expr.child.answer)
    BY <1>1
  <2>5. kept \in BOOLEAN
    OBVIOUS
  <2>6. f.expr.answer.error = "none"
    <3>1. f.expr.answer = Answer(f.expr.schema, result)
      BY <1>1, <1>2, <1>6, ProjectAnswer
    <3> QED BY <3>1 DEF Answer
  <2> HIDE DEF kept, result, row
  <2> QED BY <1>1, <1>2, <1>3, <2>1, <2>2, <2>3, <2>4, <2>5, <2>6, LoopKept
<1> QED BY <1>5, <1>6

\* A loop that has passed every row has what its expression means.
LEMMA LoopGives ==
  ASSUME QueriesBuilt, NEW f \in Activation, f.expr.kind \in {"Select", "Project"},
         f.pc = "loop", NEW s, NEW lines, Active(f, s, lines), ~(f.row <= Len(f.left.rows)),
         NEW result, f.expr.answer = Answer(f.expr.schema, result),
         result = IF f.expr.kind = "Select"
                  THEN SelectedRows(f.expr.condition, f.expr.child.answer)
                  ELSE ProjectedRows(f.expr.columns, f.expr.child.answer)
  PROVE  Gives(f.output, f.expr)
<1>1. /\ f.output.schema = f.expr.schema /\ f.row \in 1..Len(f.left.rows) + 1
      /\ Collects(f, result) /\ Len(f.left.rows) \in Nat
  BY InLoop
<1>2. f.row > Len(f.left.rows)
  BY <1>1
<1>3. DOMAIN result \subseteq DOMAIN f.expr.child.answer.rows
  BY DEF SelectedRows, ProjectedRows
<1>4. \E out : Lists(out, f.output.rows, DOMAIN result, result)
  BY <1>1, <1>2, <1>3, CollectsAll
<1>5. f.expr.answer.error = "none" /\ f.expr.answer.schema = f.expr.schema
      /\ f.expr.answer.rows = result
  BY DEF Answer
<1> QED BY <1>1, <1>4, <1>5 DEF Gives

LEMMA ReturnSelectKept ==
  ASSUME QueriesBuilt, ExecutionInv, ReturnSelect, UNCHANGED <<query, catalog>>
  PROVE  ExecutionInv'
<1> DEFINE f == Top
           input == f.expr.child.answer
           result == SelectedRows(f.expr.condition, input)
           entries == << <<"Filter", f.expr.condition>> >>
<1>1. /\ stack # <<>> /\ f \in Activation /\ f.expr \in Query
      /\ f.expr.kind = "Select" /\ f.pc = "loop" /\ Parses(scan)
      /\ Active(f, scan, LinesOf(f.expr.name))
  BY RunningTop DEF ReturnSelect
<1>2. /\ ~(f.row <= Len(f.left.rows)) /\ Return(f.output, entries) /\ UNCHANGED scan
      /\ f.output \in Result
  BY <1>1 DEF ReturnSelect, MoreRows, Activation
\* A raw condition throws at the first row, so there was none.
<1>3. f.expr.answer = Answer(f.expr.schema, result)
  <2>1. input.error = "none" /\ (f.expr.answer.error # "none" => DOMAIN input.rows = {})
    BY <1>1, <1>2, InLoop
  <2> QED BY <1>1, <2>1, SelectAnswer
<1>4. Gives(f.output, f.expr)
  BY <1>1, <1>2, <1>3, LoopGives
<1> HIDE DEF entries
<1> QED BY <1>1, <1>2, <1>4, ReturnKept

LEMMA ReturnProjectKept ==
  ASSUME QueriesBuilt, ExecutionInv, ReturnProject, UNCHANGED <<query, catalog>>
  PROVE  ExecutionInv'
<1> DEFINE f == Top
           input == f.expr.child.answer
           result == ProjectedRows(f.expr.columns, input)
           entries == << <<"Project", f.expr.columns>> >>
<1>1. /\ stack # <<>> /\ f \in Activation /\ f.expr \in Query
      /\ f.expr.kind = "Project" /\ f.pc = "loop" /\ Parses(scan)
      /\ Active(f, scan, LinesOf(f.expr.name))
  BY RunningTop DEF ReturnProject
<1>2. /\ ~(f.row <= Len(f.left.rows)) /\ Return(f.output, entries) /\ UNCHANGED scan
      /\ f.output \in Result
  BY <1>1 DEF ReturnProject, MoreRows, Activation
<1>3. f.expr.answer = Answer(f.expr.schema, result)
  <2>1. input.error = "none" /\ (f.expr.answer.error # "none" => DOMAIN input.rows = {})
    BY <1>1, <1>2, InLoop
  <2> QED BY <1>1, <2>1, ProjectAnswer
<1>4. Gives(f.output, f.expr)
  BY <1>1, <1>2, <1>3, LoopGives
<1> HIDE DEF entries
<1> QED BY <1>1, <1>2, <1>4, ReturnKept

LEMMA ExecuteChildKept ==
  ASSUME QueriesBuilt, ExecutionInv, ExecuteChild, UNCHANGED <<query, catalog>>
  PROVE  ExecutionInv'
<1> DEFINE f == Top
           output == [f.output EXCEPT !.schema = f.expr.schema]
           g == [f EXCEPT !.pc = "loop", !.output = output]
<1>1. /\ stack # <<>> /\ f \in Activation /\ f.expr \in Query
      /\ f.expr.kind \in {"Select", "Project"} /\ f.pc = "begin" /\ Parses(scan)
      /\ Active(f, scan, LinesOf(f.expr.name))
  BY RunningTop DEF ExecuteChild
<1>2. f = Frame(f.expr)
  BY <1>1 DEF Active, UnaryActive
<1>3. f.output = NoResult /\ f.row = 1
  BY <1>2 DEF Frame
<1>4. f.expr.child \in Query /\ f.expr.schema \in Seq(Column)
  BY <1>1, SelectAnswer, ProjectAnswer, AnswersOf
<1>5. output = [schema |-> f.expr.schema, rows |-> <<>>] /\ output \in Result
  <2>1. f.output \in Result
    BY <1>1 DEF Activation
  <2>2. output \in Result
    BY <1>4, <2>1 DEF Result
  <2> QED BY <1>3, <2>2 DEF NoResult
<1> HIDE DEF output
<1>6. /\ g \in Activation /\ g.expr = f.expr /\ g.pc = "loop" /\ g.output = output /\ g.row = f.row
  BY <1>1, <1>5 DEF Activation
<1>7. Call(g, f.expr.child) /\ UNCHANGED <<scan, plan, outcome>>
  BY <1>1 DEF ExecuteChild, output
<1> HIDE DEF g
<1>8. Waits(g, f.expr.child)
  BY <1>1, <1>3, <1>5, <1>6 DEF Waits, SameMeaning
<1> QED BY <1>1, <1>4, <1>6, <1>7, <1>8, CallKept

LEMMA ExecuteRenameKept ==
  ASSUME QueriesBuilt, ExecutionInv, ExecuteRename, UNCHANGED <<query, catalog>>
  PROVE  ExecutionInv'
<1> DEFINE g == Frame(Top.expr.child)
<1>1. /\ stack # <<>> /\ Top.expr \in Query /\ Top.expr.kind = "Rename" /\ Parses(scan)
  BY RunningTop DEF ExecuteRename
<1>2. Top.expr.child \in Query /\ SameMeaning(Top.expr.child, Top.expr)
  BY <1>1, RenameAnswer DEF SameMeaning
<1>3. g \in Activation /\ g.expr = Top.expr.child
  BY <1>2, FreshActivation
<1>4. Active(g, scan', LinesOf(g.expr.name))
  BY <1>2, FreshActive
<1>5. Step(g) /\ UNCHANGED <<scan, outcome>>
  BY DEF ExecuteRename, Step
<1> HIDE DEF g
<1> QED BY <1>1, <1>2, <1>3, <1>4, <1>5, StepKept

-----------------------------------------------------------------------------
(* The nested loops of a join.                                             *)

\* The loops compare one pair more.
LEMMA PairsNext ==
  ASSUME NEW f \in Activation, NEW g, g.expr = f.expr, g.left = f.left, g.right = f.right,
         g.row = f.row, g.inner = f.inner + 1,
         f.row \in 1..Len(f.left.rows), f.inner \in 1..Len(f.right.rows),
         NEW result, CollectsPairs(f, result),
         NEW row \in Seq(FieldValue), NEW kept \in BOOLEAN,
         \A l \in DOMAIN f.expr.left.answer.rows : \A r \in DOMAIN f.expr.right.answer.rows :
           f.expr.left.answer.rows[l] = f.left.rows[f.row]
             /\ f.expr.right.answer.rows[r] = f.right.rows[f.inner]
             => (<<l, r>> \in DOMAIN result <=> kept) /\ (kept => result[<<l, r>>] = row),
         g.output.rows = IF kept THEN Append(f.output.rows, row) ELSE f.output.rows
  PROVE  CollectsPairs(g, result)
<1> DEFINE left == f.expr.left.answer
           right == f.expr.right.answer
           L == 1..Len(f.left.rows)
           R == 1..Len(f.right.rows)
           D == DOMAIN result
<1>1. PICK ids, others :
        /\ Lists(ids, f.left.rows, DOMAIN left.rows, left.rows)
        /\ Lists(others, f.right.rows, DOMAIN right.rows, right.rows)
        /\ \E out : Lists(out, f.output.rows,
                          PairsOf(f, ids, others) \cap D,
                          result)
  BY DEF CollectsPairs, CollectsFrom
<1> DEFINE here == <<f.row, f.inner>>
           pair(place) == <<ids[place[1]], others[place[2]]>>
           id == pair(here)
           Before == {pair(place) : place \in Compared(f)}
           Until == {pair(place) : place \in Compared(g)}
<1>2. /\ \A i \in L : ids[i] \in DOMAIN left.rows /\ left.rows[ids[i]] = f.left.rows[i]
      /\ \A i, j \in L : ids[i] = ids[j] => i = j
  BY <1>1, ListedItems
<1>3. /\ \A i \in R : others[i] \in DOMAIN right.rows /\ right.rows[others[i]] = f.right.rows[i]
      /\ \A i, j \in R : others[i] = others[j] => i = j
  BY <1>1, ListedItems
<1>4. /\ L \subseteq Nat /\ R \subseteq Nat /\ f.row \in L /\ f.inner \in R
      /\ here \in L \X R /\ here[1] = f.row /\ here[2] = f.inner
  <2>1. L \subseteq Nat /\ R \subseteq Nat
    OBVIOUS
  <2>2. f.row \in L /\ f.inner \in R
    OBVIOUS
  <2> HIDE DEF L, R
  <2> QED BY <2>1, <2>2
<1>5. /\ Compared(f) = {place \in L \X R : place[1] < f.row \/ (place[1] = f.row /\ place[2] < f.inner)}
      /\ Compared(g) = {place \in L \X R :
                          place[1] < f.row \/ (place[1] = f.row /\ place[2] < f.inner + 1)}
  BY DEF Compared
<1>6. Compared(g) = Compared(f) \cup {here} /\ here \notin Compared(f)
  <2>1. here \notin Compared(f)
    BY <1>4, <1>5
  <2>2. \A i \in L : \A j \in R :
          (i < f.row \/ (i = f.row /\ j < f.inner + 1))
            <=> (i < f.row \/ (i = f.row /\ j < f.inner)) \/ (i = f.row /\ j = f.inner)
    <3> SUFFICES ASSUME NEW i \in L, NEW j \in R
                 PROVE  (i < f.row \/ (i = f.row /\ j < f.inner + 1))
                          <=> (i < f.row \/ (i = f.row /\ j < f.inner)) \/ (i = f.row /\ j = f.inner)
      OBVIOUS
    <3>1. i \in Nat /\ j \in Nat /\ f.row \in Nat /\ f.inner \in Nat
      BY <1>4
    <3> HIDE DEF L, R
    <3> QED BY <3>1
  <2>3. ASSUME NEW place PROVE place \in Compared(g) <=> place \in Compared(f) \cup {here}
    <3>1. CASE place \in L \X R
      <4>1. PICK i \in L, j \in R : place = <<i, j>>
        BY <3>1
      <4>2. place = here <=> i = f.row /\ j = f.inner
        BY <4>1
      <4>3. place[1] = i /\ place[2] = j
        BY <4>1
      <4> HIDE DEF here, L, R
      <4>4. place \in Compared(g) <=> (i < f.row \/ (i = f.row /\ j < f.inner + 1))
        BY <1>5, <3>1, <4>3
      <4>5. place \in Compared(f) <=> (i < f.row \/ (i = f.row /\ j < f.inner))
        BY <1>5, <3>1, <4>3
      <4> QED BY <2>2, <4>2, <4>4, <4>5
    <3>2. CASE place \notin L \X R
      BY <1>4, <1>5, <3>2
    <3> QED BY <3>1, <3>2
  <2> QED BY <2>1, <2>3
<1>7. Until = Before \cup {id}
  BY <1>6
<1>8. id \notin Before
  <2> SUFFICES ASSUME NEW place \in Compared(f), pair(place) = id PROVE FALSE
    OBVIOUS
  <2>1. place \in L \X R
    BY <1>5
  <2>2. PICK i \in L, j \in R : place = <<i, j>>
    BY <2>1
  <2>3. pair(place) = <<ids[i], others[j]>> /\ id = <<ids[f.row], others[f.inner]>>
    BY <2>2
  <2>4. ids[i] = ids[f.row] /\ others[j] = others[f.inner]
    BY <2>3
  <2>5. i = f.row /\ j = f.inner
    BY <1>2, <1>3, <1>4, <2>4
  <2> QED BY <1>6, <2>2, <2>5
<1>9. (id \in D <=> kept) /\ (kept => result[id] = row)
  <2> DEFINE l == ids[f.row]
             r == others[f.inner]
  <2>1. id = <<l, r>>
    OBVIOUS
  <2>2. /\ l \in DOMAIN f.expr.left.answer.rows /\ f.expr.left.answer.rows[l] = f.left.rows[f.row]
        /\ r \in DOMAIN f.expr.right.answer.rows
        /\ f.expr.right.answer.rows[r] = f.right.rows[f.inner]
    BY <1>2, <1>3, <1>4
  <2> HIDE DEF id, l, r
  <2> QED BY <2>1, <2>2
<1> DEFINE old == Before \cap D
           new == Until \cap D
<1>10. \E out : Lists(out, f.output.rows, old, result)
  BY <1>1 DEF PairsOf
<1> HIDE DEF id, Before, Until, D
<1>11. new = (IF kept THEN old \cup {id} ELSE old) /\ id \notin old
  BY <1>7, <1>8, <1>9
<1> HIDE DEF old, new
<1>12. \E out : Lists(out, g.output.rows, new, result)
  <2>1. CASE kept
    <3> DEFINE Row == Seq(FieldValue)
    <3>1. f.output.rows \in Seq(Row) /\ row \in Row /\ row = result[id]
      BY <1>9, <2>1 DEF Activation, Result
    <3> HIDE DEF Row
    <3>2. \E out : Lists(out, Append(f.output.rows, row), old \cup {id}, result)
      BY <1>10, <1>11, <3>1, ListsOneMore
    <3> QED BY <1>11, <2>1, <3>2
  <2>2. CASE ~kept
    BY <1>10, <1>11, <2>2
  <2> QED BY <2>1, <2>2
<1>13. new = PairsOf(g, ids, others) \cap DOMAIN result
  BY DEF new, Until, D, PairsOf
<1>14. /\ Lists(ids, g.left.rows, DOMAIN g.expr.left.answer.rows, g.expr.left.answer.rows)
       /\ Lists(others, g.right.rows, DOMAIN g.expr.right.answer.rows, g.expr.right.answer.rows)
       /\ \E out : Lists(out, g.output.rows,
                         PairsOf(g, ids, others) \cap DOMAIN result, result)
  BY <1>1, <1>12, <1>13
<1> QED BY <1>14 DEF CollectsPairs, CollectsFrom

\* The inner loop has ended, and the outer one goes on.
LEMMA PairsWrap ==
  ASSUME NEW f \in Activation, NEW g, g.expr = f.expr, g.left = f.left, g.right = f.right,
         g.output = f.output, g.row = f.row + 1, g.inner = 1,
         f.row \in 1..Len(f.left.rows), f.inner \in 1..Len(f.right.rows) + 1,
         f.inner > Len(f.right.rows),
         NEW result, CollectsPairs(f, result)
  PROVE  CollectsPairs(g, result)
<1> DEFINE L == 1..Len(f.left.rows)
           R == 1..Len(f.right.rows)
<1>1. Len(f.left.rows) \in Nat /\ Len(f.right.rows) \in Nat
  <2>1. f.left \in Result /\ f.right \in Result
    BY DEF Activation
  <2> QED BY <2>1 DEF Result
<1>2. L \subseteq Nat /\ f.row \in Nat
      /\ \A j \in R : j \in Nat /\ j < f.inner /\ ~(j < 1)
  BY <1>1
<1>3. /\ Compared(f) = {place \in L \X R : place[1] < f.row \/ (place[1] = f.row /\ place[2] < f.inner)}
      /\ Compared(g) = {place \in L \X R :
                          place[1] < f.row + 1 \/ (place[1] = f.row + 1 /\ place[2] < 1)}
  BY DEF Compared
<1> HIDE DEF L, R
<1>4. ASSUME NEW place \in L \X R PROVE place \in Compared(g) <=> place \in Compared(f)
  <2>1. place[1] \in Nat /\ place[2] < f.inner /\ ~(place[2] < 1)
    BY <1>2
  <2>2. place[1] < f.row + 1 <=> place[1] < f.row \/ place[1] = f.row
    BY <1>2, <2>1
  <2> QED BY <1>3, <2>1, <2>2
<1>5. Compared(g) = Compared(f)
  BY <1>3, <1>4
<1>6. PICK ids, others :
        /\ Lists(ids, f.left.rows, DOMAIN f.expr.left.answer.rows, f.expr.left.answer.rows)
        /\ Lists(others, f.right.rows, DOMAIN f.expr.right.answer.rows, f.expr.right.answer.rows)
        /\ \E out : Lists(out, f.output.rows,
                          PairsOf(f, ids, others) \cap DOMAIN result, result)
  BY DEF CollectsPairs, CollectsFrom
<1>7. /\ Lists(ids, g.left.rows, DOMAIN g.expr.left.answer.rows, g.expr.left.answer.rows)
      /\ Lists(others, g.right.rows, DOMAIN g.expr.right.answer.rows, g.expr.right.answer.rows)
      /\ \E out : Lists(out, g.output.rows,
                        PairsOf(g, ids, others) \cap DOMAIN result, result)
  BY <1>5, <1>6 DEF PairsOf
<1> QED BY <1>7 DEF CollectsPairs, CollectsFrom

LEMMA PairsAll ==
  ASSUME NEW f \in Activation, f.row \in 1..Len(f.left.rows) + 1, f.row > Len(f.left.rows),
         NEW result, CollectsPairs(f, result),
         DOMAIN result \subseteq (DOMAIN f.expr.left.answer.rows) \X (DOMAIN f.expr.right.answer.rows)
  PROVE  \E out : Lists(out, f.output.rows, DOMAIN result, result)
<1> DEFINE left == f.expr.left.answer
           right == f.expr.right.answer
           D == DOMAIN result
<1>1. PICK ids, others :
        /\ Lists(ids, f.left.rows, DOMAIN left.rows, left.rows)
        /\ Lists(others, f.right.rows, DOMAIN right.rows, right.rows)
        /\ \E out : Lists(out, f.output.rows,
                          PairsOf(f, ids, others) \cap D,
                          result)
  BY DEF CollectsPairs, CollectsFrom
<1>2. Len(f.left.rows) \in Nat
  BY DEF Activation, Result
<1>3. \A i \in 1..Len(f.left.rows) : i < f.row
  BY <1>2
<1>4. ASSUME NEW pair \in D
      PROVE  pair \in PairsOf(f, ids, others)
  <2>1. PICK l \in DOMAIN left.rows, r \in DOMAIN right.rows : pair = <<l, r>>
    BY <1>4
  <2>2. PICK i \in 1..Len(f.left.rows) : ids[i] = l
    BY <1>1, <2>1 DEF Lists
  <2>3. PICK j \in 1..Len(f.right.rows) : others[j] = r
    BY <1>1, <2>1 DEF Lists
  <2> DEFINE place == <<i, j>>
  <2>4. place \in Compared(f) /\ place[1] = i /\ place[2] = j
    BY <1>3, <2>2, <2>3 DEF Compared
  <2>5. pair = <<ids[place[1]], others[place[2]]>>
    BY <2>1, <2>2, <2>3
  <2> HIDE DEF place
  <2> QED BY <2>4, <2>5 DEF PairsOf
<1>5. PairsOf(f, ids, others) \cap D = D
  BY <1>4
<1> QED BY <1>1, <1>5

LEMMA ExecuteLeftKept ==
  ASSUME QueriesBuilt, ExecutionInv, ExecuteLeft, UNCHANGED <<query, catalog>>
  PROVE  ExecutionInv'
<1> DEFINE f == Top
           g == [f EXCEPT !.pc = "left"]
<1>1. /\ stack # <<>> /\ f \in Activation /\ f.expr \in Query
      /\ f.expr.kind = "Join" /\ f.pc = "begin" /\ Parses(scan)
      /\ Active(f, scan, LinesOf(f.expr.name))
  BY RunningTop DEF ExecuteLeft
<1>2. f = Frame(f.expr)
  BY <1>1 DEF Active, JoinActive
<1>3. f.output = NoResult /\ f.row = 1 /\ f.inner = 1
  BY <1>2 DEF Frame
<1>4. f.expr.left \in Query
  BY <1>1, JoinAnswer
<1>5. /\ g \in Activation /\ g.expr = f.expr /\ g.pc = "left" /\ g.output = f.output
      /\ g.row = f.row /\ g.inner = f.inner
  BY <1>1 DEF Activation
<1>6. Call(g, f.expr.left) /\ UNCHANGED <<scan, plan, outcome>>
  BY <1>1 DEF ExecuteLeft
<1> HIDE DEF g
<1>7. Waits(g, f.expr.left)
  BY <1>1, <1>3, <1>5 DEF Waits, LoopsBegin, SameMeaning
<1> QED BY <1>1, <1>4, <1>5, <1>6, <1>7, CallKept

LEMMA ExecuteRightKept ==
  ASSUME QueriesBuilt, ExecutionInv, ExecuteRight, UNCHANGED <<query, catalog>>
  PROVE  ExecutionInv'
<1> DEFINE f == Top
           g == [f EXCEPT !.pc = "right"]
<1>1. /\ stack # <<>> /\ f \in Activation /\ f.expr \in Query
      /\ f.expr.kind = "Join" /\ f.pc = "left" /\ Parses(scan)
      /\ Active(f, scan, LinesOf(f.expr.name))
  BY RunningTop DEF ExecuteRight
<1>2. LoopsBegin(f) /\ Gives(f.left, f.expr.left)
  <2>1. f # Frame(f.expr)
    BY <1>1 DEF Frame
  <2> QED BY <1>1, <2>1 DEF Active, JoinActive
<1>3. f.expr.right \in Query
  BY <1>1, JoinAnswer
<1>4. /\ g \in Activation /\ g.expr = f.expr /\ g.pc = "right" /\ g.output = f.output
      /\ g.row = f.row /\ g.inner = f.inner /\ g.left = f.left
  BY <1>1 DEF Activation
<1>5. Call(g, f.expr.right) /\ UNCHANGED <<scan, plan, outcome>>
  BY <1>1 DEF ExecuteRight
<1> HIDE DEF g
<1>6. Waits(g, f.expr.right)
  BY <1>1, <1>2, <1>4 DEF Waits, LoopsBegin, SameMeaning
<1> QED BY <1>1, <1>3, <1>4, <1>5, <1>6, CallKept

LEMMA FindKeysKept ==
  ASSUME QueriesBuilt, ExecutionInv, FindKeys, UNCHANGED <<query, catalog>>
  PROVE  ExecutionInv'
<1> DEFINE f == Top
           expr == f.expr
<1>1. /\ stack # <<>> /\ f \in Activation /\ expr \in Query
      /\ expr.kind = "Join" /\ f.pc = "right" /\ Parses(scan)
      /\ Active(f, scan, LinesOf(expr.name))
  BY RunningTop DEF FindKeys
<1>2. LoopsBegin(f) /\ Gives(f.left, expr.left) /\ Gives(f.right, expr.right)
  <2>1. f # Frame(expr)
    BY <1>1 DEF Frame
  <2> QED BY <1>1, <2>1 DEF Active, JoinActive
<1>3. /\ expr.left \in Query /\ expr.right \in Query
      /\ expr.left.answer.error = "none" /\ expr.right.answer.error = "none"
      /\ f.left.schema = expr.left.answer.schema /\ f.right.schema = expr.right.answer.schema
      /\ expr.schema \in Seq(Column)
  BY <1>1, <1>2, JoinAnswer, AnswersOf DEF Gives
<1>4. UNCHANGED scan /\ Parses(scan')
  BY <1>1 DEF FindKeys
<1> DEFINE there == /\ SequenceContains(f.left.schema, expr.leftColumn)
                    /\ SequenceContains(f.right.schema, expr.rightColumn)
<1>5. CASE ~there
  <2>1. Throw("column")
    BY <1>5 DEF FindKeys
  <2>2. expr.answer.error = "column"
    BY <1>1, <1>3, <1>5, JoinAnswer
  <2> QED BY <1>1, <1>4, <2>1, <2>2, ThrowKept
<1>6. CASE there
  <2> DEFINE a == ColumnIndex(f.left.schema, expr.leftColumn)
             b == ColumnIndex(f.right.schema, expr.rightColumn)
             keys == <<a, b>>
             output == [f.output EXCEPT !.schema = expr.schema]
             g == [f EXCEPT !.keys = keys, !.output = output, !.pc = "loop"]
             result == JoinedRows(expr.left.answer, expr.right.answer,
                                  expr.leftColumn, expr.rightColumn)
  <2>1. Step(g) /\ UNCHANGED <<plan, outcome>>
    BY <1>6 DEF FindKeys
  <2>2. keys \in Nat \X Nat
    <3>1. f.left.schema \in Seq(Column) /\ f.right.schema \in Seq(Column)
      BY <1>1 DEF Activation, Result
    <3>2. a \in Nat /\ b \in Nat
      BY <1>6, <3>1, IndexFound DEF SequenceContains
    <3> QED BY <3>2
  <2>3. output \in Result /\ output.schema = expr.schema /\ output.rows = <<>>
    <3>1. f.output \in Result /\ f.output = NoResult
      BY <1>1, <1>2 DEF Activation, LoopsBegin
    <3>2. f.output.rows = <<>>
      BY <3>1 DEF NoResult
    <3>3. output \in Result /\ output.schema = expr.schema /\ output.rows = f.output.rows
      BY <1>3, <3>1 DEF Result
    <3> QED BY <3>2, <3>3
  <2> HIDE DEF keys, output
  <2>4. /\ g \in Activation /\ g.expr = expr /\ g.pc = "loop" /\ g.output = output
        /\ g.row = f.row /\ g.inner = f.inner /\ g.left = f.left /\ g.right = f.right
        /\ g.keys = keys
    BY <1>1, <2>2, <2>3 DEF Activation
  <2>5. f.row = 1 /\ f.inner = 1
    BY <1>2 DEF LoopsBegin
  <2> HIDE DEF g
  <2>6. CollectsPairs(g, result)
    <3>1. PICK ids : Lists(ids, f.left.rows, DOMAIN expr.left.answer.rows, expr.left.answer.rows)
      BY <1>2 DEF Gives
    <3>2. PICK others : Lists(others, f.right.rows, DOMAIN expr.right.answer.rows,
                              expr.right.answer.rows)
      BY <1>2 DEF Gives
    <3> DEFINE S == PairsOf(g, ids, others) \cap DOMAIN result
    <3>3. S = {}
      <4>1. Compared(g) = {}
        BY <2>4, <2>5 DEF Compared
      <4> QED BY <4>1 DEF PairsOf
    <3>4. \E out : Lists(out, g.output.rows, S, result)
      <4> HIDE DEF S, result
      <4> QED BY <2>3, <2>4, <3>3, NothingListed
    <3>5. CollectsFrom(g, ids, others, result)
      BY <2>4, <3>1, <3>2, <3>4 DEF CollectsFrom
    <3> QED BY <3>5 DEF CollectsPairs
  <2>7. JoinActive(g)
    <3>1. Len(f.left.rows) \in Nat /\ Len(f.right.rows) \in Nat
      BY <1>1 DEF Activation, Result
    <3>2. f.row \in 1..Len(f.left.rows) + 1 /\ f.inner \in 1..Len(f.right.rows) + 1
      BY <2>5, <3>1
    <3> HIDE DEF f
    <3> QED BY <1>3, <1>6, <2>3, <2>4, <2>6, <3>2 DEF JoinActive, keys
  <2>8. Active(g, scan', LinesOf(g.expr.name))
    BY <1>1, <2>4, <2>7 DEF Active
  <2>9. SameMeaning(g.expr, Top.expr)
    BY <2>4 DEF SameMeaning
  <2> QED BY <1>1, <1>4, <2>1, <2>4, <2>8, <2>9, StepKept DEF g, output, keys
<1> QED BY <1>5, <1>6

\* The nested loops, at a pair or behind them.
LEMMA InJoin ==
  ASSUME QueriesBuilt, NEW f \in Activation, f.expr.kind = "Join", f.pc = "loop",
         NEW s, NEW lines, Active(f, s, lines)
  PROVE  LET expr == f.expr
             result == JoinedRows(expr.left.answer, expr.right.answer,
                                  expr.leftColumn, expr.rightColumn)
         IN  /\ expr \in Query /\ expr.left \in Query /\ expr.right \in Query
             /\ expr.left.answer.error = "none" /\ f.left.schema = expr.left.answer.schema
             /\ expr.right.answer.error = "none" /\ f.right.schema = expr.right.answer.schema
             /\ f.keys = << ColumnIndex(f.left.schema, expr.leftColumn),
                            ColumnIndex(f.right.schema, expr.rightColumn) >>
             /\ SequenceContains(f.left.schema, expr.leftColumn)
             /\ SequenceContains(f.right.schema, expr.rightColumn)
             /\ f.output.schema = expr.schema
             /\ f.row \in 1..Len(f.left.rows) + 1 /\ f.inner \in 1..Len(f.right.rows) + 1
             /\ Len(f.left.rows) \in Nat /\ Len(f.right.rows) \in Nat
             /\ CollectsPairs(f, result)
             /\ expr.answer = Answer(expr.schema, result)
             /\ expr.schema = expr.left.schema \o expr.right.schema
<1> DEFINE expr == f.expr
           result == JoinedRows(expr.left.answer, expr.right.answer,
                                expr.leftColumn, expr.rightColumn)
<1>1. expr \in Query /\ Len(f.left.rows) \in Nat /\ Len(f.right.rows) \in Nat
  BY DEF Activation, Result
<1>2. f # Frame(expr)
  BY DEF Frame
<1>3. JoinActive(f)
  BY DEF Active
<1>4. /\ expr.left.answer.error = "none" /\ f.left.schema = expr.left.answer.schema
      /\ expr.right.answer.error = "none" /\ f.right.schema = expr.right.answer.schema
      /\ f.keys = << ColumnIndex(f.left.schema, expr.leftColumn),
                     ColumnIndex(f.right.schema, expr.rightColumn) >>
      /\ SequenceContains(f.left.schema, expr.leftColumn)
      /\ SequenceContains(f.right.schema, expr.rightColumn)
      /\ f.output.schema = expr.schema
      /\ f.row \in 1..Len(f.left.rows) + 1 /\ f.inner \in 1..Len(f.right.rows) + 1
      /\ CollectsPairs(f, result)
  BY <1>2, <1>3 DEF JoinActive
<1>5. /\ expr.left \in Query /\ expr.right \in Query
      /\ expr.answer = Answer(expr.schema, result)
      /\ expr.schema = expr.left.schema \o expr.right.schema
  BY <1>1, <1>4, JoinAnswer
<1> HIDE DEF result
<1> QED BY <1>1, <1>4, <1>5 DEF result

LEMMA PairPassed ==
  ASSUME NEW f \in Activation
  PROVE  LET onward == [f EXCEPT !.inner = @ + 1]
             wrap == [f EXCEPT !.row = @ + 1, !.inner = 1]
         IN  /\ onward \in Activation /\ onward.expr = f.expr /\ onward.pc = f.pc
             /\ onward.left = f.left /\ onward.right = f.right /\ onward.output = f.output
             /\ onward.keys = f.keys /\ onward.row = f.row /\ onward.inner = f.inner + 1
             /\ wrap \in Activation /\ wrap.expr = f.expr /\ wrap.pc = f.pc
             /\ wrap.left = f.left /\ wrap.right = f.right /\ wrap.output = f.output
             /\ wrap.keys = f.keys /\ wrap.row = f.row + 1 /\ wrap.inner = 1
<1> DEFINE row == f.row + 1
           inner == f.inner + 1
           onward == [f EXCEPT !.inner = inner]
           wrap == [f EXCEPT !.row = row, !.inner = 1]
<1>1. row \in Nat /\ inner \in Nat /\ 1 \in Nat
  BY DEF Activation
<1> HIDE DEF row, inner
<1>2. /\ onward \in Activation /\ onward.expr = f.expr /\ onward.pc = f.pc
      /\ onward.left = f.left /\ onward.right = f.right /\ onward.output = f.output
      /\ onward.keys = f.keys /\ onward.row = f.row /\ onward.inner = inner
  BY <1>1 DEF Activation
<1>3. /\ wrap \in Activation /\ wrap.expr = f.expr /\ wrap.pc = f.pc
      /\ wrap.left = f.left /\ wrap.right = f.right /\ wrap.output = f.output
      /\ wrap.keys = f.keys /\ wrap.row = row /\ wrap.inner = 1
  BY <1>1 DEF Activation
<1> HIDE DEF onward, wrap
<1> QED BY <1>2, <1>3 DEF onward, wrap, row, inner

\* What the loops go on as.
LEMMA JoinGoesOn ==
  ASSUME QueriesBuilt, ExecutionInv, stack # <<>>, Top.expr.kind = "Join", Top.pc = "loop",
         NEW g \in Activation, g.expr = Top.expr, g.pc = "loop", g.left = Top.left,
         g.right = Top.right, g.keys = Top.keys, g.output.schema = Top.output.schema,
         g.row \in 1..Len(g.left.rows) + 1, g.inner \in 1..Len(g.right.rows) + 1,
         CollectsPairs(g, JoinedRows(g.expr.left.answer, g.expr.right.answer,
                                     g.expr.leftColumn, g.expr.rightColumn)),
         Step(g), UNCHANGED <<outcome, scan, query, catalog>>
  PROVE  ExecutionInv'
<1> DEFINE f == Top
<1>1. f \in Activation /\ Parses(scan) /\ Active(f, scan, LinesOf(f.expr.name))
  BY TopOf DEF ExecutionInv
<1>2. /\ f.expr.left.answer.error = "none" /\ f.left.schema = f.expr.left.answer.schema
      /\ f.expr.right.answer.error = "none" /\ f.right.schema = f.expr.right.answer.schema
      /\ f.keys = << ColumnIndex(f.left.schema, f.expr.leftColumn),
                     ColumnIndex(f.right.schema, f.expr.rightColumn) >>
      /\ SequenceContains(f.left.schema, f.expr.leftColumn)
      /\ SequenceContains(f.right.schema, f.expr.rightColumn)
      /\ f.output.schema = f.expr.schema
  BY <1>1, InJoin
<1> HIDE DEF f
<1>3. JoinActive(g)
  BY <1>2 DEF JoinActive, f
<1>4. Active(g, scan', LinesOf(g.expr.name))
  BY <1>3 DEF Active
<1>5. SameMeaning(g.expr, Top.expr)
  BY DEF SameMeaning
<1> QED BY <1>1, <1>4, <1>5, StepKept

LEMMA JoinRowsKept ==
  ASSUME QueriesBuilt, ExecutionInv, JoinRows, UNCHANGED <<query, catalog>>
  PROVE  ExecutionInv'
<1> DEFINE f == Top
           expr == f.expr
           left == expr.left.answer
           right == expr.right.answer
           result == JoinedRows(left, right, expr.leftColumn, expr.rightColumn)
           other == f.right.rows[f.inner]
<1>1. /\ stack # <<>> /\ f \in Activation /\ expr.kind = "Join" /\ f.pc = "loop" /\ Parses(scan)
      /\ Active(f, scan, LinesOf(expr.name)) /\ MoreRows
  BY RunningTop DEF JoinRows
<1>2. /\ expr \in Query /\ expr.left \in Query /\ expr.right \in Query
      /\ left.error = "none" /\ f.left.schema = left.schema
      /\ right.error = "none" /\ f.right.schema = right.schema
      /\ f.keys = << ColumnIndex(f.left.schema, expr.leftColumn),
                     ColumnIndex(f.right.schema, expr.rightColumn) >>
      /\ f.output.schema = expr.schema
      /\ f.row \in 1..Len(f.left.rows) + 1 /\ f.inner \in 1..Len(f.right.rows) + 1
      /\ Len(f.left.rows) \in Nat /\ Len(f.right.rows) \in Nat
      /\ CollectsPairs(f, result)
      /\ expr.schema = expr.left.schema \o expr.right.schema
  BY <1>1, InJoin
<1>3. UNCHANGED scan
  BY DEF JoinRows
<1>4. /\ f.row \in 1..Len(f.left.rows) /\ f.row + 1 \in 1..Len(f.left.rows) + 1
      /\ 1 \in 1..Len(f.right.rows) + 1
      /\ f.inner \in 1..Len(f.right.rows) + 1 /\ Len(f.right.rows) \in Nat
  <2>1. f.row <= Len(f.left.rows)
    BY <1>1 DEF MoreRows
  <2>2. /\ f.row \in 1..Len(f.left.rows) + 1 /\ f.inner \in 1..Len(f.right.rows) + 1
        /\ Len(f.left.rows) \in Nat /\ Len(f.right.rows) \in Nat
    BY <1>2
  <2> HIDE DEF f
  <2> QED BY <2>1, <2>2
<1> DEFINE onward == [f EXCEPT !.inner = @ + 1]
           wrap == [f EXCEPT !.row = @ + 1, !.inner = 1]
<1>5. /\ onward \in Activation /\ onward.expr = expr /\ onward.pc = f.pc
      /\ onward.left = f.left /\ onward.right = f.right /\ onward.output = f.output
      /\ onward.keys = f.keys /\ onward.row = f.row /\ onward.inner = f.inner + 1
      /\ wrap \in Activation /\ wrap.expr = expr /\ wrap.pc = f.pc
      /\ wrap.left = f.left /\ wrap.right = f.right /\ wrap.output = f.output
      /\ wrap.keys = f.keys /\ wrap.row = f.row + 1 /\ wrap.inner = 1
  BY <1>1, PairPassed
<1>6. CASE ~MoreInner
  <2>1. Step(wrap) /\ UNCHANGED <<plan, outcome>>
    BY <1>6 DEF JoinRows, NextPair
  <2>2. f.inner > Len(f.right.rows)
    BY <1>4, <1>6 DEF MoreInner
  <2> HIDE DEF wrap, result
  <2>3. CollectsPairs(wrap, result)
    BY <1>1, <1>2, <1>4, <1>5, <2>2, PairsWrap
  <2> QED BY <1>1, <1>3, <1>4, <1>5, <2>1, <2>3, JoinGoesOn DEF result
<1>7. CASE MoreInner
  <2> DEFINE row == InputRow \o other
             kept == KeysMatch(InputRow[f.keys[1]], other[f.keys[2]])
             more == [onward EXCEPT !.output.rows = Append(@, row)]
             g == IF kept THEN more ELSE onward
  <2>1. f.inner \in 1..Len(f.right.rows) /\ f.inner + 1 \in 1..Len(f.right.rows) + 1
    BY <1>4, <1>7 DEF MoreInner
  <2>2. /\ InputRow \in Seq(FieldValue) /\ Len(InputRow) = Len(expr.left.schema)
        /\ other \in Seq(FieldValue) /\ Len(other) = Len(expr.right.schema)
    <3>1. PICK ids, others :
            /\ Lists(ids, f.left.rows, DOMAIN left.rows, left.rows)
            /\ Lists(others, f.right.rows, DOMAIN right.rows, right.rows)
      BY <1>2 DEF CollectsPairs, CollectsFrom
    <3>2. InputRow \in Seq(FieldValue) /\ Len(InputRow) = Len(expr.left.schema)
      BY <1>2, <1>4, <3>1, InputRows DEF InputRow
    <3>3. other \in Seq(FieldValue) /\ Len(other) = Len(expr.right.schema)
      <4>1. expr.right \in Query /\ right.error = "none" /\ f.inner \in 1..Len(f.right.rows)
            /\ Lists(others, f.right.rows, DOMAIN right.rows, right.rows)
        BY <1>2, <2>1, <3>1
      <4> HIDE DEF f
      <4> QED BY <4>1, InputRows
    <3> QED BY <3>2, <3>3
  <2>3. row \in Seq(FieldValue) /\ Len(row) = Len(expr.schema)
    <3>1. expr.left.schema \in Seq(Column) /\ expr.right.schema \in Seq(Column)
      BY <1>2, AnswersOf
    <3>2. Len(expr.schema) = Len(expr.left.schema) + Len(expr.right.schema)
      <4>1. expr.schema = expr.left.schema \o expr.right.schema
        BY <1>2
      <4> HIDE DEF f
      <4> QED BY <3>1, <4>1, ConcatItems
    <3>3. row \in Seq(FieldValue) /\ Len(row) = Len(InputRow) + Len(other)
      <4> HIDE DEF other
      <4> QED BY <2>2, ConcatItems
    <3> QED BY <2>2, <3>2, <3>3
  <2>4. kept \in BOOLEAN
    BY DEF KeysMatch
  <2>5. \A l \in DOMAIN left.rows : \A r \in DOMAIN right.rows :
          left.rows[l] = InputRow /\ right.rows[r] = other
            => (<<l, r>> \in DOMAIN result <=> kept) /\ (kept => result[<<l, r>>] = row)
    <3> SUFFICES ASSUME NEW l \in DOMAIN left.rows, NEW r \in DOMAIN right.rows,
                        left.rows[l] = InputRow, right.rows[r] = other
                 PROVE  (<<l, r>> \in DOMAIN result <=> kept) /\ (kept => result[<<l, r>>] = row)
      OBVIOUS
    <3> DEFINE pair == <<l, r>>
    <3>1. pair[1] = l /\ pair[2] = r /\ pair \in (DOMAIN left.rows) \X (DOMAIN right.rows)
      OBVIOUS
    <3>2. f.keys[1] = ColumnIndex(left.schema, expr.leftColumn)
          /\ f.keys[2] = ColumnIndex(right.schema, expr.rightColumn)
      <4> DEFINE a == ColumnIndex(left.schema, expr.leftColumn)
                 b == ColumnIndex(right.schema, expr.rightColumn)
      <4>1. f.keys = <<a, b>>
        BY <1>2
      <4> HIDE DEF a, b
      <4>2. f.keys[1] = a /\ f.keys[2] = b
        BY <4>1
      <4> QED BY <4>2 DEF a, b
    <3> HIDE DEF pair, left, right, other
    <3>3. pair \in DOMAIN result <=> kept
      BY <3>1, <3>2 DEF JoinedRows, MatchingRows
    <3>4. pair \in DOMAIN result => result[pair] = left.rows[pair[1]] \o right.rows[pair[2]]
      BY DEF JoinedRows
    <3> QED BY <3>1, <3>3, <3>4 DEF pair
  <2>6. /\ more \in Activation /\ more.expr = expr /\ more.pc = f.pc
        /\ more.left = f.left /\ more.right = f.right /\ more.keys = f.keys
        /\ more.row = f.row /\ more.inner = f.inner + 1
        /\ more.output.schema = f.output.schema /\ more.output.rows = Append(f.output.rows, row)
    <3>1. onward \in Activation /\ row \in Seq(FieldValue)
      BY <1>5, <2>3
    <3>2. /\ more \in Activation /\ more.expr = onward.expr /\ more.pc = onward.pc
          /\ more.left = onward.left /\ more.right = onward.right /\ more.keys = onward.keys
          /\ more.row = onward.row /\ more.inner = onward.inner
          /\ more.output.schema = onward.output.schema
          /\ more.output.rows = Append(onward.output.rows, row)
      <4> HIDE DEF onward, row
      <4> QED BY <3>1, AppendedRow
    <3> HIDE DEF onward, row, more
    <3> QED BY <1>5, <3>2
  <2>7. Step(g) /\ UNCHANGED <<plan, outcome>>
    <3>1. IF kept THEN AppendRow(onward, row) ELSE Step(onward) /\ UNCHANGED <<plan, outcome>>
      BY <1>7 DEF JoinRows, NextPair
    <3>2. Len(row) = Len(onward.output.schema)
      BY <1>2, <1>5, <2>3
    <3> HIDE DEF onward, row, kept
    <3> QED BY <3>1, <3>2 DEF AppendRow
  <2> HIDE DEF onward, more, result, kept, row
  <2>8. /\ g \in Activation /\ g.expr = expr /\ g.pc = f.pc
        /\ g.left = f.left /\ g.right = f.right /\ g.keys = f.keys
        /\ g.row = f.row /\ g.inner = f.inner + 1 /\ g.output.schema = f.output.schema
        /\ g.output.rows = IF kept THEN Append(f.output.rows, row) ELSE f.output.rows
    BY <1>5, <2>6
  <2> HIDE DEF g
  <2>9. CollectsPairs(g, result)
    <3>1. InputRow = f.left.rows[f.row]
      BY DEF InputRow
    <3>2. \A l \in DOMAIN f.expr.left.answer.rows : \A r \in DOMAIN f.expr.right.answer.rows :
            f.expr.left.answer.rows[l] = f.left.rows[f.row]
              /\ f.expr.right.answer.rows[r] = f.right.rows[f.inner]
              => (<<l, r>> \in DOMAIN result <=> kept) /\ (kept => result[<<l, r>>] = row)
      BY <2>5, <3>1
    <3>3. /\ f \in Activation /\ f.row \in 1..Len(f.left.rows) /\ f.inner \in 1..Len(f.right.rows)
          /\ CollectsPairs(f, result) /\ row \in Seq(FieldValue) /\ kept \in BOOLEAN
          /\ g.expr = f.expr /\ g.left = f.left /\ g.right = f.right
          /\ g.row = f.row /\ g.inner = f.inner + 1
          /\ g.output.rows = IF kept THEN Append(f.output.rows, row) ELSE f.output.rows
      BY <1>1, <1>2, <1>4, <2>1, <2>3, <2>4, <2>8
    <3> HIDE DEF f
    <3> QED BY <3>2, <3>3, PairsNext
  <2> QED BY <1>1, <1>3, <1>2, <2>1, <2>7, <2>8, <2>9, JoinGoesOn DEF result
<1> QED BY <1>6, <1>7

LEMMA ReturnJoinKept ==
  ASSUME QueriesBuilt, ExecutionInv, ReturnJoin, UNCHANGED <<query, catalog>>
  PROVE  ExecutionInv'
<1> DEFINE f == Top
           expr == f.expr
           result == JoinedRows(expr.left.answer, expr.right.answer,
                                expr.leftColumn, expr.rightColumn)
           entries == << <<"Nested-loop join", expr.leftColumn, expr.rightColumn>> >>
<1>1. /\ stack # <<>> /\ f \in Activation /\ expr.kind = "Join" /\ f.pc = "loop" /\ Parses(scan)
      /\ Active(f, scan, LinesOf(expr.name))
  BY RunningTop DEF ReturnJoin
<1>2. /\ ~(f.row <= Len(f.left.rows)) /\ Return(f.output, entries) /\ UNCHANGED scan
      /\ f.output \in Result
  BY <1>1 DEF ReturnJoin, MoreRows, Activation
<1>3. /\ f.output.schema = expr.schema /\ f.row \in 1..Len(f.left.rows) + 1
      /\ Len(f.left.rows) \in Nat /\ CollectsPairs(f, result)
      /\ expr.answer = Answer(expr.schema, result)
  BY <1>1, InJoin
<1>4. f.row > Len(f.left.rows)
  <2>1. ~(f.row <= Len(f.left.rows)) /\ f.row \in 1..Len(f.left.rows) + 1
        /\ Len(f.left.rows) \in Nat
    BY <1>2, <1>3
  <2> HIDE DEF f
  <2> QED BY <2>1
<1>5. DOMAIN result \subseteq (DOMAIN expr.left.answer.rows) \X (DOMAIN expr.right.answer.rows)
  BY DEF JoinedRows, MatchingRows
<1> HIDE DEF result, entries
<1>6. \E out : Lists(out, f.output.rows, DOMAIN result, result)
  BY <1>1, <1>3, <1>4, <1>5, PairsAll
<1>7. expr.answer.error = "none" /\ expr.answer.schema = expr.schema /\ expr.answer.rows = result
  BY <1>3 DEF Answer
<1>8. Gives(f.output, expr)
  BY <1>3, <1>6, <1>7 DEF Gives
<1> QED BY <1>1, <1>2, <1>8, ReturnKept

-----------------------------------------------------------------------------
(* Reading a source.                                                       *)

\* The lines of a source, and what the answers know of its file.
LEMMA FileOfSource ==
  ASSUME SourcesAsFiles, NEW name \in TableName
  PROVE  /\ LinesOf(name) \in Seq(Seq(Token))
         /\ IsFileOf(Files[name], LinesOf(name))
         /\ Files[name] \in File
         /\ Find(name, "Csv") = <<>> => LinesOf(name) = <<>>
         /\ Find(name, "Csv") # <<>> =>
              LET file == Disk[Find(name, "Csv")[1].location] IN
              /\ file = <<>> => LinesOf(name) = <<>>
              /\ file # <<>> => file = <<LinesOf(name)>> /\ LinesOf(name) = file[1]
<1> DEFINE none == <<>>
           found == BindingsOf(catalog, name, "Csv")
           binding == catalog[Min(found)]
           source == Find(name, "Csv")
           file == Disk[source[1].location]
           Line == Seq(Token)
<1>1. source = IF found = {} THEN none ELSE <<binding>>
  BY DEF Find, FindIn
<1>2. source # none => source[1] = binding /\ source = <<binding>>
  BY <1>1
<1>3. LinesOf(name) = IF source = none \/ file = none THEN none ELSE file[1]
  BY DEF LinesOf, LinesIn, Find
<1>4. none \in Seq(Line)
  OBVIOUS
<1>5. source # none => binding \in ToSet(source)
  <2>1. source # none => 1 \in DOMAIN source
    BY <1>2
  <2> QED BY <1>2, <2>1 DEF ToSet
<1>6. source # none => source[1].location \in DOMAIN Disk
  BY <1>2, <1>5 DEF SourcesAsFiles, NamesFiles, Find
<1> HIDE DEF Line, binding, found
<1>7. source # none /\ file # none => file = <<file[1]>> /\ file[1] \in Seq(Line)
  BY <1>6, DiskAssumption DEF Line
<1> HIDE DEF none, file, source
<1>8. LinesOf(name) \in Seq(Line)
  BY <1>3, <1>4, <1>7
<1>9. IsFileOf(Files[name], LinesOf(name)) /\ Files[name] \in File
  BY FilesAssumption DEF SourcesAsFiles, NamesFiles, LinesOf
<1>10. /\ source = none => LinesOf(name) = none
       /\ source # none => /\ file = none => LinesOf(name) = none
                           /\ file # none => file = <<LinesOf(name)>> /\ LinesOf(name) = file[1]
  BY <1>3, <1>7
<1> QED BY <1>8, <1>9, <1>10 DEF none, file, source, Line

\* Taking a line from those that are left.
LEMMA RestTail ==
  ASSUME NEW S, NEW lines \in Seq(S), NEW rest \in Seq(S), NEW n \in Nat,
         Rest(rest, lines, n), rest # <<>>
  PROVE  /\ Head(rest) \in S /\ Tail(rest) \in Seq(S)
         /\ n + 1 \in 1..Len(lines) /\ Head(rest) = lines[n + 1]
         /\ Rest(Tail(rest), lines, n + 1)
<1>1. /\ n <= Len(lines) /\ Len(rest) = Len(lines) - n
      /\ \A k \in 1..Len(rest) : rest[k] = lines[n + k]
  BY DEF Rest
<1>2. /\ Len(rest) \in Nat /\ Len(rest) >= 1 /\ 1 \in 1..Len(rest) /\ Len(lines) \in Nat
      /\ Head(rest) = rest[1] /\ Head(rest) \in S
      /\ Tail(rest) \in Seq(S) /\ Len(Tail(rest)) = Len(rest) - 1
      /\ \A k \in 1..Len(rest) - 1 : Tail(rest)[k] = rest[k + 1]
  OBVIOUS
<1>3. n + 1 \in 1..Len(lines) /\ n + 1 <= Len(lines)
      /\ Len(rest) - 1 = Len(lines) - (n + 1)
  BY <1>1, <1>2
<1>4. \A k \in 1..Len(rest) - 1 : k + 1 \in 1..Len(rest) /\ n + (k + 1) = (n + 1) + k
  BY <1>2
<1>5. \A k \in 1..Len(rest) - 1 : Tail(rest)[k] = lines[(n + 1) + k]
  BY <1>1, <1>2, <1>4
<1>6. Rest(Tail(rest), lines, n + 1)
  BY <1>2, <1>3, <1>5 DEF Rest
<1> QED BY <1>1, <1>2, <1>3, <1>6

LEMMA RestAll ==
  ASSUME NEW S, NEW lines \in Seq(S)
  PROVE  Rest(lines, lines, 0)
<1>1. \A k \in 1..Len(lines) : 0 + k = k
  OBVIOUS
<1>2. 0 <= Len(lines) /\ Len(lines) = Len(lines) - 0
  OBVIOUS
<1> QED BY <1>1, <1>2 DEF Rest

\* The activation of a table.
LEMMA InTable ==
  ASSUME QueriesBuilt, SourcesAsFiles, ExecutionInv, NEW pc, Running("Table", pc)
  PROVE  /\ stack # <<>> /\ Top \in Activation /\ Top.expr \in Query /\ Top.expr.kind = "Table"
         /\ Top.pc = pc /\ Parses(scan) /\ ~Scanning
         /\ Top.expr.name \in TableName /\ Top.expr.schema \in Seq(Column)
         /\ LinesOf(Top.expr.name) \in Seq(Seq(Token))
         /\ IsFileOf(Files[Top.expr.name], LinesOf(Top.expr.name))
         /\ Files[Top.expr.name] \in File
         /\ TableActive(Top, scan, LinesOf(Top.expr.name))
<1>1. /\ stack # <<>> /\ Top \in Activation /\ Top.expr \in Query /\ Top.expr.kind = "Table"
      /\ Top.pc = pc /\ Parses(scan) /\ Active(Top, scan, LinesOf(Top.expr.name))
  BY RunningTop
<1>2. Top.expr.name \in TableName /\ Top.expr.schema \in Seq(Column)
  BY <1>1, AnswersOf, TableAnswers
<1> QED BY <1>1, <1>2, FileOfSource DEF Active, Running

\* A table goes on as g.
LEMMA TableGoesOn ==
  ASSUME ExecutionInv, stack # <<>>, NEW g \in Activation, g.expr = Top.expr,
         Top.expr.kind = "Table", Step(g), UNCHANGED <<query, outcome, catalog>>, Parses(scan'),
         TableActive(g, scan', LinesOf(g.expr.name))
  PROVE  ExecutionInv'
<1>1. Active(g, scan', LinesOf(g.expr.name)) /\ SameMeaning(g.expr, Top.expr)
  BY DEF Active, SameMeaning
<1> QED BY <1>1, StepKept

LEMMA FindSourceKept ==
  ASSUME QueriesBuilt, SourcesAsFiles, ExecutionInv, FindSource, UNCHANGED <<query, catalog>>
  PROVE  ExecutionInv'
<1> DEFINE f == Top
           name == f.expr.name
           lines == LinesOf(name)
           source == Find(name, "Csv")
           file == Disk[source[1].location]
           none == <<>>
<1>1. /\ stack # <<>> /\ f \in Activation /\ f.expr \in Query /\ f.expr.kind = "Table"
      /\ Parses(scan) /\ name \in TableName /\ lines \in Seq(Seq(Token))
      /\ IsFileOf(Files[name], lines)
  BY InTable DEF FindSource
<1>2. UNCHANGED scan /\ Parses(scan')
  BY <1>1 DEF FindSource
<1>3. /\ source = none => lines = none
      /\ source # none => /\ file = none => lines = none
                          /\ file # none => file = <<lines>> /\ lines = file[1]
  BY <1>1, FileOfSource
<1>4. CASE lines = none
  <2>1. f.expr.answer.error = "source"
    <3>1. ~Readable(lines)
      BY <1>4 DEF Readable
    <3>2. ~Files[name].readable
      BY <1>1, <3>1 DEF IsFileOf
    <3> QED BY <1>1, <3>2, TableAnswers
  <2>2. source = none \/ file = none \/ file = <<none>>
    BY <1>3, <1>4
  <2>3. Throw("source")
    BY <2>2 DEF FindSource
  <2> QED BY <1>1, <1>2, <2>1, <2>3, ThrowKept
<1>5. CASE lines # none
  <2> DEFINE g == [f EXCEPT !.lines = lines, !.pc = "header"]
  <2>1. source # none /\ file # none /\ file = <<lines>> /\ lines = file[1]
    BY <1>3, <1>5
  <2>2. file # <<none>>
    BY <1>5, <2>1
  <2>3. Step(g) /\ UNCHANGED outcome
    BY <2>1, <2>2 DEF FindSource
  <2> HIDE DEF lines
  <2>4. g \in Activation /\ g.expr = f.expr /\ g.pc = "header" /\ g.lines = lines
    BY <1>1 DEF Activation
  <2> HIDE DEF g
  <2>5. TableActive(g, scan', LinesOf(g.expr.name))
    BY <1>5, <2>4 DEF TableActive, lines
  <2> QED BY <1>1, <1>2, <2>3, <2>4, <2>5, TableGoesOn
<1> QED BY <1>4, <1>5

\* What ParseLine begins.
LEMMA ParseLineBegins ==
  ASSUME NEW line, ParseLine(line)
  PROVE  Begun(scan', line)
<1>1. scan'.line = line /\ scan'.outcome = "running"
  BY DEF ParseLine, NoScan
<1> QED BY <1>1 DEF Begun

LEMMA ReadHeaderKept ==
  ASSUME QueriesBuilt, SourcesAsFiles, ExecutionInv, ReadHeader, UNCHANGED <<query, catalog>>
  PROVE  ExecutionInv'
<1> DEFINE f == Top
           lines == LinesOf(f.expr.name)
           rest == Tail(f.lines)
           g == [f EXCEPT !.lines = rest, !.pc = "mapping"]
           Line == Seq(Token)
<1>1. /\ stack # <<>> /\ f \in Activation /\ f.expr.kind = "Table" /\ f.pc = "header"
      /\ lines \in Seq(Line) /\ TableActive(f, scan, lines)
  BY InTable DEF ReadHeader
<1>2. f.lines = lines /\ lines # <<>>
  BY <1>1 DEF TableActive
<1>3. /\ Head(lines) \in Line /\ rest \in Seq(Line) /\ Head(lines) = lines[1]
      /\ Rest(rest, lines, 1)
  <2>1. 0 \in Nat /\ 0 + 1 = 1
    OBVIOUS
  <2> HIDE DEF Line
  <2>2. Rest(lines, lines, 0)
    BY <1>1, RestAll
  <2>3. /\ Head(lines) \in Line /\ Tail(lines) \in Seq(Line) /\ Head(lines) = lines[0 + 1]
        /\ Rest(Tail(lines), lines, 0 + 1)
    BY <1>1, <1>2, <2>1, <2>2, RestTail
  <2> QED BY <1>2, <2>1, <2>3
<1>4. ParseLine(lines[1]) /\ Step(g) /\ UNCHANGED <<plan, outcome>>
  BY <1>1, <1>2, <1>3 DEF ReadHeader
<1>5. Parses(scan') /\ Begun(scan', lines[1])
  BY <1>3, <1>4, ParseLineParses, ParseLineBegins
<1> HIDE DEF rest
<1>6. g \in Activation /\ g.expr = f.expr /\ g.pc = "mapping" /\ g.lines = rest
  BY <1>1, <1>3 DEF Activation
<1> HIDE DEF g
<1>7. TableActive(g, scan', LinesOf(g.expr.name))
  <2> HIDE DEF f
  <2> QED BY <1>2, <1>3, <1>5, <1>6 DEF TableActive
<1> QED BY <1>1, <1>4, <1>5, <1>6, <1>7, TableGoesOn

\* The header of the file says where the names of its columns are.
LEMMA HeaderNamed ==
  ASSUME NEW file \in File, NEW lines, IsFileOf(file, lines), file.readable,
         FieldsOf(lines[1]) \in Seq(Seq(Token))
  PROVE  /\ Len(FieldsOf(lines[1])) = Len(file.header)
         /\ \A column : HeaderPositions(FieldsOf(lines[1]), column)
                          = Positions(file.header, PhysicalColumn[column])
<1> DEFINE named == [k \in DOMAIN file.header |-> HeaderName(file.header[k])]
<1>1. named = FieldsOf(lines[1])
  BY DEF IsFileOf
<1>2. DOMAIN named = DOMAIN file.header /\ \A k \in DOMAIN named : named[k] = HeaderName(file.header[k])
  OBVIOUS
<1>3. \A a, b : HeaderName(a) = HeaderName(b) <=> a = b
  BY DEF HeaderName
<1> HIDE DEF named
<1>4. ASSUME NEW column
      PROVE  HeaderPositions(named, column) = Positions(file.header, PhysicalColumn[column])
  BY <1>2, <1>3 DEF HeaderPositions, Positions
<1>5. Len(named) = Len(file.header)
  <2> DEFINE Line == Seq(Token)
  <2>1. file.header \in Seq(Column) /\ named \in Seq(Line)
    BY <1>1 DEF File
  <2> HIDE DEF Line
  <2> QED BY <1>2, <2>1
<1> QED BY <1>1, <1>4, <1>5

LEMMA MapColumnsKept ==
  ASSUME QueriesBuilt, SourcesAsFiles, ExecutionInv, MapColumns, UNCHANGED <<query, catalog>>
  PROVE  ExecutionInv'
<1> DEFINE f == Top
           expr == f.expr
           schema == expr.schema
           lines == LinesOf(expr.name)
           file == Files[expr.name]
           Line == Seq(Token)
<1>1. /\ stack # <<>> /\ f \in Activation /\ expr \in Query /\ expr.kind = "Table"
      /\ f.pc = "mapping" /\ Parses(scan) /\ ~Scanning /\ schema \in Seq(Column)
      /\ lines \in Seq(Line) /\ IsFileOf(file, lines) /\ file \in File
      /\ TableActive(f, scan, lines)
  BY InTable DEF MapColumns
<1>2. lines # <<>> /\ Rest(f.lines, lines, 1) /\ scan.outcome \in {"fields", "thrown"}
      /\ scan.line = lines[1]
  BY <1>1 DEF TableActive, Begun, Scanning
<1>3. Parses(scan')
  BY NoScanParses DEF MapColumns
<1>4. CASE scan.outcome = "thrown"
  <2>1. ~file.readable
    BY <1>1, <1>2, <1>4 DEF Parses, IsFileOf, Readable
  <2>2. expr.answer.error = "source"
    BY <1>1, <2>1, TableAnswers
  <2>3. Throw("source")
    BY <1>4 DEF MapColumns
  <2> QED BY <1>1, <1>3, <2>2, <2>3, ThrowKept
<1>5. ASSUME scan.outcome # "thrown"
      PROVE  /\ scan.fields = FieldsOf(lines[1]) /\ file.readable /\ Readable(lines)
             /\ scan.fields \in Seq(Line)
             /\ \A column : HeaderPositions(scan.fields, column)
                              = Positions(file.header, PhysicalColumn[column])
  <2>1. WellQuoted(lines[1]) /\ scan.fields = FieldsOf(lines[1]) /\ scan.fields \in Seq(Line)
    BY <1>1, <1>2, <1>5 DEF Parses, Scans
  <2>2. file.readable /\ Readable(lines)
    BY <1>1, <1>2, <2>1 DEF IsFileOf, Readable
  <2> QED BY <1>1, <2>1, <2>2, HeaderNamed
<1> DEFINE missing == \E k \in DOMAIN schema : HeaderPositions(scan.fields, schema[k]) = {}
<1>6. CASE scan.outcome # "thrown" /\ missing
  <2>1. ~HeaderHas(file, schema)
    BY <1>5, <1>6 DEF HeaderHas, SequenceContains
  <2>2. expr.answer.error = "column"
    BY <1>1, <1>5, <1>6, <2>1, TableAnswers
  <2>3. Throw("column")
    BY <1>6 DEF MapColumns
  <2> QED BY <1>1, <1>3, <2>2, <2>3, ThrowKept
<1>7. CASE scan.outcome # "thrown" /\ ~missing
  <2> DEFINE none == <<>>
             mapping == [k \in DOMAIN schema |-> Min(HeaderPositions(scan.fields, schema[k]))]
             output == [schema |-> schema, rows |-> none]
             g == [f EXCEPT !.header = scan.fields, !.mapping = mapping, !.output = output,
                            !.pc = "lines"]
  <2>1. Step(g) /\ UNCHANGED <<plan, outcome>>
    BY <1>7 DEF MapColumns
  <2>2. HeaderHas(file, schema)
    BY <1>5, <1>7 DEF HeaderHas, SequenceContains
  <2>3. \A k \in DOMAIN schema :
          /\ Min(HeaderPositions(scan.fields, schema[k]))
               = ColumnIndex(file.header, PhysicalColumn[schema[k]])
          /\ ColumnIndex(file.header, PhysicalColumn[schema[k]]) \in Nat
    <3> SUFFICES ASSUME NEW k \in DOMAIN schema
                 PROVE  /\ Min(HeaderPositions(scan.fields, schema[k]))
                             = ColumnIndex(file.header, PhysicalColumn[schema[k]])
                        /\ ColumnIndex(file.header, PhysicalColumn[schema[k]]) \in Nat
      OBVIOUS
    <3> DEFINE value == PhysicalColumn[schema[k]]
               T == Positions(file.header, value)
               first == ColumnIndex(file.header, value)
    <3>1. T = HeaderPositions(scan.fields, schema[k]) /\ T # {}
      BY <1>5, <1>7
    <3>2. file.header \in Seq(Column)
      BY <1>1 DEF File
    <3>3. T \subseteq Nat
      BY <3>2 DEF Positions
    <3> HIDE DEF value
    <3>4. first \in T /\ \A i \in T : first <= i
      BY <3>1, <3>2, IndexFound
    <3> HIDE DEF T, first
    <3>5. Min(T) \in T /\ \A i \in T : Min(T) <= i
      BY <3>4 DEF Min
    <3> DEFINE least == Min(T)
    <3>6. least = first /\ first \in Nat
      <4>1. least \in T /\ least <= first
        BY <3>4, <3>5
      <4> HIDE DEF least
      <4> QED BY <3>3, <3>4, <4>1
    <3> QED BY <3>1, <3>6 DEF first, value
  <2>4. mapping = [k \in DOMAIN schema |-> ColumnIndex(file.header, PhysicalColumn[schema[k]])]
    BY <2>3
  <2>5. mapping \in Seq(Nat)
    <3> DEFINE n == Len(schema)
               place(k) == ColumnIndex(file.header, PhysicalColumn[schema[k]])
    <3>1. DOMAIN schema = 1..n /\ n \in Nat
      BY <1>1
    <3>2. mapping = [k \in 1..n |-> place(k)] /\ \A k \in 1..n : place(k) \in Nat
      BY <2>3, <2>4, <3>1
    <3> HIDE DEF mapping, n, place
    <3> QED BY <3>1, <3>2
  <2>6. output \in Result /\ output.schema = schema /\ output.rows = none
    <3>1. none \in Seq(Seq(FieldValue))
      OBVIOUS
    <3> HIDE DEF none
    <3> QED BY <1>1, <3>1 DEF Result
  <2> HIDE DEF mapping, output
  <2>7. /\ g \in Activation /\ g.expr = expr /\ g.pc = "lines" /\ g.lines = f.lines
        /\ g.header = scan.fields /\ g.mapping = mapping /\ g.output = output
    <3>1. scan.fields \in Seq(Seq(Token))
      BY <1>5, <1>7
    <3> DEFINE fields == scan.fields
    <3>2. fields \in Seq(Seq(Token))
      BY <3>1
    <3> HIDE DEF fields
    <3>3. f \in Activation
      BY <1>1
    <3> QED BY <2>5, <2>6, <3>2, <3>3 DEF Activation, fields
  <2> HIDE DEF g
  <2>8. Len(g.output.rows) = 0 /\ 1..Len(g.output.rows) = {} /\ Len(g.output.rows) + 1 = 1
    BY <2>6, <2>7
  <2>9. Mapped(g, lines)
    BY <1>5, <1>7, <2>2, <2>4, <2>6, <2>7, <2>8 DEF Mapped
  <2>10. TableActive(g, scan', LinesOf(g.expr.name))
    BY <1>2, <2>7, <2>8, <2>9 DEF TableActive
  <2> QED BY <1>1, <1>3, <2>1, <2>7, <2>10, TableGoesOn DEF g, mapping, output
<1> QED BY <1>4, <1>6, <1>7

LEMMA ReadLineKept ==
  ASSUME QueriesBuilt, SourcesAsFiles, ExecutionInv, ReadLine, UNCHANGED <<query, catalog>>
  PROVE  ExecutionInv'
<1> DEFINE f == Top
           lines == LinesOf(f.expr.name)
           rest == Tail(f.lines)
           n == Len(f.output.rows) + 1
           next == Len(f.output.rows) + 2
           g == [f EXCEPT !.lines = rest, !.pc = "fields"]
           Line == Seq(Token)
<1>1. /\ stack # <<>> /\ f \in Activation /\ f.expr.kind = "Table" /\ f.pc = "lines"
      /\ lines \in Seq(Line) /\ TableActive(f, scan, lines)
  BY InTable DEF ReadLine
<1>2. Mapped(f, lines) /\ Rest(f.lines, lines, n) /\ f.lines # <<>>
  BY <1>1 DEF TableActive, ReadLine
<1>3. n \in Nat /\ next = n + 1 /\ f.lines \in Seq(Line)
  BY <1>1 DEF Activation, Result
<1>4. /\ Head(f.lines) \in Line /\ rest \in Seq(Line) /\ Head(f.lines) = lines[next]
      /\ Rest(rest, lines, next)
  <2> HIDE DEF n, next, Line
  <2>1. /\ Head(f.lines) \in Line /\ Tail(f.lines) \in Seq(Line) /\ Head(f.lines) = lines[n + 1]
        /\ Rest(Tail(f.lines), lines, n + 1)
    BY <1>1, <1>2, <1>3, RestTail
  <2> QED BY <1>3, <2>1
<1>5. ParseLine(lines[next]) /\ Step(g) /\ UNCHANGED <<plan, outcome>>
  BY <1>1, <1>4 DEF ReadLine
<1>6. Parses(scan') /\ Begun(scan', lines[next])
  BY <1>4, <1>5, ParseLineParses, ParseLineBegins
<1> HIDE DEF rest
<1>7. /\ g \in Activation /\ g.expr = f.expr /\ g.pc = "fields" /\ g.lines = rest
      /\ g.output = f.output /\ g.header = f.header /\ g.mapping = f.mapping
  BY <1>1, <1>4 DEF Activation
<1> HIDE DEF g
<1>8. Mapped(g, lines)
  BY <1>2, <1>7 DEF Mapped
<1>9. TableActive(g, scan', LinesOf(g.expr.name))
  <2>1. /\ LinesOf(g.expr.name) = lines /\ Rest(g.lines, lines, Len(g.output.rows) + 2)
        /\ Begun(scan', lines[Len(g.output.rows) + 2])
    BY <1>4, <1>6, <1>7
  <2> HIDE DEF lines
  <2> QED BY <1>7, <1>8, <2>1 DEF TableActive
<1> QED BY <1>1, <1>5, <1>6, <1>7, <1>9, TableGoesOn

\* A mapped file finds its columns in the lines that have as many fields as the header.
LEMMA MappedPlaces ==
  ASSUME NEW f \in Activation, NEW lines, Mapped(f, lines), f.expr.schema \in Seq(Column),
         Files[f.expr.name] \in File, IsFileOf(Files[f.expr.name], lines)
  PROVE  /\ Files[f.expr.name].readable /\ DOMAIN f.mapping = 1..Len(f.expr.schema)
         /\ \A k \in 1..Len(f.expr.schema) :
              /\ f.mapping[k] = ColumnIndex(Files[f.expr.name].header, PhysicalColumn[f.expr.schema[k]])
              /\ f.mapping[k] \in 1..Len(FieldsOf(lines[1]))
              /\ f.mapping[k] \in DOMAIN Files[f.expr.name].header
<1> DEFINE schema == f.expr.schema
           file == Files[f.expr.name]
           place(k) == ColumnIndex(file.header, PhysicalColumn[schema[k]])
<1>1. /\ Readable(lines) /\ HeaderHas(file, schema) /\ f.header = FieldsOf(lines[1])
      /\ f.mapping = [k \in DOMAIN schema |-> place(k)]
  BY DEF Mapped
<1>2. file.readable
  BY <1>1 DEF IsFileOf
<1>3. f.header \in Seq(Seq(Token))
  BY DEF Activation
<1>4. Len(FieldsOf(lines[1])) = Len(file.header)
  BY <1>1, <1>2, <1>3, HeaderNamed
<1>5. DOMAIN f.mapping = 1..Len(schema) /\ \A k \in 1..Len(schema) : f.mapping[k] = place(k)
  <2> HIDE DEF place
  <2> QED BY <1>1
<1>6. file.header \in Seq(Column)
  BY DEF File
<1>7. \A k \in 1..Len(schema) : place(k) \in 1..Len(file.header)
  BY <1>1, <1>6, IndexFound DEF HeaderHas, SequenceContains
<1>8. DOMAIN file.header = 1..Len(file.header)
  BY <1>6
<1> QED BY <1>2, <1>4, <1>5, <1>7, <1>8

LEMMA MapFieldsKept ==
  ASSUME QueriesBuilt, SourcesAsFiles, ExecutionInv, MapFields, UNCHANGED <<query, catalog>>
  PROVE  ExecutionInv'
<1> DEFINE f == Top
           expr == f.expr
           schema == expr.schema
           lines == LinesOf(expr.name)
           file == Files[expr.name]
           done == Len(f.output.rows)
           here == done + 2
           fields == scan.fields
           Line == Seq(Token)
<1>1. /\ stack # <<>> /\ f \in Activation /\ expr \in Query /\ expr.kind = "Table"
      /\ f.pc = "fields" /\ Parses(scan) /\ ~Scanning /\ schema \in Seq(Column)
      /\ lines \in Seq(Line) /\ IsFileOf(file, lines) /\ file \in File
      /\ TableActive(f, scan, lines)
  BY InTable DEF MapFields
<1>2. /\ Mapped(f, lines) /\ Rest(f.lines, lines, here) /\ scan.outcome \in {"fields", "thrown"}
      /\ scan.line = lines[here]
  BY <1>1 DEF TableActive, Begun, Scanning
<1>3. Parses(scan')
  BY NoScanParses DEF MapFields
<1>4. /\ Readable(lines) /\ HeaderHas(file, schema) /\ f.header = FieldsOf(lines[1])
      /\ f.output.schema = schema
      /\ \A k \in 1..done : GoodLine(lines, k + 1) /\ f.output.rows[k] = RowOfLine(lines[k + 1], f.mapping)
  BY <1>2 DEF Mapped
<1>5. /\ done \in Nat /\ here \in 2..Len(lines)
      /\ file.readable /\ DOMAIN f.mapping = 1..Len(schema)
      /\ \A k \in 1..Len(schema) : f.mapping[k] \in 1..Len(f.header)
  <2>1. done \in Nat /\ here <= Len(lines)
    BY <1>1, <1>2 DEF Rest, Activation, Result
  <2>2. here \in 2..Len(lines)
    <3> HIDE DEF done
    <3> QED BY <1>1, <2>1
  <2> QED BY <1>1, <1>2, <1>4, <2>1, <2>2, MappedPlaces
<1> DEFINE bad == scan.outcome = "thrown" \/ Len(fields) # Len(f.header)
<1>6. /\ scan.outcome = "thrown" => ~WellQuoted(lines[here])
      /\ scan.outcome # "thrown" => WellQuoted(lines[here]) /\ fields = FieldsOf(lines[here])
                                     /\ fields \in Seq(Line)
  BY <1>1, <1>2 DEF Parses, Scans
<1>7. bad <=> ~GoodLine(lines, here)
  BY <1>2, <1>4, <1>6 DEF GoodLine
<1>8. CASE bad
  <2>1. file.malformed
    BY <1>1, <1>5, <1>7, <1>8 DEF IsFileOf
  <2>2. expr.answer.error = "row"
    BY <1>1, <1>4, <1>5, <2>1, TableAnswers
  <2>3. Throw("row")
    BY <1>8 DEF MapFields
  <2> QED BY <1>1, <1>3, <2>2, <2>3, ThrowKept
<1>9. CASE ~bad
  <2> DEFINE size == Len(schema)
             row == [k \in DOMAIN f.mapping |-> FieldText(fields[f.mapping[k]])]
             next == [f EXCEPT !.pc = "lines"]
             g == [next EXCEPT !.output.rows = Append(@, row)]
             m == done + 1
  <2>1. row = RowOfLine(lines[here], f.mapping)
    BY <1>6, <1>9 DEF RowOfLine
  <2>2. row \in Seq(FieldValue) /\ Len(row) = size
    <3>1. \A k \in 1..size : FieldText(fields[f.mapping[k]]) \in FieldValue
      <4>1. /\ fields \in Seq(Seq(Token)) /\ Len(fields) = Len(f.header)
            /\ \A k \in 1..size : f.mapping[k] \in 1..Len(f.header)
        BY <1>5, <1>6, <1>9
      <4>2. \A k \in 1..size : fields[f.mapping[k]] \in Seq(Token)
        <5> DEFINE Piece == Seq(Token)
        <5>1. fields \in Seq(Piece)
          BY <4>1
        <5> HIDE DEF Piece, fields, size, f
        <5>2. \A k \in 1..size : fields[f.mapping[k]] \in Piece
          BY <4>1, <5>1
        <5> QED BY <5>2 DEF Piece
      <4> QED BY <4>2 DEF FieldValue
    <3> DEFINE text(k) == FieldText(fields[f.mapping[k]])
    <3>2. row = [k \in 1..size |-> text(k)] /\ size \in Nat
      BY <1>1, <1>5
    <3>3. \A k \in 1..size : text(k) \in FieldValue
      BY <3>1
    <3> HIDE DEF row, size, text
    <3> QED BY <3>2, <3>3
  <2>3. /\ next \in Activation /\ next.expr = expr /\ next.pc = "lines" /\ next.lines = f.lines
        /\ next.header = f.header /\ next.mapping = f.mapping /\ next.output = f.output
    BY <1>1 DEF Activation
  <2>4. AppendRow(next, row)
    BY <1>9 DEF MapFields
  <2> HIDE DEF row, next
  <2>5. Step(g) /\ UNCHANGED <<plan, outcome>>
    BY <1>4, <2>2, <2>3, <2>4 DEF AppendRow
  <2>6. /\ g \in Activation /\ g.expr = next.expr /\ g.pc = next.pc /\ g.lines = next.lines
        /\ g.header = next.header /\ g.mapping = next.mapping
        /\ g.output.schema = next.output.schema
        /\ g.output.rows = Append(next.output.rows, row)
    BY <2>2, <2>3, AppendedRow
  <2> HIDE DEF g
  <2>7. /\ Len(g.output.rows) = m /\ m + 1 = here
        /\ \A k \in 1..done : g.output.rows[k] = f.output.rows[k]
        /\ g.output.rows[m] = row
        /\ \A k \in 1..m : k \in 1..done \/ k = m
    <3> DEFINE Row == Seq(FieldValue)
    <3>1. f.output.rows \in Seq(Row) /\ row \in Row
      BY <1>1, <2>2 DEF Activation, Result
    <3>2. g.output.rows = Append(f.output.rows, row)
      BY <2>3, <2>6
    <3> DEFINE old == f.output.rows
    <3>3. /\ Len(g.output.rows) = Len(old) + 1
          /\ \A k \in 1..Len(old) : g.output.rows[k] = old[k]
          /\ g.output.rows[Len(old) + 1] = row
      <4> HIDE DEF Row, old
      <4> QED BY <3>1, <3>2, AppendItems DEF old
    <3>4. /\ m + 1 = here /\ \A k \in 1..m : k \in 1..done \/ k = m
      <4> HIDE DEF done
      <4> QED BY <1>5
    <3> QED BY <3>3, <3>4
  <2>8. \A k \in 1..m : GoodLine(lines, k + 1) /\ g.output.rows[k] = RowOfLine(lines[k + 1], f.mapping)
    <3> SUFFICES ASSUME NEW k \in 1..m
                 PROVE  GoodLine(lines, k + 1) /\ g.output.rows[k] = RowOfLine(lines[k + 1], f.mapping)
      OBVIOUS
    <3> HIDE DEF lines, m, done, here
    <3>1. CASE k \in 1..done
      BY <1>4, <2>7, <3>1
    <3>2. CASE k = m
      BY <1>7, <1>9, <2>1, <2>7, <3>2
    <3> QED BY <2>7, <3>1, <3>2
  <2>9. /\ g.expr = expr /\ g.pc = "lines" /\ g.lines = f.lines /\ g.header = f.header
        /\ g.mapping = f.mapping /\ g.output.schema = f.output.schema
    BY <2>3, <2>6
  <2>10. Mapped(g, lines)
    <3>1. f.mapping = [k \in DOMAIN schema |-> ColumnIndex(file.header, PhysicalColumn[schema[k]])]
      BY <1>2 DEF Mapped
    <3> HIDE DEF m
    <3> QED BY <1>4, <2>7, <2>8, <2>9, <3>1 DEF Mapped
  <2>11. TableActive(g, scan', LinesOf(g.expr.name))
    <3>1. LinesOf(g.expr.name) = lines /\ Rest(g.lines, lines, Len(g.output.rows) + 1)
      BY <1>2, <2>7, <2>9
    <3> HIDE DEF lines
    <3> QED BY <2>9, <2>10, <3>1 DEF TableActive
  <2> QED BY <1>1, <1>3, <2>5, <2>6, <2>9, <2>11, TableGoesOn
<1> QED BY <1>8, <1>9

LEMMA ReturnTableKept ==
  ASSUME QueriesBuilt, SourcesAsFiles, ExecutionInv, ReturnTable, UNCHANGED <<query, catalog>>
  PROVE  ExecutionInv'
<1> DEFINE f == Top
           expr == f.expr
           schema == expr.schema
           lines == LinesOf(expr.name)
           file == Files[expr.name]
           n == Len(f.output.rows)
           result == ReadRows(file, schema)
<1>1. /\ stack # <<>> /\ f \in Activation /\ expr \in Query /\ expr.kind = "Table"
      /\ f.pc = "lines" /\ Parses(scan) /\ schema \in Seq(Column)
      /\ lines \in Seq(Seq(Token)) /\ IsFileOf(file, lines) /\ file \in File
      /\ TableActive(f, scan, lines)
  BY InTable DEF ReturnTable
<1>2. Mapped(f, lines) /\ Rest(f.lines, lines, n + 1) /\ f.lines = <<>>
      /\ Return(f.output, <<>>) /\ UNCHANGED scan
  BY <1>1 DEF TableActive, ReturnTable
<1>3. /\ Readable(lines) /\ HeaderHas(file, schema)
      /\ f.output.schema = schema
      /\ \A k \in 1..n : GoodLine(lines, k + 1) /\ f.output.rows[k] = RowOfLine(lines[k + 1], f.mapping)
  BY <1>2 DEF Mapped
<1>4. /\ file.readable /\ DOMAIN f.mapping = 1..Len(schema)
      /\ \A k \in 1..Len(schema) :
           /\ f.mapping[k] = ColumnIndex(file.header, PhysicalColumn[schema[k]])
           /\ f.mapping[k] \in DOMAIN file.header
  BY <1>1, <1>2, MappedPlaces
<1>5. n \in Nat /\ n = Len(lines) - 1 /\ \A k \in 2..Len(lines) : k - 1 \in 1..n /\ (k - 1) + 1 = k
  <2>1. n \in Nat /\ Len(lines) \in Nat /\ Len(lines) - (n + 1) = 0
    <3>1. Len(f.lines) = Len(lines) - (n + 1) /\ Len(f.lines) = 0
      BY <1>2 DEF Rest
    <3>2. n \in Nat
      BY <1>1 DEF Activation, Result
    <3> DEFINE Line == Seq(Token)
    <3>3. lines \in Seq(Line)
      BY <1>1
    <3> HIDE DEF Line, lines
    <3>4. Len(lines) \in Nat
      BY <3>3
    <3> QED BY <3>1, <3>2, <3>4
  <2> HIDE DEF n, lines
  <2> QED BY <2>1
<1>6. ~file.malformed
  <2>1. \A k \in 2..Len(lines) : GoodLine(lines, k)
    <3> HIDE DEF n, lines
    <3> QED BY <1>3, <1>5
  <2> QED BY <1>1, <1>4, <2>1 DEF IsFileOf
<1>7. expr.answer = Answer(schema, result)
  BY <1>1, <1>3, <1>4, <1>6, TableAnswers
<1>8. /\ Len(file.rows) = n
      /\ \A k \in DOMAIN file.rows : \A c \in DOMAIN file.header :
           file.rows[k][c] = FieldText(FieldsOf(lines[k + 1])[c])
  BY <1>1, <1>4, <1>5, <1>6 DEF IsFileOf
<1>9. DOMAIN file.rows = 1..n
  <2>1. file.rows \in Seq(Seq(Text))
    BY <1>1 DEF File
  <2> DEFINE Row == Seq(Text)
  <2>2. file.rows \in Seq(Row)
    BY <2>1
  <2> HIDE DEF Row, n
  <2> QED BY <1>8, <2>2
<1> DEFINE ids == [k \in 1..n |-> <<k>>]
           S == DOMAIN result
<1>10. /\ \A k \in 1..n : <<k>> \in S
       /\ \A id \in S : \E k \in 1..n : id = <<k>>
  BY <1>9 DEF ReadRows
<1>11. \A j, k : <<j>> = <<k>> => j = k
  OBVIOUS
<1>12. ASSUME NEW k \in 1..n PROVE f.output.rows[k] = result[<<k>>]
  <2> DEFINE id == <<k>>
  <2>1. id \in {<<line>> : line \in DOMAIN file.rows} /\ id[1] = k
    BY <1>9
  <2> HIDE DEF id, n, lines
  <2>2. result[id] = [c \in DOMAIN schema |->
                       file.rows[k][ColumnIndex(file.header, PhysicalColumn[schema[c]])]]
    BY <2>1 DEF ReadRows
  <2>3. f.output.rows[k] = [c \in DOMAIN f.mapping |-> FieldText(FieldsOf(lines[k + 1])[f.mapping[c]])]
    BY <1>3 DEF RowOfLine
  <2>4. DOMAIN schema = DOMAIN f.mapping
    BY <1>1, <1>4
  <2>5. \A c \in DOMAIN schema :
          FieldText(FieldsOf(lines[k + 1])[f.mapping[c]])
            = file.rows[k][ColumnIndex(file.header, PhysicalColumn[schema[c]])]
    <3> SUFFICES ASSUME NEW c \in DOMAIN schema
                 PROVE  FieldText(FieldsOf(lines[k + 1])[f.mapping[c]])
                          = file.rows[k][ColumnIndex(file.header, PhysicalColumn[schema[c]])]
      OBVIOUS
    <3> DEFINE place == ColumnIndex(file.header, PhysicalColumn[schema[c]])
    <3>1. c \in 1..Len(schema)
      BY <1>1
    <3>2. f.mapping[c] = place /\ place \in DOMAIN file.header
      BY <1>4, <3>1
    <3> HIDE DEF place
    <3>3. k \in DOMAIN file.rows
      BY <1>9
    <3>4. file.rows[k][place] = FieldText(FieldsOf(lines[k + 1])[place])
      BY <1>8, <3>2, <3>3
    <3> QED BY <3>2, <3>4 DEF place
  <2> QED BY <2>2, <2>3, <2>4, <2>5 DEF id
<1>13. \E out : Lists(out, f.output.rows, S, result)
  <2> DEFINE id(k) == <<k>>
  <2>1. ids = [k \in 1..n |-> id(k)] /\ \A k \in 1..n : id(k) \in S /\ f.output.rows[k] = result[id(k)]
    BY <1>10, <1>12
  <2>2. /\ \A i \in S : \E k \in 1..n : id(k) = i
        /\ \A j, k \in 1..n : id(j) = id(k) => j = k
    BY <1>10, <1>11
  <2> HIDE DEF S, result, n, ids, id
  <2>3. ids \in Seq(S) /\ Len(ids) = n /\ \A k \in 1..n : ids[k] = id(k)
    BY <1>5, <2>1
  <2>4. Lists(ids, f.output.rows, S, result)
    BY <2>1, <2>2, <2>3 DEF Lists, n
  <2> QED BY <2>4
<1> HIDE DEF result
<1>14. expr.answer.error = "none" /\ expr.answer.schema = schema /\ expr.answer.rows = result
  BY <1>7 DEF Answer
<1>15. Gives(f.output, expr) /\ f.output \in Result
  BY <1>1, <1>3, <1>13, <1>14 DEF Gives, Activation
<1> DEFINE none == <<>>
<1>16. Return(f.output, none)
  BY <1>2
<1> HIDE DEF none
<1> QED BY <1>1, <1>2, <1>15, <1>16, ReturnKept

-----------------------------------------------------------------------------
(* The steps of the parser, and of the caller.                             *)

LEMMA ScanKeepsLine ==
  ASSUME Parses(scan), Scan
  PROVE  /\ Parses(scan') /\ scan.outcome = "running" /\ Begun(scan', scan.line)
<1>1. Parses(scan')
  BY QuoteParses, CommaParses, TextParses, EndParses DEF Scan
<1>2. scan.outcome = "running"
  BY DEF Scan, ScanQuote, ScanComma, ScanText, ScanEnd, Scanning
<1>3. scan \in Scans
  BY DEF Parses
<1>4. scan'.line = scan.line /\ scan'.outcome \in {"running", "fields", "thrown"}
  <2>1. CASE ScanQuote
    BY <1>2, <1>3, <2>1 DEF ScanQuote, Scans
  <2>2. CASE ScanComma
    BY <1>2, <1>3, <2>2 DEF ScanComma, Scans
  <2>3. CASE ScanText
    BY <1>2, <1>3, <2>3 DEF ScanText, Scans
  <2>4. CASE ScanEnd
    BY <1>2, <1>3, <2>4 DEF ScanEnd, Scans
  <2> QED BY <2>1, <2>2, <2>3, <2>4 DEF Scan
<1> QED BY <1>1, <1>2, <1>4 DEF Begun

LEMMA ScanStepKept ==
  ASSUME ExecutionInv, ScanStep, UNCHANGED <<query, catalog>>
  PROVE  ExecutionInv'
<1> DEFINE name == Top.expr.name
<1>1. Parses(scan') /\ scan.outcome = "running" /\ Begun(scan', scan.line)
  BY ScanKeepsLine DEF ExecutionInv, ScanStep
<1>2. UNCHANGED <<stack, plan, outcome, query, catalog>>
  BY DEF ScanStep
<1>3. ASSUME stack # <<>> PROVE Active(Top, scan', LinesOf(name))
  <2>1. Active(Top, scan, LinesOf(name))
    BY <1>3 DEF ExecutionInv
  <2>2. \A line : Begun(scan, line) => Begun(scan', line)
    BY <1>1 DEF Begun
  <2>3. TableActive(Top, scan, LinesOf(name)) => TableActive(Top, scan', LinesOf(name))
    BY <2>2 DEF TableActive
  <2> QED BY <2>1, <2>3 DEF Active
<1>4. LinesOf(name)' = LinesOf(name) /\ Top' = Top
  BY <1>2, SameFiles DEF Top
<1>5. ExecutionInv
  OBVIOUS
<1>6. stack # <<>> => Active(Top, scan, LinesOf(name))'
  BY <1>3, <1>4
<1>7. Answered' /\ (stack # <<>> => Executes(stack, query[1])')
  <2>1. Answered /\ (stack # <<>> => Executes(stack, query[1]))
    BY DEF ExecutionInv
  <2>2. Answered'
    BY <1>2, <2>1 DEF Answered, AnsweredAsMeant
  <2>3. stack # <<>> => Executes(stack, query[1])'
    BY <1>2, <2>1
  <2> QED BY <2>2, <2>3
<1> QED BY <1>1, <1>2, <1>6, <1>7 DEF ExecutionInv

\* Without a query there is nothing to answer.
LEMMA NothingExecuted ==
  ASSUME stack = <<>>, outcome.status = "none", Parses(scan)
  PROVE  ExecutionInv
<1>1. stack \in Seq(Activation)
  OBVIOUS
<1> QED BY <1>1 DEF ExecutionInv, Answered, AnsweredAsMeant

LEMMA ExecuteKept ==
  ASSUME QueriesBuilt, ExecutionInv, NEW expr \in Query, Execute(expr)
  PROVE  ExecutionInv'
<1> DEFINE f == Frame(expr)
<1>1. f \in Activation /\ f.expr = expr /\ \A lines : Active(f, scan', lines)
  BY FreshActivation, FreshActive
<1>2. query' = <<expr>> /\ stack' = <<f>> /\ outcome'.status = "running" /\ UNCHANGED scan
  BY DEF Execute, NoOutcome
<1> HIDE DEF f
<1>3. /\ stack' \in Seq(Activation) /\ stack' # <<>> /\ Len(stack') = 1 /\ stack'[1] = f
      /\ query'[1] = expr
  BY <1>1, <1>2
<1>4. Executes(stack', query'[1])
  <2>1. \A i \in 1..1 : i = 1
    OBVIOUS
  <2>2. 1..0 = {} /\ 1 - 1 = 0
    OBVIOUS
  <2> QED BY <1>1, <1>3, <2>1, <2>2 DEF Executes, Called, SameMeaning, Fails
<1>5. Active(Top, scan, LinesOf(Top.expr.name))'
  <2>1. Top' = f
    BY <1>3 DEF Top
  <2> QED BY <1>1, <2>1
<1>6. Answered'
  BY <1>2 DEF Answered, AnsweredAsMeant
<1>7. Parses(scan)'
  BY <1>2 DEF ExecutionInv
<1> QED BY <1>2, <1>3, <1>4, <1>5, <1>6, <1>7 DEF ExecutionInv

LEMMA CallerKept ==
  ASSUME QueriesBuilt, ExecutionInv, CallerStep
  PROVE  ExecutionInv'
<1>1. outcome.status # "running" /\ stack = <<>> /\ Parses(scan) /\ Answered
  BY DEF CallerStep, ExecutionInv
<1>2. ASSUME Parses(scan'), UNCHANGED <<query, stack, plan, outcome>> PROVE ExecutionInv'
  <2>1. Answered'
    BY <1>1, <1>2 DEF Answered, AnsweredAsMeant
  <2>2. stack' = <<>> /\ outcome' = outcome
    BY <1>1, <1>2
  <2>3. stack' \in Seq(Activation)
    BY <2>2
  <2> QED BY <1>1, <1>2, <2>1, <2>2, <2>3 DEF ExecutionInv
<1>3. CASE \E expr \in Query : Execute(expr) /\ UNCHANGED catalog
  BY <1>3, ExecuteKept
<1>4. CASE ParserNext /\ UNCHANGED <<query, stack, plan, outcome>>
  <2>1. Parses(scan')
    BY <1>1, <1>4, QuoteParses, CommaParses, TextParses, EndParses, ParseLineParses, NoScanParses
       DEF ParserNext, Scan
  <2> QED BY <1>2, <1>4, <2>1
<1>5. CASE UNCHANGED csvVars
  BY <1>1, <1>2, <1>5 DEF csvVars
<1>6. CASE outcome' = NoOutcome /\ query' = <<>> /\ scan' = NoScan /\ UNCHANGED stack
  <2>1. stack' = <<>> /\ outcome'.status = "none" /\ Parses(scan')
    BY <1>1, <1>6, NoScanParses DEF NoOutcome
  <2>2. stack' \in Seq(Activation)
    BY <2>1
  <2> QED BY <2>1, <2>2 DEF ExecutionInv, Answered, AnsweredAsMeant
<1> QED BY <1>3, <1>4, <1>5, <1>6 DEF CallerStep

LEMMA ExecutionStep ==
  ASSUME QueriesBuilt, SourcesAsFiles, ExecutionInv, ExecutionNext
  PROVE  ExecutionInv'
<1>1. CASE CallerStep
  BY <1>1, CallerKept
<1>2. CASE CsvStep
  <2>1. UNCHANGED <<catalog, query>>
    BY <1>2 DEF CsvStep
  <2>2. CASE ScanStep
    BY <2>1, <2>2, ScanStepKept
  <2>3. CASE ReadSource
    BY <2>1, <2>3, FindSourceKept, ReadHeaderKept, MapColumnsKept, ReadLineKept, MapFieldsKept,
       ReturnTableKept DEF ReadSource
  <2>4. CASE Loop
    BY <2>1, <2>4, ExecuteChildKept, SelectRowKept, ReturnSelectKept, ProjectRowKept,
       ReturnProjectKept, ExecuteRenameKept, ExecuteLeftKept, ExecuteRightKept, FindKeysKept,
       JoinRowsKept, ReturnJoinKept DEF Loop
  <2> QED BY <1>2, <2>2, <2>3, <2>4 DEF CsvStep
<1> QED BY <1>1, <1>2 DEF ExecutionNext

LEMMA ExecutionInvariant ==
  QueriesBuilt => (ExecutionSpec /\ []SourcesAsFiles => []ExecutionInv)
<1> SUFFICES ASSUME QueriesBuilt PROVE ExecutionSpec /\ []SourcesAsFiles => []ExecutionInv
  OBVIOUS
<1>1. ExecutionInit => ExecutionInv
  BY NothingExecuted, NoScanParses DEF ExecutionInit, NoOutcome
<1>2. ExecutionInv /\ SourcesAsFiles /\ [ExecutionNext]_<<csvVars, catalog>> => ExecutionInv'
  <2> SUFFICES ASSUME ExecutionInv, SourcesAsFiles, [ExecutionNext]_<<csvVars, catalog>>
               PROVE  ExecutionInv'
    OBVIOUS
  <2>1. CASE ExecutionNext
    BY <2>1, ExecutionStep
  <2>2. CASE UNCHANGED <<csvVars, catalog>>
    <3>1. UNCHANGED <<scan, query, stack, plan, outcome, catalog>>
      BY <2>2 DEF csvVars
    <3>2. LinesOf(Top.expr.name)' = LinesOf(Top.expr.name) /\ Top' = Top
      BY <3>1, SameFiles DEF Top
    <3>3. Answered'
      BY <3>1 DEF ExecutionInv, Answered, AnsweredAsMeant
    <3> QED BY <3>1, <3>2, <3>3 DEF ExecutionInv
  <2> QED BY <2>1, <2>2
<1> QED BY <1>1, <1>2, PTL DEF ExecutionSpec

(* An execution of a query over CSV files, with any files, conditions and  *)
(* nesting, that returns has the schema and the rows the query means, each *)
(* as often as it means them, and one that throws throws the error the     *)
(* query means (csv_backend.cpp, csv_parser.cpp).                          *)
THEOREM CsvBackendAnswers ==
  QueriesBuilt => (ExecutionSpec /\ []SourcesAsFiles => []AnsweredAsMeant)
<1>1. ExecutionInv => AnsweredAsMeant
  BY DEF ExecutionInv, Answered
<1> QED BY <1>1, ExecutionInvariant, PTL

-----------------------------------------------------------------------------
(* The catalogs there may be.                                              *)

LEMMA QueriesAreBuilt == QueriesBuilt
<1> SUFFICES ASSUME NEW expr \in Query
             PROVE  NodeOK(expr, Query) /\ Fits(expr.answer, expr.schema)
  BY DEF QueriesBuilt
<1>1. PICK bindings \in Catalogs : expr \in Queries(bindings)
  BY DEF Query
<1>2. NodeOK(expr, Queries(bindings)) /\ Fits(expr.answer, expr.schema)
  BY <1>1, QueriesAssumption
<1>3. Queries(bindings) \subseteq Query
  BY <1>1 DEF Query
<1> HIDE DEF Query
<1> QED BY <1>2, <1>3 DEF NodeOK

AllBindings == ToSet(FirstBindings) \cup Registrations

LEMMA BindingsTyped ==
  /\ FirstBindings \in Seq(AllBindings) /\ Len(FirstBindings) \in Nat
  /\ Registrations \subseteq AllBindings
<1> DEFINE First == ToSet(FirstBindings)
<1>1. FirstBindings \in Seq(First)
  BY BindingsAssumption
<1>2. First \subseteq AllBindings /\ Registrations \subseteq AllBindings
  BY DEF AllBindings
<1> HIDE DEF First
<1> QED BY <1>1, <1>2

LEMMA CatalogParts ==
  ASSUME NEW bindings \in Catalogs
  PROVE  \E added \in Seq(Registrations) :
           /\ bindings = FirstBindings \o added
           /\ Len(FirstBindings) + Len(added) <= MaxBindings
<1>1. PICK n \in 0..MaxBindings - Len(FirstBindings) : \E added \in [1..n -> Registrations] :
        bindings = FirstBindings \o added
  BY DEF Catalogs
<1>2. PICK added \in [1..n -> Registrations] : bindings = FirstBindings \o added
  BY <1>1
<1>3. Len(FirstBindings) \in Nat /\ MaxBindings \in Nat
  BY BindingsAssumption
<1>4. n \in Nat /\ Len(FirstBindings) + n <= MaxBindings
  BY <1>3
<1>5. added \in Seq(Registrations) /\ Len(added) = n
  BY <1>4
<1> QED BY <1>2, <1>4, <1>5

LEMMA CatalogType ==
  ASSUME NEW bindings \in Catalogs
  PROVE  /\ bindings \in Seq(AllBindings)
         /\ \A i \in 1..Len(bindings) : IsBinding(bindings[i])
<1>1. PICK added \in Seq(Registrations) : bindings = FirstBindings \o added
  BY CatalogParts
<1>2. FirstBindings \in Seq(AllBindings) /\ added \in Seq(AllBindings)
  BY BindingsTyped
<1>3. bindings \in Seq(AllBindings)
  BY <1>1, <1>2, ConcatItems
<1>4. \A b \in AllBindings : IsBinding(b)
  BY BindingsAssumption DEF AllBindings
<1> QED BY <1>3, <1>4

LEMMA FirstCatalog == FirstBindings \in Catalogs
<1> DEFINE none == <<>>
<1>1. Len(FirstBindings) \in Nat /\ MaxBindings \in Nat /\ Len(FirstBindings) <= MaxBindings
      /\ FirstBindings \in Seq(ToSet(FirstBindings))
  BY BindingsAssumption
<1>2. 0 \in 0..MaxBindings - Len(FirstBindings)
  BY <1>1
<1>3. none \in [1..0 -> Registrations]
  OBVIOUS
<1>4. FirstBindings \o none = FirstBindings
  BY <1>1, ConcatEmpty
<1> HIDE DEF none
<1> QED BY <1>2, <1>3, <1>4 DEF Catalogs

LEMMA CatalogGrows ==
  ASSUME catalog \in Catalogs, Register PROVE catalog' \in Catalogs
<1>1. PICK b \in Registrations :
        IF b.kind = "Csv" THEN AddCsv(b.name, b.location, b.schema)
        ELSE AddSQLite(b.name, b.location, b.physicalName, b.schema)
  BY DEF Register
<1>2. catalog' = Append(catalog, b)
  <2>1. IsBinding(b) /\ (b.kind = "Csv" => b.physicalName = b.name)
    BY BindingsAssumption
  <2> QED BY <1>1, <2>1 DEF IsBinding, AddCsv, AddSQLite, SourceKind
<1>3. PICK added \in Seq(Registrations) : catalog = FirstBindings \o added
  BY CatalogParts
<1> DEFINE n == Len(added)
           m == n + 1
           more == Append(added, b)
<1>4. FirstBindings \in Seq(AllBindings) /\ added \in Seq(AllBindings) /\ b \in AllBindings
  BY BindingsTyped
<1>5. catalog \in Seq(AllBindings) /\ Len(catalog) = Len(FirstBindings) + n
      /\ Len(FirstBindings) \in Nat /\ n \in Nat
  BY <1>3, <1>4, ConcatItems
<1>6. more \in Seq(Registrations) /\ Len(more) = m
  BY AppendItems
<1>7. catalog' = FirstBindings \o more
  <2> DEFINE one == <<b>>
  <2>1. one \in Seq(AllBindings)
    BY <1>4
  <2>2. more = added \o one
    BY AppendConcat
  <2>3. Append(catalog, b) = catalog \o one
    BY <1>4, <1>5, AppendConcat
  <2> HIDE DEF one, more
  <2>4. (FirstBindings \o added) \o one = FirstBindings \o (added \o one)
    BY <1>4, <2>1, ConcatAssociative
  <2> QED BY <1>2, <1>3, <2>2, <2>3, <2>4
<1>8. Len(catalog) < MaxBindings /\ MaxBindings \in Nat
  BY BindingsAssumption DEF Register
<1>9. m \in 0..MaxBindings - Len(FirstBindings)
  BY <1>5, <1>8
<1> HIDE DEF more, m
<1>10. more \in [1..m -> Registrations]
  BY <1>6
<1> QED BY <1>7, <1>9, <1>10 DEF Catalogs

\* A number that is the least of a set.
LEMMA MinIs ==
  ASSUME NEW S, NEW m \in S, S \subseteq Nat, \A n \in S : m <= n
  PROVE  Min(S) = m
<1> DEFINE Least(x) == \A n \in S : x <= n
<1>1. Least(m)
  OBVIOUS
<1>2. \A x \in S : Least(x) => x = m
  <2> SUFFICES ASSUME NEW x \in S, Least(x) PROVE x = m
    OBVIOUS
  <2>1. x <= m /\ m <= x /\ x \in Nat /\ m \in Nat
    OBVIOUS
  <2> QED BY <2>1
<1>3. Min(S) = CHOOSE x \in S : Least(x)
  BY DEF Min
<1> HIDE DEF Least
<1> QED BY <1>1, <1>2, <1>3

LEMMA MinOf ==
  ASSUME NEW S, S \subseteq Nat, S # {}
  PROVE  Min(S) \in S /\ \A n \in S : Min(S) <= n
<1>1. PICK m \in S : \A n \in S : m <= n
  BY Smallest
<1> QED BY <1>1, MinIs

\* Registrations leave the CSV sources of the queries as they were.
LEMMA FirstFiles ==
  ASSUME NEW bindings \in Catalogs, NEW name \in TableName
  PROVE  FindIn(bindings, name, "Csv") = FindIn(FirstBindings, name, "Csv")
<1>1. PICK added \in Seq(Registrations) : bindings = FirstBindings \o added
  BY CatalogParts
<1> DEFINE n == Len(FirstBindings)
           Of(b) == b.name = name /\ b.kind = "Csv"
           old == BindingsOf(FirstBindings, name, "Csv")
           new == BindingsOf(bindings, name, "Csv")
<1>2. FirstBindings \in Seq(AllBindings) /\ added \in Seq(AllBindings)
  BY BindingsTyped
<1>3. /\ bindings \in Seq(AllBindings) /\ Len(bindings) = n + Len(added)
      /\ \A k \in 1..n : bindings[k] = FirstBindings[k]
      /\ \A k \in 1..Len(added) : bindings[n + k] = added[k]
      /\ n \in Nat /\ Len(added) \in Nat
  BY <1>1, <1>2, ConcatItems
<1>4. \A k \in 1..Len(bindings) : k \in 1..n \/ (k > n /\ bindings[k] \in Registrations)
  <2> SUFFICES ASSUME NEW k \in 1..Len(bindings), k \notin 1..n
               PROVE  k > n /\ bindings[k] \in Registrations
    OBVIOUS
  <2>1. k - n \in 1..Len(added) /\ n + (k - n) = k
    BY <1>3
  <2>2. bindings[n + (k - n)] = added[k - n] /\ added[k - n] \in Registrations
    BY <1>3, <2>1
  <2> QED BY <1>3, <2>1, <2>2
<1>5. old = {k \in 1..n : Of(FirstBindings[k])}
  BY <1>2 DEF BindingsOf
<1>6. new = {k \in 1..Len(bindings) : Of(bindings[k])}
  BY <1>3 DEF BindingsOf
<1>7. \A k \in 1..n : k \in new <=> k \in old
  BY <1>3, <1>5, <1>6
<1>8. \A k \in new : k \in old \/ (k > n /\ bindings[k] \in Registrations /\ Of(bindings[k]))
  BY <1>4, <1>5, <1>6, <1>7
<1>9. CASE old = {}
  <2>1. FindIn(FirstBindings, name, "Csv") = <<>>
    BY <1>9 DEF FindIn
  <2>2. \A b \in Registrations : ~Of(b)
    BY <2>1, BindingsAssumption
  <2>3. new = {}
    BY <1>8, <1>9, <2>2
  <2> QED BY <2>1, <2>3 DEF FindIn
<1>10. CASE old # {}
  <2> HIDE DEF old, new
  <2>1. old \subseteq Nat /\ new \subseteq Nat /\ \A k \in old : k \in 1..n
    BY <1>5, <1>6
  <2>2. Min(old) \in old /\ \A k \in old : Min(old) <= k
    BY <1>10, <2>1, MinOf
  <2> DEFINE least == Min(old)
  <2> HIDE DEF least
  <2>6. least \in 1..n /\ least \in new /\ \A k \in old : least <= k
    BY <1>7, <2>1, <2>2 DEF least
  <2>3. Min(old) \in new /\ \A k \in new : Min(old) <= k
    <3> SUFFICES ASSUME NEW k \in new PROVE least <= k
      BY <2>6 DEF least
    <3>1. CASE k \in old
      BY <2>6, <3>1
    <3>2. CASE k > n
      <4>1. k \in Nat
        BY <2>1
      <4> HIDE DEF n
      <4> QED BY <1>3, <2>6, <3>2, <4>1
    <3> QED BY <1>8, <3>1, <3>2
  <2>4. Min(new) = Min(old)
    BY <2>1, <2>3, MinIs
  <2>5. bindings[Min(old)] = FirstBindings[Min(old)] /\ new # {}
    BY <1>3, <2>1, <2>2, <2>3
  <2> QED BY <1>10, <2>4, <2>5 DEF FindIn, old, new
<1> QED BY <1>9, <1>10

LEMMA CatalogNamesFiles ==
  ASSUME NEW bindings \in Catalogs PROVE NamesFiles(bindings)
<1>1. NamesFiles(FirstBindings)
  BY BindingsAssumption
<1> SUFFICES ASSUME NEW name \in TableName
             PROVE  /\ \A b \in ToSet(FindIn(bindings, name, "Csv")) : b.location \in DOMAIN Disk
                    /\ IsFileOf(Files[name], LinesIn(bindings, name))
  BY DEF NamesFiles
<1>2. FindIn(bindings, name, "Csv") = FindIn(FirstBindings, name, "Csv")
  BY FirstFiles
<1>3. LinesIn(bindings, name) = LinesIn(FirstBindings, name)
  BY <1>2 DEF LinesIn
<1> QED BY <1>1, <1>2, <1>3 DEF NamesFiles

-----------------------------------------------------------------------------
(* databasePath.                                                           *)

\* The locations among the first n bindings of the catalog.
LocationsTo(n) == {catalog[i].location : i \in {j \in 1..n : catalog[j].kind = "SQLite"}}

\* What a path says of the locations met.
PathMeans(path, locations) ==
  \/ path = <<>> /\ \E l, m \in locations : l # m
  \/ path = <<NoLocation>> /\ locations \subseteq {NoLocation}
  \/ \E l : l # NoLocation /\ path = <<l>> /\ locations \ {NoLocation} = {l}

LEMMA NextPathMeans ==
  ASSUME NEW path, NEW locations, PathMeans(path, locations), NEW binding
  PROVE  PathMeans(NextPath(path, binding),
                   IF binding.kind = "SQLite" THEN locations \cup {binding.location} ELSE locations)
<1>1. CASE binding.kind # "SQLite"
  BY <1>1 DEF NextPath
<1>2. CASE binding.kind = "SQLite" /\ path = <<>>
  <2>1. \E l, m \in locations : l # m
    BY <1>2 DEF PathMeans
  <2> QED BY <1>2, <2>1 DEF NextPath, PathMeans
<1>3. CASE binding.kind = "SQLite" /\ path = <<NoLocation>>
  <2>1. locations \subseteq {NoLocation} /\ NextPath(path, binding) = <<binding.location>>
    BY <1>3 DEF PathMeans, NextPath
  <2>2. CASE binding.location = NoLocation
    BY <1>3, <2>1, <2>2 DEF PathMeans
  <2>3. CASE binding.location # NoLocation
    <3>1. (locations \cup {binding.location}) \ {NoLocation} = {binding.location}
      BY <2>1, <2>3
    <3> QED BY <1>3, <2>1, <2>3, <3>1 DEF PathMeans
  <2> QED BY <2>2, <2>3
<1>4. CASE binding.kind = "SQLite" /\ path # <<>> /\ path # <<NoLocation>>
  <2>1. PICK l : l # NoLocation /\ path = <<l>> /\ locations \ {NoLocation} = {l}
    BY <1>4 DEF PathMeans
  <2>2. CASE binding.location = l
    <3>1. NextPath(path, binding) = <<l>>
      BY <1>4, <2>1, <2>2 DEF NextPath
    <3>2. (locations \cup {binding.location}) \ {NoLocation} = {l}
      BY <2>1, <2>2
    <3> QED BY <1>4, <2>1, <3>1, <3>2 DEF PathMeans
  <2>3. CASE binding.location # l
    <3>1. <<l>> # <<binding.location>>
      BY <2>3
    <3>2. NextPath(path, binding) = <<>>
      BY <1>4, <2>1, <3>1 DEF NextPath
    <3>3. l \in locations
      BY <2>1
    <3> QED BY <1>4, <2>3, <3>2, <3>3 DEF PathMeans
  <2> QED BY <2>2, <2>3
<1> QED BY <1>1, <1>2, <1>3, <1>4

\* The path of DatabasePath behind each binding.
PathTo(path, n) ==
  IF n = 0 THEN <<NoLocation>> ELSE NextPath(path[n - 1], catalog[n])

PathsExist(n) ==
  \E path : DOMAIN path = 0..n /\ path = [i \in 0..n |-> PathTo(path, i)]

LEMMA PathExists ==
  ASSUME NEW size \in Nat PROVE PathsExist(size)
<1> DEFINE T == {n \in Nat : PathsExist(n)}
<1>1. PathsExist(0)
  <2> DEFINE path == [i \in 0..0 |-> <<NoLocation>>]
  <2>1. path = [i \in 0..0 |-> PathTo(path, i)] /\ DOMAIN path = 0..0
    BY DEF PathTo
  <2> HIDE DEF path
  <2> QED BY <2>1 DEF PathsExist
<1>2. ASSUME NEW n \in Nat, PathsExist(n) PROVE PathsExist(n + 1)
  <2>1. PICK old : DOMAIN old = 0..n /\ old = [i \in 0..n |-> PathTo(old, i)]
    BY <1>2 DEF PathsExist
  <2> DEFINE next == NextPath(old[n], catalog[n + 1])
             m == n + 1
             path == [i \in 0..m |-> IF i <= n THEN old[i] ELSE next]
  <2>2. (\A i \in 0..n : path[i] = old[i]) /\ path[m] = next /\ DOMAIN path = 0..m
        /\ path = [i \in 0..m |-> path[i]]
    OBVIOUS
  <2>3. /\ m \in Nat /\ m - 1 = n /\ m # 0 /\ 0 \in 0..n /\ n \in 0..n
        /\ \A i \in 1..n : i \in 0..n /\ i - 1 \in 0..n /\ i # 0
        /\ \A i \in 0..m : i = 0 \/ i \in 1..n \/ i = m
    OBVIOUS
  <2>6. \A i \in 0..n : old[i] = PathTo(old, i)
    BY <2>1
  <2> HIDE DEF path, m, next
  <2>4. ASSUME NEW i \in 0..m PROVE path[i] = PathTo(path, i)
    <3>1. CASE i = 0
      <4>1. old[0] = PathTo(old, 0) /\ path[0] = old[0]
        BY <2>2, <2>3, <2>6
      <4> QED BY <3>1, <4>1 DEF PathTo
    <3>2. CASE i \in 1..n
      <4>1. old[i] = PathTo(old, i)
        BY <2>3, <2>6, <3>2
      <4>2. path[i] = old[i] /\ path[i - 1] = old[i - 1]
        BY <2>2, <2>3, <3>2
      <4> QED BY <2>3, <3>2, <4>1, <4>2 DEF PathTo
    <3>3. CASE i = m
      <4>1. path[i - 1] = old[n] /\ path[i] = next /\ i # 0
        BY <2>2, <2>3, <3>3
      <4> QED BY <3>3, <4>1 DEF PathTo, next, m
    <3> QED BY <2>3, <3>1, <3>2, <3>3
  <2>5. path = [i \in 0..m |-> PathTo(path, i)]
    <3>1. [i \in 0..m |-> path[i]] = [i \in 0..m |-> PathTo(path, i)]
      BY <2>4, Zenon
    <3> QED BY <2>2, <3>1
  <2> QED BY <2>2, <2>5 DEF PathsExist, m
<1>3. 0 \in T /\ \A n \in Nat : n \in T => n + 1 \in T
  BY <1>1, <1>2
<1>4. Nat \subseteq T
  <2> HIDE DEF T
  <2> QED BY <1>3, NatSetInduction
<1> QED BY <1>4

LEMMA DatabasePathMeans ==
  ASSUME catalog \in Catalogs
  PROVE  PathMeans(DatabasePath, Locations(catalog))
<1> DEFINE size == Len(catalog)
           Is(h) == h = [n \in 0..size |->
                           IF n = 0 THEN <<NoLocation>> ELSE NextPath(h[n - 1], catalog[n])]
           path == CHOOSE h : Is(h)
<1>1. catalog \in Seq(AllBindings) /\ size \in Nat
  BY CatalogType
<1>2. \E h : Is(h)
  <2>1. PICK h : DOMAIN h = 0..size /\ h = [n \in 0..size |-> PathTo(h, n)]
    BY <1>1, PathExists DEF PathsExist
  <2> QED BY <2>1 DEF PathTo
<1>3. DatabasePath = path[size]
  BY DEF DatabasePath
<1>4. Is(path)
  <2> HIDE DEF Is
  <2> QED BY <1>2
<1> HIDE DEF path
<1>5. \A n \in 0..size : path[n] = PathTo(path, n)
  BY <1>4 DEF PathTo
<1> HIDE DEF Is
<1> DEFINE T == {n \in Nat : n <= size => PathMeans(path[n], LocationsTo(n))}
<1>6. 0 \in T
  <2>1. path[0] = <<NoLocation>>
    BY <1>1, <1>5 DEF PathTo
  <2>2. LocationsTo(0) = {}
    BY DEF LocationsTo
  <2> QED BY <2>1, <2>2 DEF PathMeans
<1>7. ASSUME NEW n \in Nat, n \in T PROVE n + 1 \in T
  <2> DEFINE m == n + 1
             binding == catalog[m]
             more == IF binding.kind = "SQLite" THEN LocationsTo(n) \cup {binding.location}
                     ELSE LocationsTo(n)
  <2> SUFFICES ASSUME m <= size PROVE PathMeans(path[m], LocationsTo(m))
    OBVIOUS
  <2>1. PathMeans(path[n], LocationsTo(n))
    BY <1>1, <1>7
  <2>2. m \in 0..size /\ m - 1 = n /\ m # 0
    BY <1>1
  <2>3. path[m] = NextPath(path[n], binding)
    <3>1. path[m] = PathTo(path, m)
      BY <1>5, <2>2
    <3> QED BY <2>2, <3>1 DEF PathTo
  <2>4. LocationsTo(m) = more
    <3>1. \A i : i \in 1..m <=> i \in 1..n \/ i = m
      OBVIOUS
    <3> HIDE DEF m
    <3> QED BY <3>1 DEF LocationsTo
  <2>5. PathMeans(NextPath(path[n], binding), more)
    BY <2>1, NextPathMeans
  <2> QED BY <2>3, <2>4, <2>5
<1>8. Nat \subseteq T
  <2> HIDE DEF T
  <2> QED BY <1>6, <1>7, NatSetInduction
<1>9. PathMeans(path[size], LocationsTo(size))
  BY <1>1, <1>8
<1>10. LocationsTo(size) = Locations(catalog)
  <2>1. ToSet(catalog) = {catalog[i] : i \in 1..size}
    BY <1>1 DEF ToSet
  <2> QED BY <2>1 DEF LocationsTo, Locations
<1> QED BY <1>3, <1>9, <1>10

-----------------------------------------------------------------------------
(* Queries over a catalog, from the tables up.                             *)

LEMMA QueryOver ==
  ASSUME NEW bindings \in Catalogs, NEW expr \in Queries(bindings)
  PROVE  /\ expr \in Query /\ NodeOK(expr, Queries(bindings)) /\ Height(expr) \in Nat
         /\ \A i \in DOMAIN Children(expr) :
              Children(expr)[i] \in Queries(bindings)
              /\ Height(Children(expr)[i]) \in 0..Height(expr) - 1
<1>1. NodeOK(expr, Queries(bindings)) /\ Height(expr) \in Nat
      /\ \A i \in DOMAIN Children(expr) : Height(Children(expr)[i]) \in 0..Height(expr) - 1
  BY QueriesAssumption
<1>2. expr \in Query
  BY DEF Query
<1>3. \A i \in DOMAIN Children(expr) : Children(expr)[i] \in Queries(bindings)
  BY <1>1 DEF NodeOK
<1> QED BY <1>1, <1>2, <1>3

\* What goes from the children of a query to the query is true of all.
LEMMA QueryInduction ==
  ASSUME NEW bindings \in Catalogs, NEW S,
         \A expr \in Queries(bindings) :
           (\A i \in DOMAIN Children(expr) : Children(expr)[i] \in S) => expr \in S
  PROVE  Queries(bindings) \subseteq S
<1> DEFINE T == {n \in Nat : \A expr \in Queries(bindings) : Height(expr) <= n => expr \in S}
<1>1. 0 \in T
  <2> SUFFICES ASSUME NEW expr \in Queries(bindings), Height(expr) <= 0 PROVE expr \in S
    OBVIOUS
  <2>1. \A i \in DOMAIN Children(expr) : Height(Children(expr)[i]) \in 0..Height(expr) - 1
    BY QueryOver
  <2>2. 0..Height(expr) - 1 = {}
    BY QueryOver
  <2> QED BY <2>1, <2>2
<1>2. ASSUME NEW n \in Nat, n \in T PROVE n + 1 \in T
  <2> SUFFICES ASSUME NEW expr \in Queries(bindings), Height(expr) <= n + 1 PROVE expr \in S
    OBVIOUS
  <2>1. ASSUME NEW i \in DOMAIN Children(expr) PROVE Children(expr)[i] \in S
    <3> DEFINE child == Children(expr)[i]
    <3>1. child \in Queries(bindings) /\ Height(child) \in 0..Height(expr) - 1
          /\ Height(expr) \in Nat
      BY QueryOver
    <3> HIDE DEF child
    <3>2. Height(child) <= n
      BY <3>1
    <3> QED BY <1>2, <3>1, <3>2 DEF child
  <2> QED BY <2>1
<1>3. Nat \subseteq T
  <2> HIDE DEF T
  <2> QED BY <1>1, <1>2, NatSetInduction
<1> SUFFICES ASSUME NEW expr \in Queries(bindings) PROVE expr \in S
  OBVIOUS
<1>4. Height(expr) \in Nat /\ Height(expr) <= Height(expr)
  BY QueryOver
<1> QED BY <1>3, <1>4

\* A node and its children.
LEMMA ChildrenOf ==
  ASSUME NEW bindings \in Catalogs, NEW expr \in Queries(bindings)
  PROVE  /\ expr.kind \in ExprKind
         /\ expr.kind \in {"Select", "Project", "Rename"} =>
              Children(expr) = <<expr.child>> /\ expr.child \in Queries(bindings)
         /\ expr.kind = "Join" => /\ Children(expr) = <<expr.left, expr.right>>
                                  /\ expr.left \in Queries(bindings)
                                  /\ expr.right \in Queries(bindings)
<1>1. NodeOK(expr, Queries(bindings))
      /\ \A i \in DOMAIN Children(expr) : Children(expr)[i] \in Queries(bindings)
  BY QueryOver
<1>2. expr.kind \in ExprKind
  BY <1>1 DEF NodeOK
<1>3. expr.kind \in {"Select", "Project", "Rename"} => Children(expr) = <<expr.child>>
  BY DEF Children
<1>4. expr.kind = "Join" => Children(expr) = <<expr.left, expr.right>>
  BY DEF Children
<1> QED BY <1>1, <1>2, <1>3, <1>4

-----------------------------------------------------------------------------
(* SqlCompiler.                                                            *)

LEMMA CompileOf ==
  ASSUME NEW bindings \in Catalogs, NEW expr \in Queries(bindings)
  PROVE  LET compiled == Compile(bindings, expr) IN
         /\ expr.kind = "Table" => compiled = CompileTable(bindings, expr.name, expr.schema)
         /\ expr.kind = "Select" =>
              compiled = CompileSelect(expr.condition, expr.schema, Compile(bindings, expr.child))
         /\ expr.kind = "Project" =>
              compiled = CompileProject(expr.columns, Compile(bindings, expr.child))
         /\ expr.kind = "Join" =>
              compiled = CompileJoin(expr, Compile(bindings, expr.left), Compile(bindings, expr.right))
         /\ expr.kind = "Rename" =>
              compiled = CompileRename(expr.schema, Compile(bindings, expr.child))
<1> DEFINE parts == [i \in DOMAIN Children(expr) |-> Compile(bindings, Children(expr)[i])]
<1>1. Compile(bindings, expr) = CompileNode(bindings, expr, parts)
  BY CompileAssumption
<1>2. expr.kind \in {"Select", "Project", "Rename"} => parts[1] = Compile(bindings, expr.child)
  BY ChildrenOf
<1>3. expr.kind = "Join" => /\ parts[1] = Compile(bindings, expr.left)
                            /\ parts[2] = Compile(bindings, expr.right)
  BY ChildrenOf
<1> HIDE DEF parts
<1> QED BY <1>1, <1>2, <1>3 DEF CompileNode

Parameter == [value : Text, kind : LiteralKind]

\* What the compiler makes of a query, if it makes something.
CompiledWell(bindings, expr) ==
  LET compiled == Compile(bindings, expr) IN
  /\ compiled.error \in {"none", "source", "raw"}
  /\ compiled.error = "none" =>
       /\ compiled.schema = expr.schema
       /\ compiled.parameters \in Seq(Parameter)
       /\ compiled.text.marks = Len(compiled.parameters)
       /\ DOMAIN compiled.text.select = DOMAIN expr.schema
       /\ \A k \in DOMAIN expr.schema : compiled.text.select[k].as = expr.schema[k]
       /\ \A i \in DOMAIN Children(expr) : Compile(bindings, Children(expr)[i]).error = "none"

LEMMA SelectedColumns ==
  ASSUME NEW schema, NEW side
  PROVE  /\ DOMAIN SelectColumns(schema, side) = DOMAIN schema
         /\ \A k \in DOMAIN schema :
              /\ SelectColumns(schema, side)[k].as = schema[k]
              /\ SelectColumns(schema, side)[k].source = schema[k]
              /\ SelectColumns(schema, side)[k].side = side
BY DEF SelectColumns

LEMMA CompilesTable ==
  ASSUME NEW bindings \in Catalogs, NEW expr \in Queries(bindings), expr.kind = "Table"
  PROVE  CompiledWell(bindings, expr)
<1> DEFINE compiled == Compile(bindings, expr)
           none == <<>>
<1>1. compiled = CompileTable(bindings, expr.name, expr.schema)
  BY CompileOf
<1>2. Children(expr) = none
  BY DEF Children
<1>3. DOMAIN PhysicalColumns(expr.schema) = DOMAIN expr.schema
      /\ \A k \in DOMAIN expr.schema : PhysicalColumns(expr.schema)[k].as = expr.schema[k]
  BY DEF PhysicalColumns
<1>4. none \in Seq(Parameter) /\ Len(none) = 0 /\ DOMAIN none = {}
  OBVIOUS
<1> HIDE DEF none
<1>5. compiled.error = "source" \/
      /\ compiled.error = "none" /\ compiled.schema = expr.schema
      /\ compiled.parameters = none /\ compiled.text.marks = 0
      /\ compiled.text.select = PhysicalColumns(expr.schema)
  BY <1>1 DEF CompileTable, CompiledSql, NotCompiled, none
<1> QED BY <1>2, <1>3, <1>4, <1>5 DEF CompiledWell

LEMMA CompilesSelect ==
  ASSUME NEW bindings \in Catalogs, NEW expr \in Queries(bindings), expr.kind = "Select",
         CompiledWell(bindings, expr.child)
  PROVE  CompiledWell(bindings, expr)
<1> DEFINE compiled == Compile(bindings, expr)
           child == Compile(bindings, expr.child)
           condition == expr.condition
           one == <<SqlParameter(condition)>>
           none == <<>>
           more == IF condition.rightKind = "Column" THEN none ELSE one
<1>1. compiled = CompileSelect(condition, expr.schema, child)
  BY CompileOf
<1>2. Children(expr) = <<expr.child>>
  BY ChildrenOf
<1>3. condition \in Condition
  BY QueryOver DEF NodeOK, LabelOK
<1>4. more \in Seq(Parameter)
      /\ Len(more) = IF condition.rightKind # "Column" THEN 1 ELSE 0
  <2>1. SqlParameter(condition) \in Parameter
    BY <1>3 DEF SqlParameter, Parameter, Condition
  <2> QED BY <2>1
<1> HIDE DEF more
<1>5. CASE condition.raw
  <2>1. compiled.error = "raw"
    BY <1>1, <1>5 DEF CompileSelect, NotCompiled
  <2> QED BY <2>1 DEF CompiledWell
<1>6. CASE ~condition.raw /\ child.error # "none"
  <2>1. compiled = child
    BY <1>1, <1>6 DEF CompileSelect
  <2> QED BY <1>6, <2>1 DEF CompiledWell
<1>7. CASE ~condition.raw /\ child.error = "none"
  <2>1. compiled = CompiledSql(FilterText(condition, expr.schema, child), child.parameters \o more,
                               expr.schema)
    BY <1>1, <1>7 DEF CompileSelect, more
  <2>2. child.parameters \in Seq(Parameter) /\ child.text.marks = Len(child.parameters)
    BY <1>7 DEF CompiledWell
  <2> DEFINE first == child.parameters
  <2> HIDE DEF first
  <2>8. first \in Seq(Parameter) /\ more \in Seq(Parameter)
    BY <1>4, <2>2 DEF first
  <2>3. first \o more \in Seq(Parameter) /\ Len(first \o more) = Len(first) + Len(more)
    BY <2>8, ConcatItems
  <2>4. /\ compiled.error = "none" /\ compiled.schema = expr.schema
        /\ compiled.parameters = child.parameters \o more
        /\ compiled.text = FilterText(condition, expr.schema, child)
    BY <2>1 DEF CompiledSql
  <2>5. /\ compiled.text.select = SelectColumns(expr.schema, "q")
        /\ compiled.text.marks = child.text.marks + (IF condition.rightKind # "Column" THEN 1 ELSE 0)
    BY <2>4 DEF FilterText
  <2> HIDE DEF compiled, child, condition
  <2>6. compiled.text.marks = Len(compiled.parameters)
    BY <1>4, <2>2, <2>3, <2>4, <2>5 DEF first
  <2>7. \A i \in DOMAIN Children(expr) : Compile(bindings, Children(expr)[i]).error = "none"
    BY <1>2, <1>7 DEF child
  <2> QED BY <2>3, <2>4, <2>5, <2>6, <2>7, SelectedColumns DEF CompiledWell, compiled, first
<1> QED BY <1>5, <1>6, <1>7

\* Project, and Rename, which is a Project of the whole schema.
LEMMA CompilesProject ==
  ASSUME NEW bindings \in Catalogs, NEW expr \in Queries(bindings),
         expr.kind \in {"Project", "Rename"}, CompiledWell(bindings, expr.child)
  PROVE  CompiledWell(bindings, expr)
<1> DEFINE compiled == Compile(bindings, expr)
           child == Compile(bindings, expr.child)
<1>1. compiled = CompileProject(expr.schema, child)
  <2>1. expr.kind = "Project" => expr.columns = expr.schema
    BY QueryOver DEF NodeOK, Rebuilt, ProjectExpr
  <2> QED BY <2>1, CompileOf DEF CompileRename
<1>2. Children(expr) = <<expr.child>>
  BY ChildrenOf
<1>3. CASE child.error # "none"
  <2>1. compiled = child
    BY <1>1, <1>3 DEF CompileProject
  <2> QED BY <1>3, <2>1 DEF CompiledWell
<1>4. CASE child.error = "none"
  <2>1. /\ compiled.error = "none" /\ compiled.schema = expr.schema
        /\ compiled.parameters = child.parameters /\ compiled.text.marks = child.text.marks
        /\ compiled.text.select = SelectColumns(expr.schema, "q")
    BY <1>1, <1>4 DEF CompileProject, CompiledSql
  <2>2. child.parameters \in Seq(Parameter) /\ child.text.marks = Len(child.parameters)
    BY <1>4 DEF CompiledWell
  <2>3. \A i \in DOMAIN Children(expr) : Compile(bindings, Children(expr)[i]).error = "none"
    BY <1>2, <1>4
  <2> QED BY <2>1, <2>2, <2>3, SelectedColumns DEF CompiledWell
<1> QED BY <1>3, <1>4

LEMMA SelectedItems ==
  ASSUME NEW schema \in Seq(Column), NEW side \in {"l", "r"}
  PROVE  LET columns == SelectColumns(schema, side) IN
         /\ columns \in Seq([side : {"l", "r"}, source : Column, as : Column])
         /\ Len(columns) = Len(schema)
         /\ \A k \in 1..Len(schema) :
              columns[k] = [side |-> side, source |-> schema[k], as |-> schema[k]]
<1> DEFINE Item == [side : {"l", "r"}, source : Column, as : Column]
           columns == SelectColumns(schema, side)
           n == Len(schema)
<1>1. n \in Nat /\ DOMAIN schema = 1..n /\ \A k \in 1..n : schema[k] \in Column
  OBVIOUS
<1>2. columns = [k \in 1..n |-> [side |-> side, source |-> schema[k], as |-> schema[k]]]
  BY <1>1 DEF SelectColumns
<1>3. \A k \in 1..n : [side |-> side, source |-> schema[k], as |-> schema[k]] \in Item
  BY <1>1
<1> HIDE DEF Item, n, columns
<1>4. columns \in [1..n -> Item]
  BY <1>2, <1>3
<1>5. columns \in Seq(Item) /\ Len(columns) = n
  BY <1>1, <1>4
<1> QED BY <1>2, <1>5 DEF columns, n, Item

\* The columns of a Join: those of the left side, and those of the right one.
LEMMA JoinedColumns ==
  ASSUME NEW left \in Seq(Column), NEW right \in Seq(Column)
  PROVE  LET n == Len(left)
             columns == SelectColumns(left, "l") \o SelectColumns(right, "r")
         IN  /\ DOMAIN columns = DOMAIN (left \o right)
             /\ \A k \in DOMAIN columns : columns[k].as = (left \o right)[k]
             /\ DOMAIN columns = 1..n + Len(right) /\ n \in Nat /\ Len(right) \in Nat
             /\ \A k \in 1..n : columns[k].side = "l" /\ columns[k].source = left[k]
             /\ \A k \in 1..Len(right) :
                  columns[n + k].side = "r" /\ columns[n + k].source = right[k]
<1> DEFINE Item == [side : {"l", "r"}, source : Column, as : Column]
           a == SelectColumns(left, "l")
           b == SelectColumns(right, "r")
           n == Len(left)
           m == Len(right)
           columns == a \o b
           schema == left \o right
<1>1. a \in Seq(Item) /\ Len(a) = n /\ \A k \in 1..n : a[k] = [side |-> "l", source |-> left[k], as |-> left[k]]
  BY SelectedItems
<1>2. b \in Seq(Item) /\ Len(b) = m /\ \A k \in 1..m : b[k] = [side |-> "r", source |-> right[k], as |-> right[k]]
  BY SelectedItems
<1>3. n \in Nat /\ m \in Nat
  OBVIOUS
<1> HIDE DEF Item, a, b
<1>4. /\ columns \in Seq(Item) /\ Len(columns) = n + m
      /\ \A k \in 1..n : columns[k] = a[k]
      /\ \A k \in 1..m : columns[n + k] = b[k]
  <2>1. Len(a) = n /\ Len(b) = m
    BY <1>1, <1>2
  <2>3. a \in Seq(Item) /\ b \in Seq(Item)
    BY <1>1, <1>2
  <2>2. /\ a \o b \in Seq(Item) /\ Len(a \o b) = Len(a) + Len(b)
        /\ \A k \in 1..Len(a) : (a \o b)[k] = a[k]
        /\ \A k \in 1..Len(b) : (a \o b)[Len(a) + k] = b[k]
    BY <2>3, ConcatItems
  <2> HIDE DEF n, m
  <2> QED BY <2>1, <2>2
<1>5. /\ schema \in Seq(Column) /\ Len(schema) = n + m
      /\ \A k \in 1..n : schema[k] = left[k]
      /\ \A k \in 1..m : schema[n + k] = right[k]
  BY ConcatItems
<1> HIDE DEF n, m, columns, schema
<1>6. \A k \in 1..n + m : k \in 1..n \/ (k - n \in 1..m /\ n + (k - n) = k)
  BY <1>3
<1>7. DOMAIN columns = 1..n + m /\ DOMAIN schema = 1..n + m
  BY <1>4, <1>5
<1>8. \A k \in 1..n : columns[k].side = "l" /\ columns[k].source = left[k] /\ columns[k].as = schema[k]
  BY <1>1, <1>4, <1>5
<1>9. \A k \in 1..m : /\ columns[n + k].side = "r" /\ columns[n + k].source = right[k]
                      /\ columns[n + k].as = schema[n + k]
  BY <1>2, <1>4, <1>5
<1>10. \A k \in 1..n + m : columns[k].as = schema[k]
  <2> SUFFICES ASSUME NEW k \in 1..n + m PROVE columns[k].as = schema[k]
    OBVIOUS
  <2>1. CASE k \in 1..n
    BY <1>8, <2>1
  <2>2. CASE k - n \in 1..m /\ n + (k - n) = k
    <3> DEFINE j == k - n
    <3>1. j \in 1..m /\ n + j = k
      BY <2>2
    <3> HIDE DEF j
    <3> QED BY <1>9, <3>1
  <2> QED BY <1>6, <2>1, <2>2
<1> QED BY <1>3, <1>7, <1>8, <1>9, <1>10 DEF n, m, columns, schema, a, b

LEMMA CompilesJoin ==
  ASSUME NEW bindings \in Catalogs, NEW expr \in Queries(bindings), expr.kind = "Join",
         CompiledWell(bindings, expr.left), CompiledWell(bindings, expr.right)
  PROVE  CompiledWell(bindings, expr)
<1> DEFINE compiled == Compile(bindings, expr)
           left == Compile(bindings, expr.left)
           right == Compile(bindings, expr.right)
<1>1. compiled = CompileJoin(expr, left, right)
  BY CompileOf
<1>2. Children(expr) = <<expr.left, expr.right>>
  BY ChildrenOf
<1>3. CASE left.error # "none"
  <2>1. compiled = left
    BY <1>1, <1>3 DEF CompileJoin
  <2> QED BY <1>3, <2>1 DEF CompiledWell
<1>4. CASE left.error = "none" /\ right.error # "none"
  <2>1. compiled = right
    BY <1>1, <1>4 DEF CompileJoin
  <2> QED BY <1>4, <2>1 DEF CompiledWell
<1>5. CASE left.error = "none" /\ right.error = "none"
  <2> HIDE DEF compiled, left, right
  <2> DEFINE columns == SelectColumns(expr.left.schema, "l") \o SelectColumns(expr.right.schema, "r")
             a == left.parameters
             b == right.parameters
             text == [select |-> columns, from |-> "joined",
                      marks |-> left.text.marks + right.text.marks,
                      l |-> left.text, r |-> right.text,
                      left |-> expr.leftColumn, right |-> expr.rightColumn]
  <2>9. compiled = CompiledSql(text, a \o b, expr.schema)
    BY <1>1, <1>5 DEF CompileJoin, text, columns, a, b
  <2>10. text.marks = left.text.marks + right.text.marks /\ text.select = columns
    OBVIOUS
  <2> HIDE DEF text
  <2> DEFINE both == a \o b
  <2> HIDE DEF both
  <2>11. compiled = CompiledSql(text, both, expr.schema)
    BY <2>9 DEF both
  <2>12. /\ compiled.error = "none" /\ compiled.schema = expr.schema
         /\ compiled.parameters = both /\ compiled.text = text
    BY <2>11 DEF CompiledSql
  <2>1. /\ compiled.error = "none" /\ compiled.schema = expr.schema
        /\ compiled.parameters = a \o b
        /\ compiled.text.marks = left.text.marks + right.text.marks
        /\ compiled.text.select = columns
    BY <2>10, <2>12 DEF both
  <2>2. /\ a \in Seq(Parameter) /\ left.text.marks = Len(a)
        /\ b \in Seq(Parameter) /\ right.text.marks = Len(b)
    BY <1>5 DEF CompiledWell, left, right
  <2> HIDE DEF a, b
  <2>3. a \o b \in Seq(Parameter) /\ Len(a \o b) = Len(a) + Len(b)
    BY <2>2, ConcatItems
  <2>4. \A i \in DOMAIN Children(expr) : Compile(bindings, Children(expr)[i]).error = "none"
    BY <1>2, <1>5 DEF left, right
  <2>5. expr.left \in Query /\ expr.right \in Query /\ expr \in Query
    BY ChildrenOf, QueryOver
  <2>6. expr.left.schema \in Seq(Column) /\ expr.right.schema \in Seq(Column)
        /\ expr.schema = expr.left.schema \o expr.right.schema
    BY <2>5, QueriesAreBuilt, AnswersOf, JoinAnswer
  <2> HIDE DEF columns
  <2>7. DOMAIN columns = DOMAIN expr.schema /\ \A k \in DOMAIN columns : columns[k].as = expr.schema[k]
    <3> DEFINE p == expr.left.schema
               q == expr.right.schema
    <3>1. p \in Seq(Column) /\ q \in Seq(Column) /\ expr.schema = p \o q
          /\ columns = SelectColumns(p, "l") \o SelectColumns(q, "r")
      BY <2>6 DEF columns
    <3> HIDE DEF p, q
    <3> QED BY <3>1, JoinedColumns
  <2>8. compiled.parameters \in Seq(Parameter) /\ compiled.text.marks = Len(compiled.parameters)
    BY <2>1, <2>2, <2>3
  <2> QED BY <2>1, <2>4, <2>7, <2>8 DEF CompiledWell, compiled
<1> QED BY <1>3, <1>4, <1>5

LEMMA Compiles ==
  ASSUME NEW bindings \in Catalogs, NEW expr \in Queries(bindings)
  PROVE  CompiledWell(bindings, expr)
<1> DEFINE S == {e \in Queries(bindings) : CompiledWell(bindings, e)}
<1>1. ASSUME NEW e \in Queries(bindings),
             \A i \in DOMAIN Children(e) : Children(e)[i] \in S
      PROVE  e \in S
  <2>1. e.kind \in {"Select", "Project", "Rename"} => e.child \in S
    BY <1>1, ChildrenOf
  <2>2. e.kind = "Join" => e.left \in S /\ e.right \in S
    BY <1>1, ChildrenOf
  <2>3. e.kind \in ExprKind
    BY ChildrenOf
  <2> QED BY <2>1, <2>2, <2>3, CompilesTable, CompilesSelect, CompilesProject, CompilesJoin
          DEF ExprKind
<1> HIDE DEF S
<1>2. Queries(bindings) \subseteq S
  BY <1>1, QueryInduction
<1> QED BY <1>2 DEF S

-----------------------------------------------------------------------------
(* What SQLite has for the text of a query, with its parameters bound or   *)
(* with none of them.                                                      *)

Database == UNION {ToSet(Databases[l]) : l \in DOMAIN Databases}

ValuesOf(parameters, full) ==
  [k \in DOMAIN parameters |-> IF full THEN BoundValue(parameters[k]) ELSE SqlNull]

Has(bindings, database, expr, full) ==
  RelationOf(database, Compile(bindings, expr).text,
             ValuesOf(Compile(bindings, expr).parameters, full))

ParameterValue == {SqlNull} \cup {BoundValue(p) : p \in Parameter}

LEMMA ValuesType ==
  ASSUME NEW parameters \in Seq(Parameter), NEW full
  PROVE  /\ ValuesOf(parameters, full) \in Seq(ParameterValue)
         /\ Len(ValuesOf(parameters, full)) = Len(parameters)
<1> DEFINE n == Len(parameters)
           values == ValuesOf(parameters, full)
<1>1. n \in Nat /\ DOMAIN parameters = 1..n /\ \A k \in 1..n : parameters[k] \in Parameter
  OBVIOUS
<1>2. values = [k \in 1..n |-> IF full THEN BoundValue(parameters[k]) ELSE SqlNull]
  BY <1>1 DEF ValuesOf
<1>3. \A k \in 1..n : (IF full THEN BoundValue(parameters[k]) ELSE SqlNull) \in ParameterValue
  BY <1>1 DEF ParameterValue
<1> HIDE DEF n, values
<1>4. values \in [1..n -> ParameterValue]
  BY <1>2, <1>3
<1>5. values \in Seq(ParameterValue) /\ Len(values) = n
  BY <1>1, <1>4
<1> QED BY <1>5 DEF n, values

\* Each part of the parameters has the values of that part.
LEMMA ValuesParts ==
  ASSUME NEW s \in Seq(Parameter), NEW t \in Seq(Parameter), NEW full
  PROVE  LET values == ValuesOf(s \o t, full) IN
         /\ SubSeq(values, 1, Len(s)) = ValuesOf(s, full)
         /\ SubSeq(values, Len(s) + 1, Len(values)) = ValuesOf(t, full)
<1> DEFINE u == s \o t
           values == ValuesOf(u, full)
           first == ValuesOf(s, full)
           second == ValuesOf(t, full)
           both == first \o second
           n == Len(s)
           m == Len(t)
<1>1. /\ u \in Seq(Parameter) /\ Len(u) = n + m
      /\ \A k \in 1..n : u[k] = s[k]
      /\ \A k \in 1..m : u[n + k] = t[k]
  BY ConcatItems
<1>2. n \in Nat /\ m \in Nat /\ DOMAIN s = 1..n /\ DOMAIN t = 1..m
  OBVIOUS
<1>3. /\ first \in Seq(ParameterValue) /\ Len(first) = n
      /\ second \in Seq(ParameterValue) /\ Len(second) = m
  BY ValuesType
<1> HIDE DEF u
<1>4. values \in Seq(ParameterValue) /\ Len(values) = n + m
  BY <1>1, ValuesType
<1>5. DOMAIN u = 1..n + m
  BY <1>1
<1>6. \A k \in 1..n + m : values[k] = IF full THEN BoundValue(u[k]) ELSE SqlNull
  BY <1>5 DEF ValuesOf
<1>7. /\ \A k \in 1..n : first[k] = IF full THEN BoundValue(s[k]) ELSE SqlNull
      /\ \A k \in 1..m : second[k] = IF full THEN BoundValue(t[k]) ELSE SqlNull
  BY <1>2 DEF ValuesOf
<1> HIDE DEF first, second, values, n, m
<1>8. /\ both \in Seq(ParameterValue) /\ Len(both) = n + m
      /\ \A k \in 1..n : both[k] = first[k]
      /\ \A k \in 1..m : both[n + k] = second[k]
  <2>1. first \in Seq(ParameterValue) /\ second \in Seq(ParameterValue)
    BY <1>3
  <2>2. /\ both \in Seq(ParameterValue) /\ Len(both) = Len(first) + Len(second)
        /\ \A k \in 1..Len(first) : both[k] = first[k]
        /\ \A k \in 1..Len(second) : both[Len(first) + k] = second[k]
    BY <2>1, ConcatItems
  <2> QED BY <1>3, <2>2
<1> HIDE DEF both
<1>9. \A k \in 1..n + m : both[k] = values[k]
  <2> SUFFICES ASSUME NEW k \in 1..n + m PROVE both[k] = values[k]
    OBVIOUS
  <2>1. CASE k \in 1..n
    BY <1>1, <1>6, <1>7, <1>8, <2>1
  <2>2. CASE k \notin 1..n
    <3> DEFINE j == k - n
    <3>1. j \in 1..m /\ n + j = k
      BY <1>2, <2>2
    <3> HIDE DEF j
    <3>2. both[k] = second[j] /\ u[k] = t[j]
      BY <1>1, <1>8, <3>1
    <3> QED BY <1>6, <1>7, <3>1, <3>2
  <2> QED BY <2>1, <2>2
<1>10. values = both
  BY <1>4, <1>8, <1>9, SameItems
<1>11. SubSeq(first \o second, 1, Len(first)) = first
       /\ SubSeq(first \o second, Len(first) + 1, Len(first \o second)) = second
  BY <1>3, ConcatParts
<1> QED BY <1>3, <1>10, <1>11 DEF both, values, first, second, u, n

\* The values of SqliteBackend.
LEMMA ValuesGiven ==
  ASSUME NEW bindings \in Catalogs, NEW expr \in Queries(bindings),
         Compile(bindings, expr).error = "none"
  PROVE  LET compiled == Compile(bindings, expr) IN
         /\ Bound(compiled) = ValuesOf(compiled.parameters, TRUE)
         /\ Unbound(compiled.text) = ValuesOf(compiled.parameters, FALSE)
<1> DEFINE compiled == Compile(bindings, expr)
<1>1. compiled.parameters \in Seq(Parameter) /\ compiled.text.marks = Len(compiled.parameters)
  BY Compiles DEF CompiledWell
<1>2. DOMAIN compiled.parameters = 1..compiled.text.marks
  BY <1>1
<1> HIDE DEF compiled
<1> QED BY <1>2 DEF Bound, Unbound, ValuesOf, compiled

LEMMA HasNode ==
  ASSUME NEW bindings \in Catalogs, NEW expr \in Queries(bindings), NEW database \in Database,
         NEW full \in BOOLEAN, Compile(bindings, expr).error = "none"
  PROVE  LET compiled == Compile(bindings, expr)
             bound == ValuesOf(compiled.parameters, full)
         IN  Has(bindings, database, expr, full) =
               RelationNode(database, compiled.text, bound,
                            RelationsOf(database, compiled.text, bound))
<1> DEFINE compiled == Compile(bindings, expr)
           bound == ValuesOf(compiled.parameters, full)
<1>1. PICK l \in DOMAIN Databases : database \in ToSet(Databases[l])
  BY DEF Database
<1>2. bound \in {Bound(compiled), Unbound(compiled.text)}
  BY ValuesGiven
<1> HIDE DEF bound
<1>3. RelationOf(database, compiled.text, bound) =
        RelationNode(database, compiled.text, bound, RelationsOf(database, compiled.text, bound))
  BY <1>1, <1>2, RelationAssumption
<1> QED BY <1>3 DEF Has, bound

-----------------------------------------------------------------------------
(* The same, by the kind of the query.                                     *)

LEMMA HasTable ==
  ASSUME NEW bindings \in Catalogs, NEW expr \in Queries(bindings), NEW database \in Database,
         NEW full \in BOOLEAN, Compile(bindings, expr).error = "none", expr.kind = "Table"
  PROVE  LET source == FindIn(bindings, expr.name, "SQLite") IN
         /\ source # <<>>
         /\ Has(bindings, database, expr, full) =
              IF source[1].physicalName \in DOMAIN database
              THEN TableAnswer(database[source[1].physicalName], PhysicalColumns(expr.schema))
              ELSE Unprepared
<1> DEFINE source == FindIn(bindings, expr.name, "SQLite")
           compiled == Compile(bindings, expr)
           bound == ValuesOf(compiled.parameters, full)
           parts == RelationsOf(database, compiled.text, bound)
<1>1. compiled = CompileTable(bindings, expr.name, expr.schema)
  BY CompileOf
<1>2. source # <<>> /\ compiled.text.from = "table"
      /\ compiled.text.select = PhysicalColumns(expr.schema)
      /\ compiled.text.table = source[1].physicalName
  BY <1>1 DEF CompileTable, CompiledSql, NotCompiled
<1>3. Has(bindings, database, expr, full) = RelationNode(database, compiled.text, bound, parts)
  BY HasNode
<1> HIDE DEF source, compiled, bound, parts
<1> QED BY <1>2, <1>3 DEF RelationNode, source

\* The value a condition is compared with.
ConditionValue(condition, full) ==
  IF full /\ condition.rightKind = "Literal" THEN BoundValue(SqlParameter(condition)) ELSE SqlNull

LEMMA HasSelect ==
  ASSUME NEW bindings \in Catalogs, NEW expr \in Queries(bindings), NEW database \in Database,
         NEW full \in BOOLEAN, Compile(bindings, expr).error = "none", expr.kind = "Select"
  PROVE  LET child == Compile(bindings, expr.child) IN
         /\ ~expr.condition.raw /\ child.error = "none"
         /\ Has(bindings, database, expr, full) =
              Filtered(FilterText(expr.condition, expr.schema, child),
                       Has(bindings, database, expr.child, full),
                       ConditionValue(expr.condition, full))
         /\ Compile(bindings, expr).parameters =
              child.parameters \o (IF expr.condition.rightKind = "Column" THEN <<>>
                                   ELSE <<SqlParameter(expr.condition)>>)
<1> DEFINE condition == expr.condition
           compiled == Compile(bindings, expr)
           child == Compile(bindings, expr.child)
           parameters == compiled.parameters
           first == child.parameters
           one == <<SqlParameter(condition)>>
           none == <<>>
           more == IF condition.rightKind = "Column" THEN none ELSE one
           bound == ValuesOf(parameters, full)
           text == FilterText(condition, expr.schema, child)
           parts == RelationsOf(database, compiled.text, bound)
<1>1. compiled = CompileSelect(condition, expr.schema, child)
  BY CompileOf
<1>2. ~condition.raw /\ child.error = "none" /\ compiled.text = text
      /\ parameters = first \o more
  <2>1. ~condition.raw /\ child.error = "none"
    BY <1>1 DEF CompileSelect, NotCompiled
  <2>2. compiled = CompiledSql(text, first \o more, expr.schema)
    BY <1>1, <2>1 DEF CompileSelect
  <2> HIDE DEF text, first, more, compiled
  <2>3. compiled.text = text /\ compiled.parameters = first \o more
    BY <2>2 DEF CompiledSql
  <2> QED BY <2>1, <2>3
<1>3. Has(bindings, database, expr, full) = RelationNode(database, text, bound, parts)
  BY <1>2, HasNode
<1>4. condition \in Condition /\ expr.child \in Queries(bindings)
  BY QueryOver, ChildrenOf DEF NodeOK, LabelOK
<1>5. first \in Seq(Parameter) /\ child.text.marks = Len(first)
  BY <1>2, <1>4, Compiles DEF CompiledWell
<1>6. SqlParameter(condition) \in Parameter
  BY <1>4 DEF SqlParameter, Parameter, Condition
<1>7. more \in Seq(Parameter)
  BY <1>6
<1>8. text.from = "filtered" /\ text.q = child.text /\ text.rightKind = condition.rightKind
  BY DEF FilterText
<1>9. more = IF condition.rightKind = "Column" THEN none ELSE one
  OBVIOUS
<1> HIDE DEF more, first, text, compiled, parts, bound
<1>10. SubSeq(bound, 1, child.text.marks) = ValuesOf(first, full)
  BY <1>2, <1>5, <1>7, ValuesParts DEF bound
<1>11. parts[1] = Has(bindings, database, expr.child, full)
  <2> DEFINE given == SubSeq(bound, 1, child.text.marks)
  <2>1. parts = [i \in DOMAIN <<child.text>> |->
                   RelationOf(database, <<child.text>>[i], <<given>>[i])]
    BY <1>2, <1>8 DEF parts, RelationsOf, Subqueries, BoundIn
  <2> HIDE DEF given
  <2>2. parts[1] = RelationOf(database, child.text, given)
    BY <2>1
  <2> QED BY <1>10, <2>2 DEF Has, first, given
<1>12. ASSUME condition.rightKind = "Literal"
       PROVE  bound[Len(bound)] = ConditionValue(condition, full)
  <2> DEFINE n == Len(first)
             m == n + 1
  <2>1. more = one /\ Len(one) = 1 /\ one[1] = SqlParameter(condition)
    BY <1>9, <1>12
  <2>2. parameters \in Seq(Parameter) /\ Len(parameters) = n + Len(more)
        /\ \A k \in 1..Len(more) : parameters[n + k] = more[k]
    BY <1>2, <1>5, <1>7, ConcatItems
  <2>3. n \in Nat
    BY <1>5
  <2> HIDE DEF one, parameters, n
  <2>7. m \in 1..m /\ 1 \in 1..1
    BY <2>3
  <2>4. Len(parameters) = m /\ parameters[m] = SqlParameter(condition) /\ m \in 1..m
    <3>1. 1 \in 1..Len(more) /\ more[1] = SqlParameter(condition) /\ Len(more) = 1
      BY <2>1, <2>7
    <3> QED BY <2>2, <2>7, <3>1
  <2> HIDE DEF m
  <2>5. Len(bound) = m /\ DOMAIN parameters = 1..m
    BY <2>2, <2>4, ValuesType DEF bound
  <2>6. bound[m] = IF full THEN BoundValue(parameters[m]) ELSE SqlNull
    BY <2>4, <2>5 DEF bound, ValuesOf
  <2> QED BY <1>12, <2>4, <2>5, <2>6 DEF ConditionValue
<1>13. ASSUME condition.rightKind # "Literal"
       PROVE  SqlNull = ConditionValue(condition, full)
  BY <1>13 DEF ConditionValue
<1>14. Has(bindings, database, expr, full) =
         Filtered(text, Has(bindings, database, expr.child, full), ConditionValue(condition, full))
  BY <1>3, <1>8, <1>11, <1>12, <1>13 DEF RelationNode
<1> QED BY <1>2, <1>14 DEF text, more, first, compiled

LEMMA HasProject ==
  ASSUME NEW bindings \in Catalogs, NEW expr \in Queries(bindings), NEW database \in Database,
         NEW full \in BOOLEAN, Compile(bindings, expr).error = "none",
         expr.kind \in {"Project", "Rename"}
  PROVE  LET child == Has(bindings, database, expr.child, full) IN
         /\ Compile(bindings, expr.child).error = "none"
         /\ Has(bindings, database, expr, full) =
              Selected(SelectColumns(expr.schema, "q"), child, DOMAIN child.rows)
         /\ Compile(bindings, expr).parameters = Compile(bindings, expr.child).parameters
<1> DEFINE compiled == Compile(bindings, expr)
           child == Compile(bindings, expr.child)
           bound == ValuesOf(compiled.parameters, full)
           first == child.parameters
           none == <<>>
           parts == RelationsOf(database, compiled.text, bound)
<1>1. compiled = CompileProject(expr.schema, child)
  <2>1. expr.kind = "Project" => expr.columns = expr.schema
    BY QueryOver DEF NodeOK, Rebuilt, ProjectExpr
  <2> QED BY <2>1, CompileOf DEF CompileRename
<1>2. /\ child.error = "none" /\ compiled.parameters = first
      /\ compiled.text.select = SelectColumns(expr.schema, "q")
      /\ compiled.text.from = "query" /\ compiled.text.q = child.text
  BY <1>1 DEF CompileProject, CompiledSql
<1>3. Has(bindings, database, expr, full) = RelationNode(database, compiled.text, bound, parts)
  BY HasNode
<1>4. expr.child \in Queries(bindings)
  BY ChildrenOf
<1>5. first \in Seq(Parameter) /\ child.text.marks = Len(first)
  BY <1>2, <1>4, Compiles DEF CompiledWell
<1> HIDE DEF compiled, parts, bound, first
<1>6. SubSeq(bound, 1, child.text.marks) = ValuesOf(first, full)
  <2>1. bound = ValuesOf(first, full)
    BY <1>2 DEF bound
  <2>2. bound \in Seq(ParameterValue) /\ Len(bound) = Len(first)
    BY <1>5, <2>1, ValuesType
  <2>3. SubSeq(bound, 1, Len(bound)) = bound
    BY <2>2
  <2> QED BY <1>5, <2>1, <2>2, <2>3
<1>7. parts[1] = Has(bindings, database, expr.child, full)
  <2> DEFINE given == SubSeq(bound, 1, child.text.marks)
  <2>1. parts = [i \in DOMAIN <<child.text>> |->
                   RelationOf(database, <<child.text>>[i], <<given>>[i])]
    BY <1>2 DEF parts, RelationsOf, Subqueries, BoundIn
  <2> HIDE DEF given
  <2>2. parts[1] = RelationOf(database, child.text, given)
    BY <2>1
  <2> QED BY <1>6, <2>2 DEF Has, first, given
<1>8. Has(bindings, database, expr, full) =
        Selected(SelectColumns(expr.schema, "q"), parts[1], DOMAIN parts[1].rows)
  BY <1>2, <1>3 DEF RelationNode
<1> QED BY <1>2, <1>7, <1>8 DEF compiled, first

\* The text of a Join.
JoinText(expr, left, right) ==
  [select |-> SelectColumns(expr.left.schema, "l") \o SelectColumns(expr.right.schema, "r"),
   from |-> "joined", marks |-> left.text.marks + right.text.marks,
   l |-> left.text, r |-> right.text, left |-> expr.leftColumn, right |-> expr.rightColumn]

LEMMA JoinTextParts ==
  ASSUME NEW expr, NEW left, NEW right
  PROVE  LET text == JoinText(expr, left, right) IN
         /\ text.select = SelectColumns(expr.left.schema, "l") \o SelectColumns(expr.right.schema, "r")
         /\ text.from = "joined" /\ text.l = left.text /\ text.r = right.text
         /\ text.left = expr.leftColumn /\ text.right = expr.rightColumn
BY DEF JoinText

LEMMA HasJoin ==
  ASSUME NEW bindings \in Catalogs, NEW expr \in Queries(bindings), NEW database \in Database,
         NEW full \in BOOLEAN, Compile(bindings, expr).error = "none", expr.kind = "Join"
  PROVE  LET left == Compile(bindings, expr.left)
             right == Compile(bindings, expr.right)
         IN  /\ left.error = "none" /\ right.error = "none"
             /\ Has(bindings, database, expr, full) =
                  Joined(JoinText(expr, left, right), Has(bindings, database, expr.left, full),
                         Has(bindings, database, expr.right, full))
             /\ Compile(bindings, expr).parameters = left.parameters \o right.parameters
             /\ Compile(bindings, expr).text = JoinText(expr, left, right)
<1> DEFINE compiled == Compile(bindings, expr)
           left == Compile(bindings, expr.left)
           right == Compile(bindings, expr.right)
           a == left.parameters
           b == right.parameters
           text == JoinText(expr, left, right)
           bound == ValuesOf(compiled.parameters, full)
           parts == RelationsOf(database, compiled.text, bound)
<1>1. compiled = CompileJoin(expr, left, right)
  BY CompileOf
<1>2. left.error = "none" /\ right.error = "none"
  BY <1>1 DEF CompileJoin
<1>3. compiled = CompiledSql(text, a \o b, expr.schema)
  BY <1>1, <1>2 DEF CompileJoin, JoinText
<1>4. Has(bindings, database, expr, full) = RelationNode(database, compiled.text, bound, parts)
  BY HasNode
<1>5. expr.left \in Queries(bindings) /\ expr.right \in Queries(bindings)
  BY ChildrenOf
<1>6. /\ a \in Seq(Parameter) /\ left.text.marks = Len(a)
      /\ b \in Seq(Parameter) /\ right.text.marks = Len(b)
  BY <1>2, <1>5, Compiles DEF CompiledWell
<1>7. text.from = "joined" /\ text.l = left.text /\ text.r = right.text
  BY JoinTextParts
<1> HIDE DEF text, compiled, parts, bound, a, b
<1>8. compiled.text = text /\ compiled.parameters = a \o b
  BY <1>3 DEF CompiledSql
<1>9. /\ SubSeq(bound, 1, left.text.marks) = ValuesOf(a, full)
      /\ SubSeq(bound, left.text.marks + 1, Len(bound)) = ValuesOf(b, full)
  BY <1>6, <1>8, ValuesParts DEF bound
<1> DEFINE first == SubSeq(bound, 1, left.text.marks)
           second == SubSeq(bound, left.text.marks + 1, Len(bound))
<1>10. parts = [i \in DOMAIN <<left.text, right.text>> |->
                  RelationOf(database, <<left.text, right.text>>[i], <<first, second>>[i])]
  BY <1>7, <1>8 DEF parts, RelationsOf, Subqueries, BoundIn
<1> HIDE DEF first, second
<1>11. parts[1] = RelationOf(database, left.text, first)
       /\ parts[2] = RelationOf(database, right.text, second)
  BY <1>10
<1>12. /\ parts[1] = Has(bindings, database, expr.left, full)
       /\ parts[2] = Has(bindings, database, expr.right, full)
  BY <1>9, <1>11 DEF Has, a, b, first, second
<1>13. Has(bindings, database, expr, full) = Joined(text, parts[1], parts[2])
  BY <1>4, <1>7, <1>8 DEF RelationNode
<1> QED BY <1>2, <1>8, <1>12, <1>13 DEF text, compiled, a, b

-----------------------------------------------------------------------------
(* The columns of what SQLite has are those of the schema, and whether it  *)
(* has something does not depend on what is bound.                         *)

Shaped(relation, schema) ==
  relation.error = "none" =>
    /\ relation.names = schema /\ DOMAIN relation.affinities = DOMAIN schema
    /\ \A id \in DOMAIN relation.rows :
         relation.rows[id] = [k \in DOMAIN schema |-> relation.rows[id][k]]

LEMMA RelationFields ==
  ASSUME NEW names, NEW affinities, NEW rows
  PROVE  LET relation == Relation(names, affinities, rows) IN
         /\ relation.error = "none" /\ relation.names = names
         /\ relation.affinities = affinities /\ relation.rows = rows
BY DEF Relation

\* A relation of given columns, whatever its cells are.
LEMMA BuiltShape ==
  ASSUME NEW schema, schema = [k \in DOMAIN schema |-> schema[k]],
         NEW columns, DOMAIN columns = DOMAIN schema, \A k \in DOMAIN schema : columns[k].as = schema[k],
         NEW affinities, DOMAIN affinities = DOMAIN columns,
         NEW rows, \A id \in DOMAIN rows : rows[id] = [k \in DOMAIN columns |-> rows[id][k]]
  PROVE  Shaped(Relation([k \in DOMAIN columns |-> columns[k].as], affinities, rows), schema)
<1> DEFINE names == [k \in DOMAIN columns |-> columns[k].as]
<1>1. names = schema
  <2>1. [k \in DOMAIN schema |-> columns[k].as] = [k \in DOMAIN schema |-> schema[k]]
    OBVIOUS
  <2> QED BY <2>1
<1> HIDE DEF names
<1> QED BY <1>1, RelationFields DEF Shaped, names

LEMMA UnpreparedShape ==
  ASSUME NEW schema PROVE Shaped(Unprepared, schema) /\ Unprepared.error = "prepare"
BY DEF Shaped, Unprepared

\* What a SELECT of the columns of a schema takes from a relation.
Affinities(relation, schema) == [k \in DOMAIN schema |-> AffinityOf(relation, schema[k])]
Values(relation, schema, ids) ==
  [id \in ids |-> [k \in DOMAIN schema |-> At(relation, id, schema[k]).value]]

LEMMA SelectedShape ==
  ASSUME NEW schema \in Seq(Column), NEW side, NEW relation, NEW ids
  PROVE  LET r == Selected(SelectColumns(schema, side), relation, ids) IN
         /\ Shaped(r, schema) /\ r.error \in {"none", "prepare"}
         /\ r.error = "none" <=>
              /\ relation.error = "none" /\ schema # <<>>
              /\ \A k \in DOMAIN schema : SequenceContains(relation.names, schema[k])
         /\ r.error = "none" =>
              r = Relation(schema, Affinities(relation, schema), Values(relation, schema, ids))
<1> DEFINE columns == SelectColumns(schema, side)
           r == Selected(columns, relation, ids)
           none == <<>>
           bad == \/ relation.error # "none" \/ columns = none
                  \/ \E k \in DOMAIN columns : ~Names(relation, columns[k].source)
           names == [k \in DOMAIN columns |-> columns[k].as]
           affinities == [k \in DOMAIN columns |-> AffinityOf(relation, columns[k].source)]
           rows == [id \in ids |->
                      [k \in DOMAIN columns |-> At(relation, id, columns[k].source).value]]
           affinities2 == [k \in DOMAIN schema |-> AffinityOf(relation, schema[k])]
           rows2 == [id \in ids |-> [k \in DOMAIN schema |-> At(relation, id, schema[k]).value]]
<1>1. DOMAIN columns = DOMAIN schema
      /\ \A k \in DOMAIN schema : columns[k].as = schema[k] /\ columns[k].source = schema[k]
  BY SelectedColumns
<1>2. columns = none <=> schema = <<>>
  <2>1. columns = [k \in DOMAIN schema |-> columns[k]]
    BY DEF SelectColumns
  <2>2. none = [k \in {} |-> none[k]] /\ DOMAIN none = {}
    OBVIOUS
  <2>3. schema = [k \in DOMAIN schema |-> schema[k]]
    OBVIOUS
  <2> HIDE DEF columns
  <2>4. columns = none <=> DOMAIN schema = {}
    <3>1. ASSUME DOMAIN schema = {} PROVE columns = none
      BY <2>1, <2>2, <3>1
    <3> QED BY <1>1, <2>2, <3>1
  <2>5. schema = none <=> DOMAIN schema = {}
    <3>1. ASSUME DOMAIN schema = {} PROVE schema = none
      BY <2>2, <2>3, <3>1
    <3> QED BY <2>2, <3>1
  <2> QED BY <2>4, <2>5
<1>3. r = IF bad THEN Unprepared ELSE Relation(names, affinities, rows)
  BY DEF Selected
<1>4. names = [k \in DOMAIN columns |-> columns[k].as]
  OBVIOUS
<1>5. affinities = affinities2 /\ rows = rows2 /\ DOMAIN affinities = DOMAIN columns
  <2> HIDE DEF columns
  <2> QED BY <1>1
<1>6. \A id \in DOMAIN rows2 : rows2[id] = [k \in DOMAIN columns |-> rows2[id][k]]
  <2> HIDE DEF columns
  <2> QED BY <1>1
<1>7. schema = [k \in DOMAIN schema |-> schema[k]]
  OBVIOUS
<1>8. names = schema
  <2> HIDE DEF columns
  <2>1. [k \in DOMAIN schema |-> columns[k].as] = [k \in DOMAIN schema |-> schema[k]]
    BY <1>1
  <2> QED BY <1>1, <1>7, <2>1
<1>9. bad <=> ~ (/\ relation.error = "none" /\ schema # <<>>
                 /\ \A k \in DOMAIN schema : SequenceContains(relation.names, schema[k]))
  <2> HIDE DEF columns, none
  <2> QED BY <1>1, <1>2 DEF Names
<1> HIDE DEF bad, columns, affinities, rows, rows2, affinities2
<1>10. Shaped(Relation(names, affinities, rows), schema)
  BY <1>1, <1>5, <1>6, <1>7, BuiltShape
<1> HIDE DEF names
<1>11. CASE bad
  <2>1. r = Unprepared
    BY <1>3, <1>11
  <2> HIDE DEF r
  <2>2. Shaped(r, schema) /\ r.error = "prepare"
    BY <2>1, UnpreparedShape
  <2> QED BY <1>9, <1>11, <2>2 DEF r, columns
<1>12. CASE ~bad
  <2>1. r = Relation(names, affinities, rows)
    BY <1>3, <1>12
  <2> HIDE DEF r
  <2>2. Shaped(r, schema) /\ r.error = "none"
    BY <1>10, <2>1, RelationFields
  <2>3. r = Relation(schema, affinities2, rows2)
    BY <1>5, <1>8, <2>1
  <2> QED BY <1>9, <1>12, <2>2, <2>3 DEF r, columns, affinities2, rows2, Affinities, Values
<1> QED BY <1>11, <1>12

LEMMA FilteredShape ==
  ASSUME NEW schema \in Seq(Column), NEW condition, NEW child, NEW relation, NEW value
  PROVE  LET text == FilterText(condition, schema, child)
             r == Filtered(text, relation, value)
         IN  /\ Shaped(r, schema) /\ r.error \in {"none", "prepare"}
             /\ r.error = "none" <=>
                  /\ relation.error = "none" /\ SequenceContains(relation.names, condition.leftColumn)
                  /\ condition.rightKind = "Column" =>
                       SequenceContains(relation.names, condition.rightColumn)
                  /\ schema # <<>>
                  /\ \A k \in DOMAIN schema : SequenceContains(relation.names, schema[k])
<1> DEFINE text == FilterText(condition, schema, child)
           r == Filtered(text, relation, value)
           right(id) == IF text.rightKind = "Literal" THEN [value |-> value, affinity |-> "none"]
                        ELSE At(relation, id, text.right)
           ids == {id \in DOMAIN relation.rows :
                     SqlCompare(text.compareOp, At(relation, id, text.left), right(id))}
           bad == \/ relation.error # "none" \/ ~Names(relation, text.left)
                  \/ text.rightKind = "Column" /\ ~Names(relation, text.right)
<1>1. /\ text.select = SelectColumns(schema, "q") /\ text.left = condition.leftColumn
      /\ text.rightKind = condition.rightKind
      /\ condition.rightKind = "Column" => text.right = condition.rightColumn
  BY DEF FilterText
<1>2. r = IF bad THEN Unprepared ELSE Selected(text.select, relation, ids)
  BY DEF Filtered
<1> DEFINE columns == SelectColumns(schema, "q")
           selected == Selected(columns, relation, ids)
           named == \A k \in DOMAIN schema : SequenceContains(relation.names, schema[k])
<1>5. bad <=> ~ (/\ relation.error = "none" /\ SequenceContains(relation.names, condition.leftColumn)
                 /\ condition.rightKind = "Column" =>
                      SequenceContains(relation.names, condition.rightColumn))
  <2> HIDE DEF text
  <2> QED BY <1>1 DEF Names
<1> HIDE DEF ids
<1>6. /\ Shaped(selected, schema) /\ selected.error \in {"none", "prepare"}
      /\ selected.error = "none" <=> relation.error = "none" /\ schema # <<>> /\ named
  BY SelectedShape
<1>7. r = IF bad THEN Unprepared ELSE selected
  <2> HIDE DEF bad, r, text
  <2> QED BY <1>1, <1>2
<1> HIDE DEF text, r, bad, selected
<1>8. /\ Shaped(r, schema) /\ r.error \in {"none", "prepare"}
      /\ r.error = "none" <=> ~bad /\ selected.error = "none"
  BY <1>6, <1>7, UnpreparedShape
<1> QED BY <1>5, <1>6, <1>8 DEF r, text

LEMMA TableShape ==
  ASSUME NEW schema \in Seq(Column), NEW table
  PROVE  LET r == TableAnswer(table, PhysicalColumns(schema))
         IN  Shaped(r, schema) /\ r.error \in {"none", "prepare"}
<1> DEFINE columns == PhysicalColumns(schema)
           has(k) == SequenceContains(table.columns, columns[k].source)
           place(k) == ColumnIndex(table.columns, columns[k].source)
           cell(row, k) == IF has(k) THEN row[place(k)] ELSE Value("text", NameText(columns[k].source))
           affinities == [k \in DOMAIN columns |-> IF has(k) THEN table.affinities[place(k)] ELSE "none"]
           rows == [id \in {<<i>> : i \in DOMAIN table.rows} |->
                      [k \in DOMAIN columns |-> cell(table.rows[id[1]], k)]]
           r == TableAnswer(table, columns)
           bad == columns = <<>> \/ (~DoubleQuotedStrings /\ \E k \in DOMAIN columns : ~has(k))
<1>1. DOMAIN columns = DOMAIN schema /\ \A k \in DOMAIN schema : columns[k].as = schema[k]
  BY DEF PhysicalColumns
<1>2. r = IF bad THEN Unprepared
          ELSE Relation([k \in DOMAIN columns |-> columns[k].as], affinities, rows)
  BY DEF TableAnswer
<1>3. DOMAIN affinities = DOMAIN columns
      /\ \A id \in DOMAIN rows : rows[id] = [k \in DOMAIN columns |-> rows[id][k]]
  OBVIOUS
<1>4. schema = [k \in DOMAIN schema |-> schema[k]]
  OBVIOUS
<1> HIDE DEF columns, affinities, rows
<1>5. Shaped(Relation([k \in DOMAIN columns |-> columns[k].as], affinities, rows), schema)
  BY <1>1, <1>3, <1>4, BuiltShape
<1> HIDE DEF bad, r
<1> QED BY <1>2, <1>5, RelationFields, UnpreparedShape DEF r, columns

LEMMA JoinedShape ==
  ASSUME NEW schema \in Seq(Column), NEW text, DOMAIN text.select = DOMAIN schema,
         \A k \in DOMAIN schema : text.select[k].as = schema[k], NEW l, NEW r,
         l.error \in {"none", "prepare"}, r.error \in {"none", "prepare"}
  PROVE  LET relation == Joined(text, l, r) IN
         /\ Shaped(relation, schema) /\ relation.error \in {"none", "prepare"}
         /\ relation.error = "none" <=>
              /\ l.error = "none" /\ r.error = "none"
              /\ SequenceContains(l.names, text.left) /\ SequenceContains(r.names, text.right)
              /\ \A k \in DOMAIN text.select :
                   SequenceContains((IF text.select[k].side = "l" THEN l ELSE r).names,
                                    text.select[k].source)
<1> DEFINE columns == text.select
           side(k) == IF columns[k].side = "l" THEN l ELSE r
           row(pair, k) == IF columns[k].side = "l" THEN pair[1] ELSE pair[2]
           affinities == [k \in DOMAIN columns |-> AffinityOf(side(k), columns[k].source)]
           rows == [pair \in Matches(text, l, r) |->
                      [k \in DOMAIN columns |-> At(side(k), row(pair, k), columns[k].source).value]]
           bad == \/ "prepare" \in {l.error, r.error} \/ ~Names(l, text.left) \/ ~Names(r, text.right)
                  \/ \E k \in DOMAIN columns : ~Names(side(k), columns[k].source)
           relation == Joined(text, l, r)
<1>1. relation = IF bad THEN Unprepared
                 ELSE Relation([k \in DOMAIN columns |-> columns[k].as], affinities, rows)
  BY DEF Joined
<1>2. DOMAIN affinities = DOMAIN columns
      /\ \A id \in DOMAIN rows : rows[id] = [k \in DOMAIN columns |-> rows[id][k]]
  OBVIOUS
<1>3. schema = [k \in DOMAIN schema |-> schema[k]]
  OBVIOUS
<1>4. bad <=> ~ (/\ l.error = "none" /\ r.error = "none"
                 /\ SequenceContains(l.names, text.left) /\ SequenceContains(r.names, text.right)
                 /\ \A k \in DOMAIN text.select :
                      SequenceContains((IF text.select[k].side = "l" THEN l ELSE r).names,
                                       text.select[k].source))
  BY DEF Names
<1> HIDE DEF affinities, rows, bad
<1>5. Shaped(Relation([k \in DOMAIN columns |-> columns[k].as], affinities, rows), schema)
  BY <1>2, <1>3, BuiltShape
<1> HIDE DEF columns, relation
<1>6. Shaped(relation, schema)
      /\ relation.error = IF bad THEN "prepare" ELSE "none"
  BY <1>1, <1>5, RelationFields, UnpreparedShape
<1> QED BY <1>4, <1>6 DEF relation

LEMMA HasShape ==
  ASSUME NEW bindings \in Catalogs, NEW expr \in Queries(bindings), NEW database \in Database,
         NEW full \in BOOLEAN, Compile(bindings, expr).error = "none"
  PROVE  LET r == Has(bindings, database, expr, full)
         IN  Shaped(r, expr.schema) /\ r.error \in {"none", "prepare"}
<1> DEFINE S == {e \in Queries(bindings) :
                   Compile(bindings, e).error = "none" =>
                     LET r == Has(bindings, database, e, full)
                     IN  Shaped(r, e.schema) /\ r.error \in {"none", "prepare"}}
<1>1. ASSUME NEW e \in Queries(bindings),
             \A i \in DOMAIN Children(e) : Children(e)[i] \in S,
             Compile(bindings, e).error = "none"
      PROVE  LET r == Has(bindings, database, e, full)
             IN  Shaped(r, e.schema) /\ r.error \in {"none", "prepare"}
  <2>1. e.schema \in Seq(Column) /\ e.kind \in ExprKind
    BY QueryOver DEF NodeOK
  <2>2. CASE e.kind = "Table"
    BY <1>1, <2>1, <2>2, HasTable, TableShape, UnpreparedShape
  <2>3. CASE e.kind = "Select"
    <3> DEFINE child == Compile(bindings, e.child)
               condition == e.condition
               relation == Has(bindings, database, e.child, full)
               value == ConditionValue(condition, full)
    <3>1. Has(bindings, database, e, full) =
            Filtered(FilterText(condition, e.schema, child), relation, value)
      BY <1>1, <2>3, HasSelect
    <3> HIDE DEF child, condition, relation, value
    <3> QED BY <2>1, <3>1, FilteredShape
  <2>4. CASE e.kind \in {"Project", "Rename"}
    <3> DEFINE relation == Has(bindings, database, e.child, full)
               columns == SelectColumns(e.schema, "q")
               ids == DOMAIN relation.rows
    <3>1. Has(bindings, database, e, full) = Selected(columns, relation, ids)
      BY <1>1, <2>4, HasProject
    <3> HIDE DEF relation, ids
    <3> QED BY <2>1, <3>1, SelectedShape
  <2>5. CASE e.kind = "Join"
    <3> DEFINE left == Compile(bindings, e.left)
               right == Compile(bindings, e.right)
               l == Has(bindings, database, e.left, full)
               r == Has(bindings, database, e.right, full)
               text == JoinText(e, left, right)
    <3>1. /\ left.error = "none" /\ right.error = "none"
          /\ Has(bindings, database, e, full) = Joined(text, l, r)
      BY <1>1, <2>5, HasJoin
    <3>2. e.left \in S /\ e.right \in S
      BY <1>1, <2>5, ChildrenOf
    <3>3. l.error \in {"none", "prepare"} /\ r.error \in {"none", "prepare"}
      BY <3>1, <3>2
    <3>4. DOMAIN text.select = DOMAIN e.schema
          /\ \A k \in DOMAIN e.schema : text.select[k].as = e.schema[k]
      <4>1. Compile(bindings, e).text = text
        BY <1>1, <2>5, HasJoin
      <4> QED BY <1>1, <4>1, Compiles DEF CompiledWell
    <3> HIDE DEF l, r, text
    <3> QED BY <2>1, <3>1, <3>3, <3>4, JoinedShape
  <2> QED BY <2>1, <2>2, <2>3, <2>4, <2>5 DEF ExprKind
<1>2. \A e \in Queries(bindings) : (\A i \in DOMAIN Children(e) : Children(e)[i] \in S) => e \in S
  BY <1>1
<1> HIDE DEF S
<1>3. Queries(bindings) \subseteq S
  BY <1>2, QueryInduction
<1> QED BY <1>3 DEF S

\* sqlite3_prepare sees what sqlite3_step will.
PreparedAlike(bindings, database, expr) ==
  Compile(bindings, expr).error = "none" =>
    Has(bindings, database, expr, TRUE).error = Has(bindings, database, expr, FALSE).error

LEMMA PreparedSame ==
  ASSUME NEW bindings \in Catalogs, NEW expr \in Queries(bindings), NEW database \in Database,
         Compile(bindings, expr).error = "none"
  PROVE  Has(bindings, database, expr, TRUE).error = Has(bindings, database, expr, FALSE).error
<1> DEFINE S == {e \in Queries(bindings) : PreparedAlike(bindings, database, e)}
           H(e, full) == Has(bindings, database, e, full)
<1>1. ASSUME NEW e \in Queries(bindings),
             \A i \in DOMAIN Children(e) : Children(e)[i] \in S,
             Compile(bindings, e).error = "none"
      PROVE  H(e, TRUE).error = H(e, FALSE).error
  <2>1. e.schema \in Seq(Column) /\ e.kind \in ExprKind
    BY QueryOver DEF NodeOK
  <2>2. ASSUME NEW c \in S, Compile(bindings, c).error = "none"
        PROVE  /\ H(c, TRUE).error = H(c, FALSE).error
               /\ H(c, TRUE).error = "none" => /\ H(c, TRUE).names = c.schema
                                               /\ H(c, FALSE).names = c.schema
    BY <2>2, HasShape DEF PreparedAlike, Shaped
  <2>3. CASE e.kind = "Table"
    BY <1>1, <2>3, HasTable
  <2>4. CASE e.kind = "Select"
    <3>1. e.child \in S
      BY <1>1, <2>4, ChildrenOf
    <3>2. Compile(bindings, e.child).error = "none"
      BY <1>1, <2>4, HasSelect
    <3>3. \A full \in BOOLEAN :
            /\ H(e, full).error \in {"none", "prepare"}
            /\ H(e, full).error = "none" <=>
               /\ H(e.child, full).error = "none"
               /\ SequenceContains(H(e.child, full).names, e.condition.leftColumn)
               /\ e.condition.rightKind = "Column" =>
                    SequenceContains(H(e.child, full).names, e.condition.rightColumn)
               /\ e.schema # <<>>
               /\ \A k \in DOMAIN e.schema : SequenceContains(H(e.child, full).names, e.schema[k])
      <4> SUFFICES ASSUME NEW full \in BOOLEAN
                   PROVE  /\ H(e, full).error \in {"none", "prepare"}
                          /\ H(e, full).error = "none" <=>
                             /\ H(e.child, full).error = "none"
                             /\ SequenceContains(H(e.child, full).names, e.condition.leftColumn)
                             /\ e.condition.rightKind = "Column" =>
                                  SequenceContains(H(e.child, full).names, e.condition.rightColumn)
                             /\ e.schema # <<>>
                             /\ \A k \in DOMAIN e.schema :
                                  SequenceContains(H(e.child, full).names, e.schema[k])
        OBVIOUS
      <4>1. H(e, full) = Filtered(FilterText(e.condition, e.schema, Compile(bindings, e.child)),
                                  H(e.child, full), ConditionValue(e.condition, full))
        BY <1>1, <2>4, HasSelect
      <4> QED BY <2>1, <4>1, FilteredShape
    <3>4. TRUE \in BOOLEAN /\ FALSE \in BOOLEAN
      OBVIOUS
    <3> HIDE DEF H, S
    <3> QED BY <2>2, <3>1, <3>2, <3>3, <3>4
  <2>5. CASE e.kind \in {"Project", "Rename"}
    <3>1. e.child \in S
      BY <1>1, <2>5, ChildrenOf
    <3>2. Compile(bindings, e.child).error = "none"
      BY <1>1, <2>5, HasProject
    <3>3. \A full \in BOOLEAN :
            /\ H(e, full).error \in {"none", "prepare"}
            /\ H(e, full).error = "none" <=>
               /\ H(e.child, full).error = "none" /\ e.schema # <<>>
               /\ \A k \in DOMAIN e.schema : SequenceContains(H(e.child, full).names, e.schema[k])
      <4> SUFFICES ASSUME NEW full \in BOOLEAN
                   PROVE  /\ H(e, full).error \in {"none", "prepare"}
                          /\ H(e, full).error = "none" <=>
                             /\ H(e.child, full).error = "none" /\ e.schema # <<>>
                             /\ \A k \in DOMAIN e.schema :
                                  SequenceContains(H(e.child, full).names, e.schema[k])
        OBVIOUS
      <4> DEFINE relation == H(e.child, full)
                 ids == DOMAIN relation.rows
      <4>1. H(e, full) = Selected(SelectColumns(e.schema, "q"), relation, ids)
        BY <1>1, <2>5, HasProject
      <4> DEFINE columns == SelectColumns(e.schema, "q")
                 selected == Selected(columns, relation, ids)
                 named == \A k \in DOMAIN e.schema : SequenceContains(relation.names, e.schema[k])
      <4> HIDE DEF relation, ids
      <4>3. /\ selected.error \in {"none", "prepare"}
            /\ selected.error = "none" <=> relation.error = "none" /\ e.schema # <<>> /\ named
        BY <2>1, SelectedShape
      <4> QED BY <4>1, <4>3 DEF relation, ids
    <3> HIDE DEF H, S
    <3> QED BY <2>2, <3>1, <3>2, <3>3
  <2>6. CASE e.kind = "Join"
    <3> DEFINE left == Compile(bindings, e.left)
               right == Compile(bindings, e.right)
               text == JoinText(e, left, right)
    <3>1. /\ left.error = "none" /\ right.error = "none"
          /\ \A full \in BOOLEAN : H(e, full) = Joined(text, H(e.left, full), H(e.right, full))
      BY <1>1, <2>6, HasJoin
    <3>2. e.left \in S /\ e.right \in S
      BY <1>1, <2>6, ChildrenOf
    <3>3. DOMAIN text.select = DOMAIN e.schema
          /\ \A k \in DOMAIN e.schema : text.select[k].as = e.schema[k]
      <4>1. Compile(bindings, e).text = text
        BY <1>1, <2>6, HasJoin
      <4> QED BY <1>1, <4>1, Compiles DEF CompiledWell
    <3>4. /\ H(e.left, TRUE).error = H(e.left, FALSE).error
          /\ H(e.left, TRUE).error = "none" => H(e.left, TRUE).names = H(e.left, FALSE).names
          /\ H(e.right, TRUE).error = H(e.right, FALSE).error
          /\ H(e.right, TRUE).error = "none" => H(e.right, TRUE).names = H(e.right, FALSE).names
      BY <2>2, <3>1, <3>2
    <3>5. \A full \in BOOLEAN : /\ H(e.left, full).error \in {"none", "prepare"}
                                /\ H(e.right, full).error \in {"none", "prepare"}
      BY <3>1, <3>2, HasShape
    <3> HIDE DEF text, H
    <3>6. \A full \in BOOLEAN :
            /\ H(e, full).error \in {"none", "prepare"}
            /\ H(e, full).error = "none" <=>
              /\ H(e.left, full).error = "none" /\ H(e.right, full).error = "none"
              /\ SequenceContains(H(e.left, full).names, text.left)
              /\ SequenceContains(H(e.right, full).names, text.right)
              /\ \A k \in DOMAIN text.select :
                   SequenceContains((IF text.select[k].side = "l" THEN H(e.left, full)
                                     ELSE H(e.right, full)).names, text.select[k].source)
      BY <2>1, <3>1, <3>3, <3>5, JoinedShape
    <3> QED BY <3>4, <3>6
  <2> QED BY <2>1, <2>3, <2>4, <2>5, <2>6 DEF ExprKind
<1>2. \A e \in Queries(bindings) : (\A i \in DOMAIN Children(e) : Children(e)[i] \in S) => e \in S
  BY <1>1 DEF PreparedAlike
<1> HIDE DEF S
<1>3. Queries(bindings) \subseteq S
  BY <1>2, QueryInduction
<1> QED BY <1>3 DEF S, PreparedAlike

-----------------------------------------------------------------------------
(* The invariant of a client.                                              *)

OutputOf(rows, ids) == [id \in ids |-> Shown(rows)[id]]

SqlFails(bindings, error, expr) ==
  LET compiled == Compile(bindings, expr) IN
  \/ error = compiled.error /\ compiled.error # "none"
  \/ /\ error \in {"locations", "source"}
     /\ ~OneDatabase(bindings) \/ NoLocation \in Locations(bindings)
  \/ error = "open" /\ TheDatabases(bindings) = {}
  \/ /\ error = "prepare"
     /\ \E database \in TheDatabases(bindings) : Has(bindings, database, expr, FALSE).error # "none"
  \/ error = "bind" /\ \E k \in DOMAIN compiled.parameters : ~Convertible(compiled.parameters[k])
  \/ error = "library"

SqlReplied(bindings, o, expr) ==
  \/ /\ o.error # "none" /\ SqlFails(bindings, o.error, expr)
     /\ o = [NoSqlOutcome EXCEPT !.status = o.status, !.error = o.error]
  \/ /\ o.error = "none" /\ o.rows \in SqlAnswers(bindings, Compile(bindings, expr))
     /\ o = [NoSqlOutcome EXCEPT !.status = o.status, !.schema = expr.schema, !.rows = o.rows]

Locals(expr) ==
  /\ DOMAIN sql = {"pc", "expr", "compiled", "database", "bound", "rows", "output"}
  /\ sql.expr = expr

Compiled(expr) == sql.compiled = Compile(catalog, expr) /\ sql.compiled.error = "none"

ToOpen(expr) ==
  /\ sql.pc = "open" /\ connection = "none" /\ statement = "none"
  /\ Compiled(expr) /\ sql.bound = <<>> /\ sql.output = <<>>

Connected(expr) ==
  /\ Compiled(expr) /\ connection = "open"
  /\ OneDatabase(catalog) /\ TheDatabases(catalog) = {sql.database[1]}

ToPrepare(expr) ==
  /\ sql.pc = "prepare" /\ statement = "none" /\ Connected(expr)
  /\ sql.bound = <<>> /\ sql.output = <<>>

\* The first parameters have been bound.
ToBind(expr) ==
  /\ sql.pc = "bind" /\ statement = "live" /\ Connected(expr)
  /\ Has(catalog, sql.database[1], expr, FALSE).error = "none"
  /\ sql.bound \in Seq(ParameterValue) /\ Len(sql.bound) <= Len(sql.compiled.parameters)
  /\ \A k \in 1..Len(sql.bound) : /\ Convertible(sql.compiled.parameters[k])
                                  /\ sql.bound[k] = BoundValue(sql.compiled.parameters[k])
  /\ sql.output = <<>>

\* Each row is either still to come or in the result.
ToStep(expr) ==
  LET relation == Has(catalog, sql.database[1], expr, TRUE) IN
  /\ sql.pc = "step" /\ statement = "live" /\ Connected(expr)
  /\ \A k \in DOMAIN sql.compiled.parameters : Convertible(sql.compiled.parameters[k])
  /\ relation.error = "none"
  /\ DOMAIN sql.rows \cap DOMAIN sql.output = {}
  /\ DOMAIN sql.rows \cup DOMAIN sql.output = DOMAIN relation.rows
  /\ \A id \in DOMAIN sql.rows : sql.rows[id] = relation.rows[id]
  /\ sql.output = OutputOf(relation.rows, DOMAIN sql.output)

ToClose(expr) ==
  /\ sql.pc = "leaving" /\ statement \in {"none", "live"} /\ connection \in {"none", "open"}
  /\ statement = "live" => connection = "open"
  /\ SqlReplied(catalog, sqlOutcome, expr)

SqlProgress(expr) ==
  \/ sql.pc = "compile" /\ connection = "none" /\ statement = "none"
     /\ sql.bound = <<>> /\ sql.output = <<>>
  \/ ToOpen(expr) \/ ToPrepare(expr) \/ ToBind(expr) \/ ToStep(expr) \/ ToClose(expr)

SqlInv ==
  \/ /\ client # "SQLiteBackend" /\ sqlOutcome = NoSqlOutcome
     /\ sql = NoSql /\ connection = "none" /\ statement = "none"
  \/ /\ client = "SQLiteBackend" /\ sqlOutcome.status = "running"
     /\ Locals(query[1]) /\ SqlProgress(query[1])
  \/ /\ client = "SQLiteBackend"
     /\ sqlOutcome.status = IF sqlOutcome.error = "none" THEN "returned" ELSE "thrown"
     /\ SqlReplied(catalog, sqlOutcome, query[1])
     /\ sql = NoSql /\ connection = "none" /\ statement = "none"

ClientInv ==
  /\ catalog \in Catalogs
  /\ client \in {"idle", "parseLine", "CsvBackend", "SQLiteBackend"}
  /\ outcome.status \in {"none", "running", "thrown", "returned"}
  /\ client \in {"idle", "parseLine"} => outcome = NoOutcome /\ query = <<>>
  /\ client = "idle" => scan = NoScan
  /\ client \in {"CsvBackend", "SQLiteBackend"} =>
       outcome.status # "none" /\ query = <<query[1]>> /\ query[1] \in Queries(catalog)
  /\ client = "SQLiteBackend" => outcome.status # "running"

BackendsInv == ClientInv /\ ExecutionInv /\ SqlInv

-----------------------------------------------------------------------------
(* What the steps of the CSV backend leave alone.                          *)

Ends == UNCHANGED outcome \/ outcome'.status \in {"thrown", "returned"}

LEMMA ThrowEnds == ASSUME NEW error, Throw(error) PROVE Ends
BY DEF Throw, Ends, NoOutcome

LEMMA ReturnEnds == ASSUME NEW result, NEW entries, Return(result, entries) PROVE Ends
BY DEF Return, Ends, NoOutcome

LEMMA AppendEnds == ASSUME NEW next, NEW row, AppendRow(next, row) PROVE Ends
BY ThrowEnds DEF AppendRow, Ends

LEMMA CsvStepEnds ==
  ASSUME CsvStep
  PROVE  /\ UNCHANGED <<catalog, query>>
         /\ UNCHANGED outcome \/ (outcome.status = "running" /\ Ends)
         /\ UNCHANGED outcome => Scanning \/ outcome.status = "running"
<1>1. UNCHANGED <<catalog, query>>
  BY DEF CsvStep
<1> SUFFICES ASSUME ScanStep \/ ReadSource \/ Loop
             PROVE  \/ UNCHANGED outcome /\ (Scanning \/ outcome.status = "running")
                    \/ outcome.status = "running" /\ Ends
  BY <1>1 DEF CsvStep
<1>2. CASE ScanStep
  BY <1>2 DEF ScanStep, Scan, ScanQuote, ScanComma, ScanText, ScanEnd
<1>3. CASE ReadSource
  <2>1. CASE FindSource
    BY <2>1, ThrowEnds DEF FindSource, Running, Ends
  <2>2. CASE ReadHeader
    BY <2>2 DEF ReadHeader, Running
  <2>3. CASE MapColumns
    BY <2>3, ThrowEnds DEF MapColumns, Running, Ends
  <2>4. CASE ReadLine
    BY <2>4 DEF ReadLine, Running
  <2>5. CASE MapFields
    BY <2>5, ThrowEnds, AppendEnds DEF MapFields, Running
  <2>6. CASE ReturnTable
    BY <2>6, ReturnEnds DEF ReturnTable, Running
  <2> QED BY <1>3, <2>1, <2>2, <2>3, <2>4, <2>5, <2>6 DEF ReadSource
<1>4. CASE Loop
  <2>1. CASE ExecuteChild \/ ExecuteRename \/ ExecuteLeft \/ ExecuteRight
    BY <2>1 DEF ExecuteChild, ExecuteRename, ExecuteLeft, ExecuteRight, Running
  <2>2. CASE SelectRow
    BY <2>2, ThrowEnds, AppendEnds DEF SelectRow, Running, Ends
  <2>3. CASE ReturnSelect
    BY <2>3, ReturnEnds DEF ReturnSelect, Running
  <2>4. CASE ProjectRow
    BY <2>4, ThrowEnds, AppendEnds DEF ProjectRow, Running
  <2>5. CASE ReturnProject
    BY <2>5, ReturnEnds DEF ReturnProject, Running
  <2>6. CASE FindKeys
    BY <2>6, ThrowEnds DEF FindKeys, Running
  <2>7. CASE JoinRows
    BY <2>7, AppendEnds DEF JoinRows, Running, Ends
  <2>8. CASE ReturnJoin
    BY <2>8, ReturnEnds DEF ReturnJoin, Running
  <2> QED BY <1>4, <2>1, <2>2, <2>3, <2>4, <2>5, <2>6, <2>7, <2>8 DEF Loop
<1> QED BY <1>2, <1>3, <1>4

LEMMA CatalogSources ==
  ASSUME catalog \in Catalogs PROVE SourcesAsFiles
BY CatalogNamesFiles DEF SourcesAsFiles

\* Every step is one that the executions of the CSV backend were proved for.
LEMMA NextExecutes ==
  ASSUME ClientInv, Next PROVE ExecutionNext \/ UNCHANGED <<csvVars, catalog>>
<1>1. client # "CsvBackend" /\ client # "SQLiteBackend" => outcome.status = "none" /\ query = <<>>
  BY DEF ClientInv, NoOutcome
<1>2. CASE Register
  <2>1. outcome.status # "running" /\ UNCHANGED csvVars
    BY <1>1, <1>2 DEF Register
  <2> QED BY <2>1 DEF ExecutionNext, CallerStep
<1>3. CASE ParseSomeLine
  <2>1. PICK line \in Lines : ParseLine(line)
    BY <1>3 DEF ParseSomeLine
  <2>2. line \in Seq(Token)
    BY LinesAssumption
  <2>3. outcome.status # "running" /\ ParserNext /\ UNCHANGED <<query, stack, plan, outcome>>
    <3>1. ~Scanning
      BY <1>3 DEF ParseSomeLine, ClientInv, Scanning, NoScan
    <3> QED BY <1>1, <1>3, <2>1, <2>2, <3>1 DEF ParseSomeLine, ParserNext
  <2> QED BY <2>3 DEF ExecutionNext, CallerStep
<1>4. CASE TakeFields
  <2>1. outcome.status # "running" /\ ParserNext /\ UNCHANGED <<query, stack, plan, outcome>>
    BY <1>1, <1>4 DEF TakeFields, ParserNext
  <2> QED BY <2>1 DEF ExecutionNext, CallerStep
<1>5. CASE RunOnCsv
  <2>1. PICK expr \in Queries(catalog) : Execute(expr)
    BY <1>5 DEF RunOnCsv
  <2>2. expr \in Query
    BY DEF Query, ClientInv
  <2>3. outcome.status # "running" /\ UNCHANGED catalog
    BY <1>1, <1>5 DEF RunOnCsv
  <2> QED BY <2>1, <2>2, <2>3 DEF ExecutionNext, CallerStep
<1>6. CASE RunOnSqlite
  BY <1>6 DEF RunOnSqlite
<1>7. CASE TakeResults
  <2>1. outcome.status # "running"
    BY <1>7 DEF TakeResults, ClientInv
  <2>2. outcome' = NoOutcome /\ query' = <<>> /\ scan' = NoScan /\ UNCHANGED stack
    BY <1>7 DEF TakeResults
  <2> QED BY <2>1, <2>2 DEF ExecutionNext, CallerStep
<1>8. CASE CsvRuns
  BY <1>8 DEF CsvRuns, ExecutionNext
<1>9. CASE SqliteRuns
  BY <1>9 DEF SqliteRuns, SqlStep
<1> QED BY <1>2, <1>3, <1>4, <1>5, <1>6, <1>7, <1>8, <1>9 DEF Next

LEMMA ExecutionUnchanged ==
  ASSUME ExecutionInv, UNCHANGED <<csvVars, catalog>> PROVE ExecutionInv'
<1>1. UNCHANGED <<scan, query, stack, plan, outcome, catalog>>
  BY DEF csvVars
<1>2. LinesOf(Top.expr.name)' = LinesOf(Top.expr.name) /\ Top' = Top
  BY <1>1, SameFiles DEF Top
<1>3. Answered'
  BY <1>1 DEF ExecutionInv, Answered, AnsweredAsMeant
<1> QED BY <1>1, <1>2, <1>3 DEF ExecutionInv

LEMMA ExecutionNextKept ==
  ASSUME ClientInv, ExecutionInv, Next PROVE ExecutionInv'
<1>1. SourcesAsFiles
  BY CatalogSources DEF ClientInv
<1> QED BY <1>1, NextExecutes, ExecutionStep, ExecutionUnchanged, QueriesAreBuilt

LEMMA ClientNextKept ==
  ASSUME ClientInv, Next PROVE ClientInv'
<1>1. catalog \in Catalogs
  BY DEF ClientInv
<1>2. CASE Register
  <2>1. catalog' \in Catalogs
    BY <1>1, <1>2, CatalogGrows
  <2>2. client = "idle" /\ UNCHANGED <<scan, query, outcome, client>>
    BY <1>2 DEF Register, csvVars
  <2> QED BY <2>1, <2>2 DEF ClientInv
<1>3. CASE ParseSomeLine
  BY <1>3 DEF ParseSomeLine, ClientInv
<1>4. CASE TakeFields
  BY <1>4 DEF TakeFields, ClientInv
<1>5. CASE RunOnCsv
  <2>1. PICK expr \in Queries(catalog) : Execute(expr)
    BY <1>5 DEF RunOnCsv
  <2>2. query' = <<expr>> /\ outcome'.status = "running" /\ client' = "CsvBackend"
        /\ UNCHANGED catalog
    BY <1>5, <2>1 DEF RunOnCsv, Execute, NoOutcome
  <2>3. query'[1] = expr
    BY <2>2
  <2> QED BY <1>1, <2>2, <2>3 DEF ClientInv
<1>6. CASE RunOnSqlite
  BY <1>6 DEF RunOnSqlite, csvVars, ClientInv
<1>7. CASE TakeResults
  BY <1>1, <1>7 DEF TakeResults, NoOutcome, ClientInv
<1>8. CASE CsvRuns
  <2>1. /\ UNCHANGED <<catalog, query, client>>
        /\ UNCHANGED outcome => Scanning \/ outcome.status = "running"
        /\ UNCHANGED outcome \/ (outcome.status = "running" /\ Ends)
    BY <1>8, CsvStepEnds DEF CsvRuns
  <2>2. outcome.status = "running" => client \notin {"idle", "parseLine", "SQLiteBackend"}
    BY DEF ClientInv, NoOutcome
  <2>5. client # "idle"
    BY <2>1, <2>2 DEF ClientInv, Scanning, NoScan
  <2>3. CASE UNCHANGED outcome
    BY <2>1, <2>3, <2>5 DEF ClientInv
  <2>4. CASE outcome.status = "running" /\ Ends
    BY <2>1, <2>2, <2>4 DEF ClientInv, Ends
  <2> QED BY <2>1, <2>3, <2>4
<1>9. CASE SqliteRuns
  BY <1>9 DEF SqliteRuns, SqlStep, csvVars, ClientInv
<1> QED BY <1>2, <1>3, <1>4, <1>5, <1>6, <1>7, <1>8, <1>9 DEF Next

-----------------------------------------------------------------------------
(* The steps of the SQLite backend.                                        *)

LEMMA SqlUnchanged ==
  ASSUME SqlInv, UNCHANGED <<catalog, query, sqlVars>>,
         client' = "SQLiteBackend" <=> client = "SQLiteBackend"
  PROVE  SqlInv'
<1>1. UNCHANGED <<catalog, query, sql, connection, statement, sqlOutcome>>
  BY DEF sqlVars
<1>2. ASSUME NEW expr, SqlReplied(catalog, sqlOutcome, expr) PROVE SqlReplied(catalog, sqlOutcome, expr)'
  BY <1>1, <1>2
<1>3. ASSUME NEW expr, SqlProgress(expr) PROVE SqlProgress(expr)'
  <2>1. CASE sql.pc = "compile"
    BY <1>1, <1>3, <2>1 DEF SqlProgress, ToOpen, ToPrepare, ToBind, ToStep, ToClose
  <2>2. CASE ToOpen(expr)
    BY <1>1, <2>2 DEF SqlProgress, ToOpen, Compiled
  <2>3. CASE ToPrepare(expr)
    BY <1>1, <2>3 DEF SqlProgress, ToPrepare, Connected, Compiled
  <2>4. CASE ToBind(expr)
    BY <1>1, <2>4 DEF SqlProgress, ToBind, Connected, Compiled
  <2>5. CASE ToStep(expr)
    BY <1>1, <2>5 DEF SqlProgress, ToStep, Connected, Compiled
  <2>6. CASE ToClose(expr)
    BY <1>1, <1>2, <2>6 DEF SqlProgress, ToClose
  <2> QED BY <1>3, <2>1, <2>2, <2>3, <2>4, <2>5, <2>6 DEF SqlProgress
<1>4. ASSUME NEW expr, Locals(expr) PROVE Locals(expr)'
  BY <1>1, <1>4 DEF Locals
<1> DEFINE p == query[1]
<1>5. p' = p
  BY <1>1
<1> QED BY <1>1, <1>2, <1>3, <1>4, <1>5 DEF SqlInv

LEMMA SqlRunning ==
  ASSUME ClientInv, SqlInv, sqlOutcome.status = "running"
  PROVE  /\ client = "SQLiteBackend" /\ query[1] \in Queries(catalog) /\ catalog \in Catalogs
         /\ Locals(query[1]) /\ SqlProgress(query[1])
<1>1. client # "SQLiteBackend" => sqlOutcome.status = "none"
  BY DEF SqlInv, NoSqlOutcome
<1> QED BY <1>1 DEF SqlInv, ClientInv

\* The steps that leave the block.
LEMMA LeaveKept ==
  ASSUME ClientInv, SqlInv, sqlOutcome.status = "running", UNCHANGED <<catalog, query, client>>,
         NEW pending, Leave(pending), pending.status = "running", SqlReplied(catalog, pending, query[1]),
         statement' \in {"none", "live"}, connection' \in {"none", "open"},
         statement' = "live" => connection' = "open"
  PROVE  SqlInv'
<1> DEFINE p == query[1]
<1>1. client = "SQLiteBackend" /\ Locals(p)
  BY SqlRunning
<1>2. sql' = [sql EXCEPT !.pc = "leaving"] /\ sqlOutcome' = pending /\ client' = "SQLiteBackend"
      /\ p' = p
  BY <1>1 DEF Leave
<1>3. sql'.pc = "leaving" /\ Locals(p)'
  BY <1>1, <1>2 DEF Locals
<1>4. SqlReplied(catalog, sqlOutcome, p)'
  BY <1>2 
<1>5. SqlProgress(p)'
  BY <1>3, <1>4 DEF SqlProgress, ToClose
<1> QED BY <1>2, <1>3, <1>5 DEF SqlInv

LEMMA SqlThrowKept ==
  ASSUME ClientInv, SqlInv, sqlOutcome.status = "running", UNCHANGED <<catalog, query, client>>,
         NEW error, SqlThrow(error), error # "none", SqlFails(catalog, error, query[1]),
         statement' \in {"none", "live"}, connection' \in {"none", "open"},
         statement' = "live" => connection' = "open"
  PROVE  SqlInv'
<1> DEFINE pending == [NoSqlOutcome EXCEPT !.status = "running", !.error = error]
<1>1. pending.status = "running" /\ pending.error = error
      /\ pending = [NoSqlOutcome EXCEPT !.status = pending.status, !.error = pending.error]
  BY DEF NoSqlOutcome
<1>2. Leave(pending)
  BY DEF SqlThrow
<1> HIDE DEF pending
<1>3. SqlReplied(catalog, pending, query[1])
  BY <1>1 DEF SqlReplied
<1> QED BY <1>1, <1>2, <1>3, LeaveKept

\* The steps that go on.
LEMMA ProgressKept ==
  ASSUME ClientInv, SqlInv, sqlOutcome.status = "running",
         UNCHANGED <<catalog, query, client, sqlOutcome>>,
         Locals(query[1])', SqlProgress(query[1])'
  PROVE  SqlInv'
BY SqlRunning DEF SqlInv

LEMMA CompileKept ==
  ASSUME ClientInv, SqlInv, CompileQuery, UNCHANGED <<catalog, query, client>> PROVE SqlInv'
<1> DEFINE p == query[1]
           compiled == Compile(catalog, p)
<1>1. sqlOutcome.status = "running" /\ sql.pc = "compile" /\ UNCHANGED <<connection, statement>>
  BY DEF CompileQuery, SqlAt
<1>2. Locals(p) /\ connection = "none" /\ statement = "none" /\ sql.bound = <<>> /\ sql.output = <<>>
  BY <1>1, SqlRunning DEF SqlProgress, ToOpen, ToPrepare, ToBind, ToStep, ToClose
<1>3. IF compiled.error # "none"
      THEN SqlThrow(compiled.error)
      ELSE /\ sql' = [sql EXCEPT !.compiled = compiled, !.pc = "open"]
           /\ UNCHANGED sqlOutcome
  BY <1>2 DEF CompileQuery, Locals
<1>4. CASE compiled.error # "none"
  <2>1. SqlFails(catalog, compiled.error, p)
    BY <1>4 DEF SqlFails
  <2> HIDE DEF compiled, p
  <2> QED BY <1>1, <1>2, <1>3, <1>4, <2>1, SqlThrowKept DEF p
<1>5. CASE compiled.error = "none"
  <2> HIDE DEF compiled
  <2>1. sql' = [sql EXCEPT !.compiled = compiled, !.pc = "open"] /\ UNCHANGED sqlOutcome
    BY <1>3, <1>5
  <2>2. /\ sql'.pc = "open" /\ sql'.compiled = compiled
        /\ sql'.bound = <<>> /\ sql'.output = <<>> /\ Locals(p)'
    BY <1>2, <2>1 DEF Locals
  <2>3. ToOpen(p)'
    BY <1>1, <1>2, <1>5, <2>2 DEF ToOpen, Compiled, compiled
  <2> QED BY <1>1, <2>1, <2>2, <2>3, ProgressKept DEF SqlProgress
<1> QED BY <1>4, <1>5

\* The one location of a catalog and the database in it.
LEMMA OneLocation ==
  ASSUME NEW bindings \in Catalogs, NEW l, l # NoLocation, Locations(bindings) \ {NoLocation} = {l}
  PROVE  /\ OneDatabase(bindings) /\ l \in DOMAIN Databases
         /\ Databases[l] = <<>> => TheDatabases(bindings) = {}
         /\ Databases[l] # <<>> => /\ TheDatabases(bindings) = {Databases[l][1]}
                                   /\ TheDatabases(bindings) \subseteq Database
<1>1. OneDatabase(bindings)
  BY DEF OneDatabase
<1>2. l \in DOMAIN Databases
  <2>1. PICK b \in ToSet(bindings) : b.kind = "SQLite" /\ b.location = l
    BY DEF Locations
  <2>2. IsBinding(b)
    BY <2>1, CatalogType DEF ToSet
  <2> QED BY <2>1, <2>2 DEF IsBinding
<1>3. TheDatabases(bindings) = ToSet(Databases[l])
  BY DEF TheDatabases
<1>4. CASE Databases[l] = <<>>
  <2> DEFINE none == <<>>
  <2>1. ToSet(none) = {}
    BY DEF ToSet
  <2> QED BY <1>1, <1>2, <1>3, <1>4, <2>1
<1>5. CASE Databases[l] # <<>>
  <2> DEFINE database == Databases[l][1]
             one == <<database>>
  <2>1. Databases[l] = one
    BY <1>2, <1>5, DatabasesAssumption
  <2>2. ToSet(one) = {database}
    BY DEF ToSet
  <2>3. TheDatabases(bindings) = {database} /\ ToSet(Databases[l]) = {database}
    BY <1>3, <2>1, <2>2
  <2>4. database \in Database
    BY <1>2, <2>3 DEF Database
  <2> QED BY <1>1, <1>2, <1>5, <2>3, <2>4
<1> QED BY <1>4, <1>5

LEMMA OpenKept ==
  ASSUME ClientInv, SqlInv, OpenDatabase, UNCHANGED <<catalog, query, client>> PROVE SqlInv'
<1> DEFINE p == query[1]
           path == DatabasePath
<1>1. sqlOutcome.status = "running" /\ sql.pc = "open" /\ UNCHANGED statement
  BY DEF OpenDatabase, SqlAt
<1>2. Locals(p) /\ ToOpen(p) /\ catalog \in Catalogs
  BY <1>1, SqlRunning DEF SqlProgress, ToOpen, ToPrepare, ToBind, ToStep, ToClose
<1>3. PathMeans(path, Locations(catalog))
  BY <1>2, DatabasePathMeans
<1>4. CASE path = <<>>
  <2>1. \E l, m \in Locations(catalog) : l # m
    BY <1>3, <1>4 DEF PathMeans
  <2>2. SqlFails(catalog, "locations", p)
    BY <2>1 DEF SqlFails, OneDatabase
  <2>3. SqlThrow("locations") /\ UNCHANGED connection
    BY <1>4 DEF OpenDatabase
  <2> QED BY <1>1, <1>2, <2>2, <2>3, SqlThrowKept DEF ToOpen
<1>5. CASE path = <<NoLocation>>
  <2>1. Locations(catalog) \subseteq {NoLocation}
    BY <1>3, <1>5 DEF PathMeans
  <2>2. SqlFails(catalog, "source", p)
    BY <2>1 DEF SqlFails, OneDatabase
  <2>3. SqlThrow("source") /\ UNCHANGED connection
    BY <1>5 DEF OpenDatabase
  <2> QED BY <1>1, <1>2, <2>2, <2>3, SqlThrowKept DEF ToOpen
<1>6. CASE path # <<>> /\ path # <<NoLocation>>
  <2>1. PICK l : l # NoLocation /\ path = <<l>> /\ Locations(catalog) \ {NoLocation} = {l}
    BY <1>3, <1>6 DEF PathMeans
  <2>2. /\ connection' = "open"
        /\ IF Databases[l] = <<>>
           THEN SqlThrow("open")
           ELSE /\ sql' = [sql EXCEPT !.database = Databases[l], !.pc = "prepare"]
                /\ UNCHANGED sqlOutcome
    BY <1>6, <2>1 DEF OpenDatabase
  <2>3. CASE Databases[l] = <<>>
    <3>1. SqlFails(catalog, "open", p)
      BY <1>2, <2>1, <2>3, OneLocation DEF SqlFails
    <3> QED BY <1>1, <1>2, <2>2, <2>3, <3>1, SqlThrowKept DEF ToOpen
  <2>4. CASE Databases[l] # <<>>
    <3> DEFINE databases == Databases[l]
    <3>1. /\ OneDatabase(catalog) /\ TheDatabases(catalog) = {databases[1]}
      BY <1>2, <2>1, <2>4, OneLocation
    <3>2. sql' = [sql EXCEPT !.database = databases, !.pc = "prepare"] /\ UNCHANGED sqlOutcome
      BY <2>2, <2>4
    <3> HIDE DEF databases
    <3>3. /\ sql'.pc = "prepare" /\ sql'.database = databases /\ sql'.compiled = sql.compiled
          /\ sql'.bound = <<>> /\ sql'.output = <<>> /\ Locals(p)'
      BY <1>2, <3>2 DEF Locals, ToOpen
    <3>4. ToPrepare(p)'
      BY <1>1, <1>2, <2>2, <3>1, <3>3 DEF ToPrepare, ToOpen, Connected, Compiled
    <3> QED BY <1>1, <3>2, <3>3, <3>4, ProgressKept DEF SqlProgress
  <2> QED BY <2>3, <2>4
<1> QED BY <1>4, <1>5, <1>6

\* What a connection gives for the text.
LEMMA ConnectedHas ==
  ASSUME ClientInv, NEW expr \in Queries(catalog), Connected(expr)
  PROVE  LET database == sql.database[1] IN
         /\ database \in TheDatabases(catalog) /\ database \in Database
         /\ \A full \in BOOLEAN :
              ResultOf(ValuesOf(sql.compiled.parameters, full)) = Has(catalog, database, expr, full)
         /\ ResultOf(Unbound(sql.compiled.text)) = Has(catalog, database, expr, FALSE)
<1> DEFINE database == sql.database[1]
           compiled == Compile(catalog, expr)
<1>1. catalog \in Catalogs /\ sql.compiled = compiled /\ compiled.error = "none"
      /\ OneDatabase(catalog) /\ TheDatabases(catalog) = {database}
  BY DEF ClientInv, Connected, Compiled
<1>2. PICK l \in Locations(catalog) : Locations(catalog) \ {NoLocation} = {l}
  BY <1>1 DEF OneDatabase
<1>3. l # NoLocation
  BY <1>2
<1>4. database \in Database
  <2> DEFINE none == <<>>
  <2>1. TheDatabases(catalog) # {}
    BY <1>1
  <2> QED BY <1>1, <1>2, <1>3, <2>1, OneLocation
<1>5. \A full \in BOOLEAN :
        ResultOf(ValuesOf(sql.compiled.parameters, full)) = Has(catalog, database, expr, full)
  BY <1>1 DEF ResultOf, Has
<1>6. Unbound(compiled.text) = ValuesOf(compiled.parameters, FALSE)
  BY <1>1, ValuesGiven
<1> QED BY <1>1, <1>4, <1>5, <1>6

LEMMA PrepareKept ==
  ASSUME ClientInv, SqlInv, PrepareStatement, UNCHANGED <<catalog, query, client>> PROVE SqlInv'
<1> DEFINE p == query[1]
           database == sql.database[1]
           relation == Has(catalog, database, p, FALSE)
<1>1. sqlOutcome.status = "running" /\ sql.pc = "prepare" /\ UNCHANGED connection
  BY DEF PrepareStatement, SqlAt
<1>2. Locals(p) /\ ToPrepare(p) /\ catalog \in Catalogs /\ p \in Queries(catalog)
  BY <1>1, SqlRunning DEF SqlProgress, ToOpen, ToPrepare, ToBind, ToStep, ToClose
<1>3. Connected(p) /\ statement = "none" /\ connection = "open"
  BY <1>2 DEF ToPrepare, Connected
<1>4. database \in TheDatabases(catalog) /\ ResultOf(Unbound(sql.compiled.text)) = relation
  BY <1>2, <1>3, ConnectedHas
<1>5. IF relation.error # "none"
      THEN SqlThrow("prepare") /\ UNCHANGED statement
      ELSE /\ statement' = "live"
           /\ sql' = [sql EXCEPT !.pc = "bind"]
           /\ UNCHANGED sqlOutcome
  BY <1>4 DEF PrepareStatement
<1>6. CASE relation.error # "none"
  <2>1. SqlFails(catalog, "prepare", p)
    BY <1>4, <1>6 DEF SqlFails
  <2> QED BY <1>1, <1>3, <1>5, <1>6, <2>1, SqlThrowKept
<1>7. CASE relation.error = "none"
  <2>1. statement' = "live" /\ sql' = [sql EXCEPT !.pc = "bind"] /\ UNCHANGED sqlOutcome
    BY <1>5, <1>7
  <2>2. /\ sql'.pc = "bind" /\ sql'.compiled = sql.compiled /\ sql'.database = sql.database
        /\ sql'.bound = sql.bound /\ sql'.output = sql.output /\ Locals(p)'
    BY <1>2, <2>1 DEF Locals
  <2> DEFINE none == <<>>
  <2>3. sql.bound = none /\ sql.output = none
    BY <1>2 DEF ToPrepare
  <2>4. none \in Seq(ParameterValue) /\ Len(none) = 0 /\ 1..0 = {}
    OBVIOUS
  <2>5. sql.compiled.parameters \in Seq(Parameter)
    BY <1>2, <1>3, Compiles DEF Connected, Compiled, CompiledWell
  <2>6. Len(sql.compiled.parameters) >= 0
    BY <2>5
  <2> HIDE DEF none
  <2>7. Connected(p)'
    BY <1>1, <1>3, <2>2 DEF Connected, Compiled
  <2>8. ToBind(p)'
    BY <1>7, <2>1, <2>2, <2>3, <2>4, <2>6, <2>7 DEF ToBind, none
  <2> QED BY <1>1, <2>1, <2>2, <2>8, ProgressKept DEF SqlProgress
<1> QED BY <1>6, <1>7

LEMMA BindKept ==
  ASSUME ClientInv, SqlInv, BindParameter, UNCHANGED <<catalog, query, client>> PROVE SqlInv'
<1> DEFINE p == query[1]
           parameters == sql.compiled.parameters
           bound == sql.bound
           n == Len(bound)
           m == n + 1
           value == BoundValue(parameters[m])
           more == Append(bound, value)
<1>1. sqlOutcome.status = "running" /\ sql.pc = "bind" /\ UNCHANGED <<connection, statement>>
      /\ Len(bound) < Len(parameters)
  BY DEF BindParameter, SqlAt
<1>2. Locals(p) /\ ToBind(p) /\ catalog \in Catalogs /\ p \in Queries(catalog)
  BY <1>1, SqlRunning DEF SqlProgress, ToOpen, ToPrepare, ToBind, ToStep, ToClose
<1>3. /\ Connected(p) /\ statement = "live" /\ connection = "open"
      /\ sql.compiled = Compile(catalog, p) /\ sql.compiled.error = "none"
      /\ bound \in Seq(ParameterValue)
  BY <1>2 DEF ToBind, Connected, Compiled
<1>4. parameters \in Seq(Parameter)
  BY <1>2, <1>3, Compiles DEF CompiledWell
<1>5. n \in Nat /\ m \in 1..Len(parameters) /\ DOMAIN parameters = 1..Len(parameters)
      /\ \A k \in 1..m : k \in 1..n \/ k = m
  BY <1>1, <1>3, <1>4
<1>6. parameters[m] \in Parameter /\ value \in ParameterValue
  BY <1>4, <1>5 DEF ParameterValue
<1>7. IF Convertible(parameters[m])
      THEN sql' = [sql EXCEPT !.bound = more] /\ UNCHANGED sqlOutcome
      ELSE SqlThrow("bind")
  BY DEF BindParameter, NextParameter
<1>8. CASE ~Convertible(parameters[m])
  <2>1. SqlFails(catalog, "bind", p)
    BY <1>3, <1>5, <1>8 DEF SqlFails
  <2> QED BY <1>1, <1>3, <1>7, <1>8, <2>1, SqlThrowKept
<1>9. CASE Convertible(parameters[m])
  <2> HIDE DEF m, n, value
  <2>1. /\ more \in Seq(ParameterValue) /\ Len(more) = m
        /\ \A k \in 1..n : more[k] = bound[k]
        /\ more[m] = value
    BY <1>3, <1>6, AppendItems DEF m, n
  <2> HIDE DEF more
  <2>2. sql' = [sql EXCEPT !.bound = more] /\ UNCHANGED sqlOutcome
    BY <1>7, <1>9 DEF more, m, n, value
  <2>3. /\ sql'.pc = sql.pc /\ sql'.compiled = sql.compiled /\ sql'.database = sql.database
        /\ sql'.bound = more /\ sql'.output = sql.output /\ Locals(p)'
    BY <1>2, <2>2 DEF Locals
  <2>4. Connected(p)'
    BY <1>1, <1>3, <2>3 DEF Connected, Compiled
  <2>5. \A k \in 1..m : Convertible(parameters[k]) /\ more[k] = BoundValue(parameters[k])
    <3>1. \A k \in 1..n : Convertible(parameters[k]) /\ bound[k] = BoundValue(parameters[k])
      BY <1>2 DEF ToBind, n
    <3>2. Convertible(parameters[m]) /\ more[m] = BoundValue(parameters[m])
      BY <1>9, <2>1 DEF value
    <3> QED BY <1>5, <2>1, <3>1, <3>2
  <2>6. m <= Len(parameters)
    BY <1>5
  <2>7. /\ Has(catalog, sql.database[1], p, FALSE).error = "none" /\ sql.output = <<>>
        /\ sql.pc = "bind" /\ statement = "live"
    BY <1>2 DEF ToBind
  <2>8. ToBind(p)'
    BY <1>1, <2>1, <2>3, <2>4, <2>5, <2>6, <2>7 DEF ToBind
  <2> QED BY <1>1, <2>2, <2>3, <2>8, ProgressKept DEF SqlProgress
<1> QED BY <1>8, <1>9

LEMMA StartKept ==
  ASSUME ClientInv, SqlInv, StartSteps, UNCHANGED <<catalog, query, client>> PROVE SqlInv'
<1> DEFINE p == query[1]
           parameters == sql.compiled.parameters
           database == sql.database[1]
           relation == Has(catalog, database, p, TRUE)
<1>1. sqlOutcome.status = "running" /\ sql.pc = "bind"
      /\ UNCHANGED <<connection, statement, sqlOutcome>> /\ Len(sql.bound) = Len(parameters)
  BY DEF StartSteps, SqlAt
<1>2. Locals(p) /\ ToBind(p) /\ catalog \in Catalogs /\ p \in Queries(catalog)
  BY <1>1, SqlRunning DEF SqlProgress, ToOpen, ToPrepare, ToBind, ToStep, ToClose
<1>3. /\ Connected(p) /\ statement = "live" /\ sql.output = <<>>
      /\ sql.compiled = Compile(catalog, p) /\ sql.compiled.error = "none"
      /\ sql.bound \in Seq(ParameterValue) /\ Has(catalog, database, p, FALSE).error = "none"
      /\ \A k \in 1..Len(sql.bound) : /\ Convertible(parameters[k])
                                      /\ sql.bound[k] = BoundValue(parameters[k])
  BY <1>2 DEF ToBind, Connected, Compiled
<1>4. parameters \in Seq(Parameter)
  BY <1>2, <1>3, Compiles DEF CompiledWell
<1>5. DOMAIN parameters = 1..Len(sql.bound)
  BY <1>1, <1>4
<1>6. sql.bound = ValuesOf(parameters, TRUE)
  <2> DEFINE values == ValuesOf(parameters, TRUE)
             bound == sql.bound
  <2>1. values \in Seq(ParameterValue) /\ Len(values) = Len(bound)
    BY <1>1, <1>4, ValuesType
  <2>2. \A k \in 1..Len(bound) : values[k] = bound[k]
    BY <1>3, <1>5 DEF ValuesOf
  <2>3. bound \in Seq(ParameterValue)
    BY <1>3
  <2> HIDE DEF values, bound
  <2>4. bound = values
    BY <2>1, <2>2, <2>3, SameItems
  <2> QED BY <2>4 DEF values, bound
<1>7. ResultOf(sql.bound) = relation /\ database \in Database
  BY <1>2, <1>3, <1>6, ConnectedHas
<1>8. sql' = [sql EXCEPT !.pc = "step", !.rows = relation.rows]
  BY <1>7 DEF StartSteps
<1>9. relation.error = "none"
  BY <1>2, <1>3, <1>7, PreparedSame
<1> DEFINE rows == relation.rows
           none == <<>>
<1> HIDE DEF relation, rows
<1>10. /\ sql'.pc = "step" /\ sql'.compiled = sql.compiled /\ sql'.database = sql.database
       /\ sql'.rows = rows /\ sql'.output = none /\ Locals(p)'
  BY <1>2, <1>3, <1>8 DEF Locals, rows
<1>11. Connected(p)'
  BY <1>1, <1>3, <1>10 DEF Connected, Compiled
<1>12. DOMAIN none = {} /\ none = OutputOf(rows, DOMAIN none)
  BY DEF OutputOf
<1> HIDE DEF none
<1>13. \A k \in DOMAIN parameters : Convertible(parameters[k])
  BY <1>3, <1>5
<1>14. ToStep(p)'
  BY <1>1, <1>3, <1>9, <1>10, <1>11, <1>12, <1>13 DEF ToStep, relation, rows
<1> QED BY <1>1, <1>10, <1>14, ProgressKept DEF SqlProgress

\* What a row of the relation becomes.
LEMMA RowShown ==
  ASSUME NEW schema \in Seq(Column), NEW relation, Shaped(relation, schema), relation.error = "none",
         NEW id \in DOMAIN relation.rows
  PROVE  LET values == relation.rows[id]
             row == [k \in DOMAIN values |-> CellOf(values[k])]
         IN  Len(row) = Len(schema) /\ Shown(relation.rows)[id] = row
<1> DEFINE values == relation.rows[id]
           row == [k \in DOMAIN values |-> CellOf(values[k])]
           size == Len(schema)
<1>1. DOMAIN values = DOMAIN schema /\ DOMAIN schema = 1..size /\ size \in Nat
  <2>1. values = [k \in DOMAIN schema |-> values[k]]
    BY DEF Shaped
  <2> HIDE DEF values
  <2> QED BY <2>1
<1>2. Shown(relation.rows)[id] = row
  BY DEF Shown
<1>3. DOMAIN row = 1..size
  BY <1>1
<1> HIDE DEF row, size
<1>4. Len(row) = size
  <2>1. row = [k \in 1..size |-> row[k]]
    BY <1>3 DEF row
  <2> QED BY <1>1, <2>1
<1> QED BY <1>2, <1>4 DEF row, size

LEMMA StepRowKept ==
  ASSUME ClientInv, SqlInv, StepRow, UNCHANGED <<catalog, query, client>> PROVE SqlInv'
<1> DEFINE p == query[1]
           parameters == sql.compiled.parameters
           database == sql.database[1]
           relation == Has(catalog, database, p, TRUE)
           left == sql.rows
           output == sql.output
<1>1. sqlOutcome.status = "running" /\ sql.pc = "step" /\ UNCHANGED <<connection, statement>>
  BY DEF StepRow, SqlAt
<1>2. Locals(p) /\ ToStep(p) /\ catalog \in Catalogs /\ p \in Queries(catalog)
  BY <1>1, SqlRunning DEF SqlProgress, ToOpen, ToPrepare, ToBind, ToStep, ToClose
<1>3. /\ Connected(p) /\ statement = "live" /\ relation.error = "none"
      /\ \A k \in DOMAIN parameters : Convertible(parameters[k])
      /\ DOMAIN left \cap DOMAIN output = {}
      /\ DOMAIN left \cup DOMAIN output = DOMAIN relation.rows
      /\ \A id \in DOMAIN left : left[id] = relation.rows[id]
      /\ output = OutputOf(relation.rows, DOMAIN output)
  BY <1>2 DEF ToStep
<1>4. /\ sql.compiled = Compile(catalog, p) /\ sql.compiled.error = "none"
      /\ sql.compiled.schema = p.schema /\ database \in Database /\ p.schema \in Seq(Column)
  <2>1. sql.compiled = Compile(catalog, p) /\ sql.compiled.error = "none"
    BY <1>3 DEF Connected, Compiled
  <2>2. sql.compiled.schema = p.schema
    BY <1>2, <2>1, Compiles DEF CompiledWell
  <2>3. p.schema \in Seq(Column)
    BY <1>2, QueryOver DEF NodeOK
  <2>4. database \in Database
    BY <1>2, <1>3, ConnectedHas
  <2> QED BY <2>1, <2>2, <2>3, <2>4
<1>5. Shaped(relation, p.schema)
  BY <1>2, <1>4, HasShape
<1> DEFINE rowOf(id) == [k \in DOMAIN left[id] |-> CellOf(left[id][k])]
<1>6. PICK id \in DOMAIN left :
        IF Len(rowOf(id)) # Len(sql.compiled.schema)
        THEN SqlThrow("size")
        ELSE /\ sql' = [sql EXCEPT
                  !.rows = [i \in DOMAIN left \ {id} |-> left[i]],
                  !.output = [i \in DOMAIN output \cup {id} |-> IF i = id THEN rowOf(id) ELSE output[i]]]
             /\ UNCHANGED sqlOutcome
  BY DEF StepRow
<1> DEFINE row == rowOf(id)
           fewer == [i \in DOMAIN left \ {id} |-> left[i]]
           more == [i \in DOMAIN output \cup {id} |-> IF i = id THEN row ELSE output[i]]
<1> HIDE DEF relation
<1>7. Len(row) = Len(p.schema) /\ Shown(relation.rows)[id] = row
  <2>1. id \in DOMAIN relation.rows /\ left[id] = relation.rows[id]
    BY <1>3
  <2> DEFINE values == relation.rows[id]
             shown == [k \in DOMAIN values |-> CellOf(values[k])]
             schema == p.schema
  <2> HIDE DEF left, row
  <2>4. schema \in Seq(Column) /\ Shaped(relation, schema) /\ relation.error = "none"
    BY <1>3, <1>4, <1>5
  <2> HIDE DEF schema
  <2>2. Len(shown) = Len(schema) /\ Shown(relation.rows)[id] = shown
    BY <2>1, <2>4, RowShown
  <2>3. row = shown
    BY <2>1 DEF row
  <2> QED BY <2>2, <2>3 DEF schema
<1>8. /\ DOMAIN fewer = DOMAIN left \ {id} /\ DOMAIN more = DOMAIN output \cup {id}
      /\ \A i \in DOMAIN fewer : fewer[i] = relation.rows[i]
      /\ more = OutputOf(relation.rows, DOMAIN more)
  <2> HIDE DEF left, row
  <2>1. \A i \in DOMAIN output : output[i] = Shown(relation.rows)[i]
    BY <1>3 DEF OutputOf
  <2> HIDE DEF output
  <2> QED BY <1>3, <1>7, <2>1 DEF OutputOf
<1> HIDE DEF fewer, more, row, left, output, rowOf
<1>9. sql' = [sql EXCEPT !.rows = fewer, !.output = more] /\ UNCHANGED sqlOutcome
  BY <1>4, <1>6, <1>7 DEF fewer, more, row
<1>10. /\ sql'.pc = "step" /\ sql'.compiled = sql.compiled /\ sql'.database = sql.database
       /\ sql'.rows = fewer /\ sql'.output = more /\ Locals(p)'
  BY <1>1, <1>2, <1>9 DEF Locals
<1>11. Connected(p)'
  BY <1>1, <1>3, <1>10 DEF Connected, Compiled
<1>12. DOMAIN fewer \cap DOMAIN more = {} /\ DOMAIN fewer \cup DOMAIN more = DOMAIN relation.rows
  BY <1>3, <1>6, <1>8
<1>13. ToStep(p)'
  BY <1>1, <1>3, <1>8, <1>10, <1>11, <1>12 DEF ToStep, relation
<1> QED BY <1>1, <1>9, <1>10, <1>13, ProgressKept DEF SqlProgress

\* The calls that fail by themselves.
LEMMA OpenFailsKept ==
  ASSUME ClientInv, SqlInv, OpenFails, UNCHANGED <<catalog, query, client>> PROVE SqlInv'
<1> DEFINE p == query[1]
<1>1. /\ sqlOutcome.status = "running" /\ sql.pc = "open" /\ statement' = statement
      /\ connection' \in {"none", "open"} /\ SqlThrow("library")
  BY DEF OpenFails, SqlAt
<1>2. statement = "none"
  BY <1>1, SqlRunning DEF SqlProgress, ToOpen, ToPrepare, ToBind, ToStep, ToClose
<1>3. SqlFails(catalog, "library", p)
  BY DEF SqlFails
<1> QED BY <1>1, <1>2, <1>3, SqlThrowKept

LEMMA PrepareFailsKept ==
  ASSUME ClientInv, SqlInv, PrepareFails, UNCHANGED <<catalog, query, client>> PROVE SqlInv'
<1> DEFINE p == query[1]
<1>1. /\ sqlOutcome.status = "running" /\ sql.pc = "prepare" /\ UNCHANGED <<connection, statement>>
      /\ SqlThrow("library")
  BY DEF PrepareFails, SqlAt
<1>2. connection = "open" /\ statement = "none"
  BY <1>1, SqlRunning DEF SqlProgress, ToOpen, ToPrepare, ToBind, ToStep, ToClose, Connected
<1>3. SqlFails(catalog, "library", p)
  BY DEF SqlFails
<1> QED BY <1>1, <1>2, <1>3, SqlThrowKept

LEMMA BindFailsKept ==
  ASSUME ClientInv, SqlInv, BindFails, UNCHANGED <<catalog, query, client>> PROVE SqlInv'
<1> DEFINE p == query[1]
<1>1. /\ sqlOutcome.status = "running" /\ sql.pc = "bind" /\ UNCHANGED <<connection, statement>>
      /\ SqlThrow("library")
  BY DEF BindFails, SqlAt
<1>2. connection = "open" /\ statement = "live"
  BY <1>1, SqlRunning DEF SqlProgress, ToOpen, ToPrepare, ToBind, ToStep, ToClose, Connected
<1>3. SqlFails(catalog, "library", p)
  BY DEF SqlFails
<1> QED BY <1>1, <1>2, <1>3, SqlThrowKept

LEMMA StepFailsKept ==
  ASSUME ClientInv, SqlInv, StepFails, UNCHANGED <<catalog, query, client>> PROVE SqlInv'
<1> DEFINE p == query[1]
<1>1. /\ sqlOutcome.status = "running" /\ sql.pc = "step" /\ UNCHANGED <<connection, statement>>
      /\ SqlThrow("library")
  BY DEF StepFails, SqlAt
<1>2. connection = "open" /\ statement = "live"
  BY <1>1, SqlRunning DEF SqlProgress, ToOpen, ToPrepare, ToBind, ToStep, ToClose, Connected
<1>3. SqlFails(catalog, "library", p)
  BY DEF SqlFails
<1> QED BY <1>1, <1>2, <1>3, SqlThrowKept

LEMMA StepDoneKept ==
  ASSUME ClientInv, SqlInv, StepDone, UNCHANGED <<catalog, query, client>> PROVE SqlInv'
<1> DEFINE p == query[1]
           compiled == sql.compiled
           database == sql.database[1]
           relation == Has(catalog, database, p, TRUE)
           pending == [NoSqlOutcome EXCEPT !.status = "running", !.schema = compiled.schema,
                                           !.rows = sql.output]
<1>1. /\ sqlOutcome.status = "running" /\ sql.pc = "step" /\ UNCHANGED <<connection, statement>>
      /\ DOMAIN sql.rows = {} /\ Leave(pending)
  BY DEF StepDone, SqlAt
<1>2. ToStep(p) /\ catalog \in Catalogs /\ p \in Queries(catalog)
  BY <1>1, SqlRunning DEF SqlProgress, ToOpen, ToPrepare, ToBind, ToStep, ToClose
<1>3. /\ Connected(p) /\ statement = "live" /\ relation.error = "none"
      /\ \A k \in DOMAIN compiled.parameters : Convertible(compiled.parameters[k])
      /\ DOMAIN sql.output = DOMAIN relation.rows
      /\ sql.output = OutputOf(relation.rows, DOMAIN sql.output)
  BY <1>1, <1>2 DEF ToStep
<1>4. /\ compiled = Compile(catalog, p) /\ compiled.error = "none" /\ connection = "open"
      /\ OneDatabase(catalog) /\ database \in TheDatabases(catalog)
  BY <1>3 DEF Connected, Compiled
<1>5. compiled.schema = p.schema
  BY <1>2, <1>4, Compiles DEF CompiledWell
<1>6. sql.output = Shown(relation.rows)
  BY <1>3 DEF Shown, OutputOf
<1>7. relation = RelationOf(database, compiled.text, Bound(compiled))
  BY <1>2, <1>4, ValuesGiven DEF Has
<1>8. sql.output \in SqlAnswers(catalog, compiled)
  <2> HIDE DEF relation, compiled, database
  <2>1. relation \in {r \in {RelationOf(d, compiled.text, Bound(compiled)) :
                                d \in TheDatabases(catalog)} : r.error = "none"}
    BY <1>3, <1>4, <1>7
  <2> QED BY <1>3, <1>4, <1>6, <2>1 DEF SqlAnswers
<1>9. /\ pending.status = "running" /\ pending.error = "none" /\ pending.rows = sql.output
      /\ pending = [NoSqlOutcome EXCEPT !.status = pending.status, !.schema = p.schema,
                                        !.rows = pending.rows]
  BY <1>5 DEF NoSqlOutcome
<1> HIDE DEF pending
<1>10. SqlReplied(catalog, pending, p)
  BY <1>4, <1>8, <1>9 DEF SqlReplied
<1> QED BY <1>1, <1>3, <1>4, <1>9, <1>10, LeaveKept

LEMMA FinalizeKept ==
  ASSUME ClientInv, SqlInv, Finalize, UNCHANGED <<catalog, query, client>> PROVE SqlInv'
<1> DEFINE p == query[1]
<1>1. /\ sqlOutcome.status = "running" /\ sql.pc = "leaving"
      /\ statement' = "none" /\ UNCHANGED <<sql, connection, sqlOutcome>>
  BY DEF Finalize, SqlAt
<1>2. Locals(p) /\ ToClose(p)
  BY <1>1, SqlRunning DEF SqlProgress, ToOpen, ToPrepare, ToBind, ToStep, ToClose
<1>3. Locals(p)'
  BY <1>1, <1>2 DEF Locals
<1>4. SqlReplied(catalog, sqlOutcome, p)'
  BY <1>1, <1>2 DEF ToClose
<1>5. ToClose(p)'
  BY <1>1, <1>2, <1>4 DEF ToClose
<1> QED BY <1>1, <1>3, <1>5, ProgressKept DEF SqlProgress

LEMMA CloseKept ==
  ASSUME ClientInv, SqlInv, Close, UNCHANGED <<catalog, query, client>>
  PROVE  SqlInv' /\ sqlOutcome'.status \in {"thrown", "returned"}
<1> DEFINE p == query[1]
           status == IF sqlOutcome.error = "none" THEN "returned" ELSE "thrown"
<1>1. /\ sqlOutcome.status = "running" /\ sql.pc = "leaving" /\ statement = "none"
      /\ statement' = "none" /\ connection' = "none" /\ sql' = NoSql
      /\ sqlOutcome' = [sqlOutcome EXCEPT !.status = status]
  BY DEF Close, SqlAt, Finished
<1>2. ToClose(p) /\ client = "SQLiteBackend"
  BY <1>1, SqlRunning DEF SqlProgress, ToOpen, ToPrepare, ToBind, ToStep, ToClose
<1>3. SqlReplied(catalog, sqlOutcome, p)
  BY <1>2 DEF ToClose
<1> HIDE DEF status
<1>4. /\ sqlOutcome'.status = status /\ sqlOutcome'.error = sqlOutcome.error
      /\ sqlOutcome'.rows = sqlOutcome.rows
      /\ SqlReplied(catalog, sqlOutcome', p)
  <2>1. CASE /\ sqlOutcome.error # "none" /\ SqlFails(catalog, sqlOutcome.error, p)
             /\ sqlOutcome = [NoSqlOutcome EXCEPT !.status = sqlOutcome.status,
                                                  !.error = sqlOutcome.error]
    BY <1>1, <2>1 DEF SqlReplied, NoSqlOutcome
  <2>2. CASE /\ sqlOutcome.error = "none" /\ sqlOutcome.rows \in SqlAnswers(catalog, Compile(catalog, p))
             /\ sqlOutcome = [NoSqlOutcome EXCEPT !.status = sqlOutcome.status, !.schema = p.schema,
                                                  !.rows = sqlOutcome.rows]
    BY <1>1, <2>2 DEF SqlReplied, NoSqlOutcome
  <2> QED BY <1>3, <2>1, <2>2 DEF SqlReplied
<1>5. SqlReplied(catalog, sqlOutcome, query[1])'
  BY <1>4 
<1> QED BY <1>1, <1>2, <1>4, <1>5 DEF SqlInv, status

LEMMA SqlStepKept ==
  ASSUME ClientInv, SqlInv, SqlStep, UNCHANGED <<query, client>> PROVE SqlInv'
BY CompileKept, OpenKept, PrepareKept, BindKept, StartKept, StepRowKept, OpenFailsKept,
   PrepareFailsKept, BindFailsKept, StepFailsKept, StepDoneKept, FinalizeKept, CloseKept DEF SqlStep

LEMMA ExecuteSqlKept ==
  ASSUME ClientInv, SqlInv, NEW expr, expr = query[1], ExecuteSql(expr), client = "CsvBackend",
         client' = "SQLiteBackend", UNCHANGED <<catalog, query>>
  PROVE  SqlInv' /\ sqlOutcome'.status = "running"
<1>1. /\ sql' = [NoSql EXCEPT !.pc = "compile", !.expr = expr]
      /\ sqlOutcome'.status = "running" /\ UNCHANGED <<connection, statement>>
  BY DEF ExecuteSql, NoSqlOutcome
<1>2. connection = "none" /\ statement = "none"
  BY DEF SqlInv
<1>3. /\ sql'.pc = "compile" /\ sql'.bound = <<>> /\ sql'.output = <<>> /\ Locals(expr)'
  BY <1>1 DEF NoSql, Locals
<1>4. SqlProgress(expr)'
  BY <1>1, <1>2, <1>3 DEF SqlProgress
<1> QED BY <1>1, <1>3, <1>4 DEF SqlInv

LEMMA SqlNextKept ==
  ASSUME ClientInv, SqlInv, Next PROVE SqlInv'
<1>1. client # "SQLiteBackend" =>
        sqlOutcome = NoSqlOutcome /\ sql = NoSql /\ connection = "none" /\ statement = "none"
  BY DEF SqlInv
<1>2. CASE Register \/ ParseSomeLine \/ TakeFields \/ RunOnCsv
  <2>1. client # "SQLiteBackend" /\ client' # "SQLiteBackend" /\ UNCHANGED sqlVars
    BY <1>2 DEF Register, ParseSomeLine, TakeFields, RunOnCsv
  <2> QED BY <1>1, <2>1 DEF SqlInv, sqlVars
<1>3. CASE RunOnSqlite
  BY <1>3, ExecuteSqlKept DEF RunOnSqlite, csvVars
<1>4. CASE TakeResults
  <2>1. client = "SQLiteBackend" /\ sqlOutcome.status # "running"
        /\ client' = "idle" /\ sqlOutcome' = NoSqlOutcome /\ UNCHANGED <<sql, connection, statement>>
    BY <1>4 DEF TakeResults
  <2> QED BY <2>1 DEF SqlInv
<1>5. CASE CsvRuns
  <2>1. UNCHANGED <<catalog, query, sqlVars, client>>
    BY <1>5, CsvStepEnds DEF CsvRuns
  <2> QED BY <2>1, SqlUnchanged
<1>6. CASE SqliteRuns
  BY <1>6, SqlStepKept DEF SqliteRuns, csvVars
<1> QED BY <1>2, <1>3, <1>4, <1>5, <1>6 DEF Next

-----------------------------------------------------------------------------
(* The invariant of the client, in every state.                            *)

LEMMA BackendsInit == Init => BackendsInv
<1> SUFFICES ASSUME Init PROVE BackendsInv
  OBVIOUS
<1> DEFINE none == <<>>
<1>1. /\ catalog = FirstBindings /\ client = "idle" /\ query = none
      /\ scan = NoScan /\ stack = none /\ plan = none /\ outcome = NoOutcome
      /\ sql = NoSql /\ connection = "none" /\ statement = "none" /\ sqlOutcome = NoSqlOutcome
  BY DEF Init
<1>2. FirstBindings \in Catalogs
  BY FirstCatalog
<1>3. ClientInv
  BY <1>1, <1>2 DEF ClientInv, NoOutcome
<1>4. ExecutionInit
  BY <1>1 DEF ExecutionInit
<1>5. ExecutionInv
  BY <1>4, NothingExecuted, NoScanParses DEF ExecutionInit, NoOutcome
<1>6. SqlInv
  BY <1>1 DEF SqlInv
<1> QED BY <1>3, <1>5, <1>6 DEF BackendsInv

LEMMA BackendsStep == BackendsInv /\ [Next]_vars => BackendsInv'
<1> SUFFICES ASSUME BackendsInv, [Next]_vars PROVE BackendsInv'
  OBVIOUS
<1>1. ClientInv /\ ExecutionInv /\ SqlInv
  BY DEF BackendsInv
<1>2. CASE Next
  BY <1>1, <1>2, ClientNextKept, ExecutionNextKept, SqlNextKept DEF BackendsInv
<1>3. CASE UNCHANGED vars
  <2>1. UNCHANGED <<catalog, csvVars, sqlVars, client>>
    BY <1>3 DEF vars
  <2>2. UNCHANGED <<scan, query, stack, plan, outcome>>
    BY <2>1 DEF csvVars
  <2>3. ClientInv'
    BY <1>1, <2>1, <2>2 DEF ClientInv
  <2>4. ExecutionInv'
    BY <1>1, <2>1, ExecutionUnchanged
  <2>5. SqlInv'
    BY <1>1, <2>1, <2>2, SqlUnchanged
  <2> QED BY <2>3, <2>4, <2>5 DEF BackendsInv
<1> QED BY <1>2, <1>3

(* Whatever the client registers, parses and runs, the catalog is one the  *)
(* queries are over and each backend is inside a call it was asked for, as *)
(* far as ExecutionInv and SqlInv say, or at rest (sqlite_backend.cpp,     *)
(* csv_backend.cpp, source_catalog.cpp).                                   *)
THEOREM BackendsInvariant == Spec => []BackendsInv
BY BackendsInit, BackendsStep, PTL DEF Spec

(* The variables keep their types, and what is registered later does not   *)
(* change which files the tables of the queries are (SourceCatalog::find). *)
THEOREM BackendsTypes == Spec => []TypeOK
<1>1. BackendsInv => TypeOK
  <2> SUFFICES ASSUME BackendsInv PROVE TypeOK
    OBVIOUS
  <2>1. ClientInv /\ ExecutionInv /\ SqlInv
    BY DEF BackendsInv
  <2>2. catalog \in Catalogs
    BY <2>1 DEF ClientInv
  <2>3. \A i \in DOMAIN catalog : catalog[i].kind \in SourceKind
    <3>1. catalog \in Seq(AllBindings) /\ \A i \in 1..Len(catalog) : IsBinding(catalog[i])
      BY <2>2, CatalogType
    <3>2. DOMAIN catalog = 1..Len(catalog)
      BY <3>1
    <3> QED BY <3>1, <3>2 DEF IsBinding
  <2>4. (outcome.status = "running") = (stack # <<>>)
    <3>1. outcome.status = "running" <=> stack # <<>>
      BY <2>1 DEF ExecutionInv
    <3> QED BY <3>1
  <2>5. sqlOutcome.status \in {"none", "running", "thrown", "returned"}
        /\ connection \in {"none", "open"} /\ statement \in {"none", "live"}
    <3>1. CASE sqlOutcome.status = "running"
      BY <2>1, <3>1, SqlRunning
      DEF SqlProgress, ToOpen, ToPrepare, ToBind, ToStep, ToClose, Connected
    <3>2. CASE sqlOutcome.status # "running"
      BY <2>1, <3>2 DEF SqlInv, NoSqlOutcome
    <3> QED BY <3>1, <3>2
  <2>6. (sqlOutcome.status = "running") = (sql # NoSql)
    <3>1. sqlOutcome.status = "running" <=> sql # NoSql
      <4>1. CASE sqlOutcome.status = "running"
        <5>1. sql.pc # "none"
          BY <2>1, <4>1, SqlRunning DEF SqlProgress, ToOpen, ToPrepare, ToBind, ToStep, ToClose
        <5> QED BY <4>1, <5>1 DEF NoSql
      <4>2. CASE sqlOutcome.status # "running"
        BY <2>1, <4>2 DEF SqlInv
      <4> QED BY <4>1, <4>2
    <3> QED BY <3>1
  <2> QED BY <2>1, <2>2, <2>3, <2>4, <2>5, <2>6, CatalogSources DEF TypeOK, ClientInv
<1> QED BY <1>1, BackendsInvariant, PTL

(* Of the client of both backends: CsvParser::parseLine gives the fields   *)
(* its line says.                                                          *)
THEOREM ClientParses == Spec => []ParsesWhatIsWritten
<1>1. BackendsInv => ParsesWhatIsWritten
  BY DEF BackendsInv, ExecutionInv, Parses, ParsesWhatIsWritten
<1> QED BY <1>1, BackendsInvariant, PTL

(* Of the client of both backends: CSVBackend::execute returns the rows a  *)
(* query means or throws the error it means, also after registrations and  *)
(* after other calls.                                                      *)
THEOREM ClientIsAnswered == Spec => []AnsweredAsMeant
<1>1. BackendsInv => AnsweredAsMeant
  BY DEF BackendsInv, ExecutionInv, Answered
<1> QED BY <1>1, BackendsInvariant, PTL

(* SQLiteBackend::execute finalizes its statement and closes its database  *)
(* before it returns or throws, whichever call of SQLite failed.           *)
THEOREM HandlesAreReleased == Spec => []HandlesReleased
<1>1. BackendsInv => HandlesReleased
  BY DEF BackendsInv, SqlInv, HandlesReleased
<1> QED BY <1>1, BackendsInvariant, PTL

-----------------------------------------------------------------------------
(* SQLiteBackend::execute implements AbstractBackend.                      *)

LEMMA RepliesAllowed ==
  ASSUME catalog \in Catalogs, NEW expr \in Queries(catalog), NEW o, SqlReplied(catalog, o, expr),
         o.status = IF o.error = "none" THEN "returned" ELSE "thrown"
  PROVE  o \in SqlReplies(expr)
<1>1. CASE o.error = "none"
  <2>1. /\ o.rows \in SqlAnswers(catalog, Compile(catalog, expr))
        /\ o = [NoSqlOutcome EXCEPT !.status = o.status, !.schema = expr.schema, !.rows = o.rows]
    BY <1>1 DEF SqlReplied
  <2>2. o.status = "returned"
    BY <1>1
  <2>3. o = [NoSqlOutcome EXCEPT !.status = "returned", !.schema = expr.schema, !.rows = o.rows]
    BY <2>1, <2>2
  <2> QED BY <2>1, <2>3 DEF SqlReplies
<1>2. CASE o.error # "none"
  <2>1. /\ SqlFails(catalog, o.error, expr)
        /\ o = [NoSqlOutcome EXCEPT !.status = o.status, !.error = o.error]
    BY <1>2 DEF SqlReplied
  <2>2. CompiledWell(catalog, expr)
    BY Compiles
  <2>3. o.error \in SqlErrors
    BY <2>1, <2>2 DEF SqlFails, CompiledWell, SqlErrors
  <2>4. o.status = "thrown"
    BY <1>2
  <2>5. o = [NoSqlOutcome EXCEPT !.status = "thrown", !.error = o.error]
    BY <2>1, <2>4
  <2> QED BY <2>3, <2>5 DEF SqlReplies
<1> QED BY <1>1, <1>2

LEMMA SqliteMapsInit == Init => Sqlite3!Init
BY DEF Init, Sqlite3!Init, SqlPhase, NoSqlOutcome

LEMMA SqliteMapsStep ==
  ASSUME BackendsInv, Next
  PROVE  [Sqlite3!Ask \/ Sqlite3!Reply \/ Sqlite3!Forget]_<<
            SqlPhase, IF SqlPhase = "idle" THEN <<>> ELSE << <<query, catalog>> >>,
            IF SqlPhase = "done" THEN <<sqlOutcome>> ELSE <<>>>>
<1>1. ClientInv /\ SqlInv
  BY DEF BackendsInv
<1>2. SqlInv'
  BY BackendsStep DEF BackendsInv
<1>3. client # "SQLiteBackend" => sqlOutcome.status = "none"
  BY <1>1 DEF SqlInv, NoSqlOutcome
<1>4. CASE Register \/ ParseSomeLine \/ TakeFields \/ RunOnCsv
  <2>1. client # "SQLiteBackend" /\ UNCHANGED sqlOutcome
    BY <1>4 DEF Register, ParseSomeLine, TakeFields, RunOnCsv, sqlVars
  <2>2. SqlPhase = "idle" /\ SqlPhase' = "idle"
    BY <1>3, <2>1 DEF SqlPhase
  <2> QED BY <2>2
<1>5. CASE RunOnSqlite
  <2>1. client # "SQLiteBackend" /\ ExecuteSql(query[1])
    BY <1>5 DEF RunOnSqlite
  <2>2. SqlPhase = "idle" /\ SqlPhase' = "busy"
    BY <1>3, <2>1 DEF SqlPhase, ExecuteSql, NoSqlOutcome
  <2> QED BY <2>2 DEF Sqlite3!Ask
<1>6. CASE TakeResults
  <2>1. client = "SQLiteBackend" /\ sqlOutcome.status # "running" /\ sqlOutcome' = NoSqlOutcome
    BY <1>6 DEF TakeResults
  <2>2. sqlOutcome.status # "none"
    BY <1>1, <2>1 DEF SqlInv
  <2>3. SqlPhase = "done" /\ SqlPhase' = "idle"
    BY <2>1, <2>2 DEF SqlPhase, NoSqlOutcome
  <2> QED BY <2>3 DEF Sqlite3!Forget
<1>7. CASE CsvRuns
  <2>1. UNCHANGED <<catalog, query, sqlOutcome>>
    BY <1>7, CsvStepEnds DEF CsvRuns, sqlVars
  <2>2. UNCHANGED SqlPhase
    BY <2>1 DEF SqlPhase
  <2> QED BY <2>1, <2>2
<1>8. CASE SqliteRuns
  <2>1. UNCHANGED <<catalog, query, client>> /\ sqlOutcome.status = "running" /\ SqlStep
    BY <1>8 DEF SqliteRuns, csvVars, SqlStep, SqlAt, CompileQuery, OpenDatabase, PrepareStatement,
                BindParameter, StartSteps, StepRow, OpenFails, PrepareFails, BindFails,
                StepFails, StepDone, Finalize, Close
  <2>2. SqlPhase = "busy"
    BY <2>1 DEF SqlPhase
  <2>3. client = "SQLiteBackend" /\ query[1] \in Queries(catalog) /\ catalog \in Catalogs
    BY <1>1, <2>1, SqlRunning
  <2>4. CASE sqlOutcome'.status = "running"
    <3>1. SqlPhase' = "busy"
      BY <2>4 DEF SqlPhase
    <3> QED BY <2>1, <2>2, <3>1
  <2>5. CASE sqlOutcome'.status # "running"
    <3>1. /\ sqlOutcome'.status = IF sqlOutcome'.error = "none" THEN "returned" ELSE "thrown"
          /\ SqlReplied(catalog', sqlOutcome', query'[1])
      BY <1>2, <2>1, <2>3, <2>5 DEF SqlInv
    <3>2. sqlOutcome' \in SqlReplies(query[1])
      BY <2>1, <2>3, <3>1, RepliesAllowed
    <3>3. SqlPhase' = "done"
      BY <3>1 DEF SqlPhase
    <3> QED BY <2>1, <2>2, <3>2, <3>3 DEF Sqlite3!Reply
  <2> QED BY <2>4, <2>5
<1> QED BY <1>4, <1>5, <1>6, <1>7, <1>8 DEF Next

(* SQLiteBackend::execute implements AbstractBackend: a call is answered   *)
(* once, with all the rows SQLite has for the text in the one database of  *)
(* the catalog or with an exception, never with rows that came before a    *)
(* failure.                                                                *)
THEOREM SqliteIsABackend == Spec => Sqlite3!Spec
<1>1. BackendsInv /\ UNCHANGED vars => UNCHANGED <<SqlPhase, query, catalog, sqlOutcome>>
  BY DEF vars, csvVars, sqlVars, SqlPhase
<1>2. BackendsInv /\ [Next]_vars =>
        [Sqlite3!Ask \/ Sqlite3!Reply \/ Sqlite3!Forget]_<<
            SqlPhase, IF SqlPhase = "idle" THEN <<>> ELSE << <<query, catalog>> >>,
            IF SqlPhase = "done" THEN <<sqlOutcome>> ELSE <<>>>>
  BY <1>1, SqliteMapsStep
<1> QED BY <1>2, SqliteMapsInit, BackendsInvariant, PTL DEF Spec, Sqlite3!Spec

-----------------------------------------------------------------------------
(* When the two backends agree: cells, and how they compare.               *)

ClassOf(cell) == IF cell.kind = "number" THEN "numeric" ELSE "text"

\* The value SQLite has where the CSV backend has the cell.
SameCell(cell, affinity, value) ==
  /\ cell.kind \in {"number", "text"} /\ affinity = ClassOf(cell)
  /\ Stores(value, cell) /\ AsCompared(CellOf(value)) = AsCompared(cell)

\* The relation SQLite has for an expression has the rows the expression means.
SameRelation(expr, relation) ==
  /\ relation.error = "none" /\ relation.names = expr.schema
  /\ DOMAIN relation.rows = DOMAIN expr.answer.rows
  /\ \A id \in DOMAIN expr.answer.rows : \A k \in KeptColumns(expr, Exact(expr)) :
       SameCell(expr.answer.rows[id][k], relation.affinities[k], relation.rows[id][k])

Agreed(bindings, expr) ==
  LET compiled == Compile(bindings, expr) IN
  /\ OneDatabase(bindings) /\ NoLocation \notin Locations(bindings) /\ TheDatabases(bindings) # {}
  /\ compiled.error = "none" /\ expr.schema # <<>> /\ expr.answer.error = "none"
  /\ \A k \in DOMAIN compiled.parameters : Convertible(compiled.parameters[k])
  /\ \A database \in TheDatabases(bindings) : SameRelation(expr, Has(bindings, database, expr, TRUE))

LEMMA ValueFields ==
  ASSUME NEW class, NEW text PROVE Value(class, text).class = class /\ Value(class, text).text = text
BY DEF Value

\* A side of a comparison: a column, or a literal that has the affinity none.
Side(cell, side) ==
  /\ cell.kind \in {"number", "text"} /\ cell \in Cell
  /\ side.affinity \in {ClassOf(cell), "none"}
  /\ Stores(side.value, cell)

LEMMA SideValue ==
  ASSUME NEW cell, NEW side, Side(cell, side)
  PROVE  /\ side.value.class # "null"
         /\ cell.kind = "number" => /\ IsNumber(side.value) /\ side.value.class # "text"
                                    /\ side.value.text.num = cell.num
         /\ cell.kind = "text" => /\ ~IsNumber(side.value) /\ side.value.class = "text"
                                  /\ side.value.text = cell
<1>1. CASE cell.kind = "number"
  BY <1>1 DEF Side, Stores, IsNumber
<1>2. CASE cell.kind = "text"
  BY <1>2, ValueFields DEF Side, Stores, IsNumber
<1> QED BY <1>1, <1>2 DEF Side

\* The values of cells of one kind are compared as they are.
LEMMA AppliedSame ==
  ASSUME NEW cell, NEW side, Side(cell, side), NEW affinity,
         affinity \in {"none", ClassOf(cell)} \/ (affinity = "numeric" /\ cell.kind = "text")
  PROVE  Applied(affinity, side.value) = side.value
<1>1. CASE cell.kind = "number"
  BY <1>1, SideValue DEF Applied, ClassOf
<1>2. CASE cell.kind = "text"
  BY <1>2, SideValue DEF Applied, ClassOf
<1> QED BY <1>1, <1>2 DEF Side

LEMMA SameComparison ==
  ASSUME NEW left, NEW right, left.kind = right.kind, NEW l, NEW r, Side(left, l), Side(right, r),
         l.affinity = ClassOf(left), NEW compareOp
  PROVE  SqlCompare(compareOp, l, r)
           <=> ~IsNull(left) /\ ~IsNull(right) /\ Holds(compareOp, CompareValues(left, right))
<1> DEFINE affinity == ComparedAs(l.affinity, r.affinity)
           class == ClassOf(left)
<1>1. /\ left.kind = "number" => /\ IsNumber(l.value) /\ l.value.text.num = left.num
                                  /\ IsNumber(r.value) /\ r.value.text.num = right.num
      /\ left.kind = "text" => /\ ~IsNumber(l.value) /\ l.value.class = "text" /\ l.value.text = left
                               /\ ~IsNumber(r.value) /\ r.value.class = "text" /\ r.value.text = right
  BY SideValue
<1>2. affinity \in {"none", class} /\ class = ClassOf(right)
  <2>1. CASE left.kind = "number"
    BY <2>1 DEF Side, ClassOf, ComparedAs
  <2>2. CASE left.kind = "text"
    BY <2>2 DEF Side, ClassOf, ComparedAs
  <2> QED BY <2>1, <2>2 DEF Side
<1> HIDE DEF affinity, class
<1>3. Applied(affinity, l.value) = l.value /\ Applied(affinity, r.value) = r.value
  BY <1>2, AppliedSame DEF class
<1>4. SqlOrder(l.value, r.value) = CompareValues(left, right)
  <2>1. CASE left.kind = "number"
    <3>1. SqlOrder(l.value, r.value) = Sign(left.num, right.num)
      BY <1>1, <2>1 DEF SqlOrder, IsNumber
    <3>2. CompareValues(left, right) = Sign(left.num, right.num)
      BY <2>1 DEF CompareValues, ParsesAsNumber
    <3> QED BY <3>1, <3>2
  <2>2. CASE left.kind = "text"
    BY <1>1, <2>2 DEF SqlOrder, CompareValues, ParsesAsNumber
  <2> QED BY <2>1, <2>2 DEF Side
<1>5. l.value.class # "null" /\ r.value.class # "null" /\ ~IsNull(left) /\ ~IsNull(right)
  BY SideValue DEF IsNull, Side
<1> QED BY <1>3, <1>4, <1>5 DEF SqlCompare, affinity

LEMMA CellType ==
  ASSUME NEW cell \in Cell, cell.kind \in {"number", "text"}
  PROVE  cell \in Text /\ cell.bytes \in Nat /\ cell.num \in Int
BY DEF Cell, Text, Null

LEMMA SameKeyComparison ==
  ASSUME NEW left, NEW right, NEW l, NEW r, Side(left, l), Side(right, r),
         l.affinity = ClassOf(left), r.affinity = ClassOf(right),
         \/ left.bytes = right.bytes
         \/ left.kind = "number" /\ right.kind = "number" /\ left.num = right.num
         => left = right
  PROVE  SqlCompare("Equal", l, r) <=> KeysMatch(left, right)
<1>1. /\ left.kind = "number" => IsNumber(l.value)
      /\ right.kind = "number" => IsNumber(r.value)
      /\ left.kind = "text" => ~IsNumber(l.value) /\ l.value.class = "text"
      /\ right.kind = "text" => ~IsNumber(r.value) /\ r.value.class = "text"
  BY SideValue
<1>2. /\ left.kind \in {"number", "text"} /\ left.bytes \in Nat /\ left.num \in Int
      /\ right.kind \in {"number", "text"} /\ right.bytes \in Nat /\ right.num \in Int
  BY CellType DEF Side
<1>3. KeysMatch(left, right) <=> left = right
  BY <1>2 DEF KeysMatch, IsNull
<1>4. CASE left.kind = right.kind
  <2>1. SqlCompare("Equal", l, r) <=> CompareValues(left, right) = 0
    <3> DEFINE compareOp == "Equal"
    <3>1. ~IsNull(left) /\ ~IsNull(right)
      BY <1>2 DEF IsNull
    <3>2. Holds(compareOp, CompareValues(left, right)) <=> CompareValues(left, right) = 0
      BY DEF Holds
    <3> HIDE DEF compareOp
    <3>3. SqlCompare(compareOp, l, r) <=> Holds(compareOp, CompareValues(left, right))
      BY <1>4, <3>1, SameComparison
    <3> QED BY <3>2, <3>3 DEF compareOp
  <2>2. CompareValues(left, right) = 0 <=> left = right
    BY <1>2, <1>4 DEF CompareValues, ParsesAsNumber, Sign
  <2> QED BY <1>3, <2>1, <2>2
<1>5. CASE left.kind # right.kind
  <2> DEFINE affinity == ComparedAs(l.affinity, r.affinity)
  <2>1. affinity = "numeric"
    BY <1>2, <1>5 DEF ComparedAs, ClassOf
  <2>2. Applied(affinity, l.value) = l.value /\ Applied(affinity, r.value) = r.value
    BY <1>2, <2>1, AppliedSame DEF ClassOf
  <2>3. SqlOrder(l.value, r.value) # 0
    BY <1>1, <1>2, <1>5 DEF SqlOrder
  <2>4. ~SqlCompare("Equal", l, r)
    BY <2>2, <2>3 DEF SqlCompare, Holds
  <2> QED BY <1>3, <1>5, <2>4
<1> QED BY <1>4, <1>5

-----------------------------------------------------------------------------
(* The columns that come through.                                          *)

LEMMA FirstColumn ==
  ASSUME NEW schema \in Seq(Column), NEW column, SequenceContains(schema, column)
  PROVE  LET k == ColumnIndex(schema, column)
         IN  k \in DOMAIN schema /\ schema[k] = column /\ k = ColumnIndex(schema, schema[k])
BY IndexFound DEF SequenceContains, Positions

LEMMA FirstIsKept ==
  ASSUME NEW expr, expr.schema \in Seq(Column), NEW column, SequenceContains(expr.schema, column),
         NEW exact
  PROVE  ColumnIndex(expr.schema, column) \in KeptColumns(expr, exact)
<1> DEFINE schema == expr.schema
<1>1. schema \in Seq(Column) /\ SequenceContains(schema, column)
  OBVIOUS
<1> HIDE DEF schema
<1>2. /\ ColumnIndex(schema, column) \in DOMAIN schema
      /\ ColumnIndex(schema, column) = ColumnIndex(schema, schema[ColumnIndex(schema, column)])
  BY <1>1, FirstColumn
<1> QED BY <1>2 DEF KeptColumns, schema

\* A column that is named has the same cells.
LEMMA NamedCell ==
  ASSUME NEW expr, expr.schema \in Seq(Column), expr.answer.error = "none",
         Fits(expr.answer, expr.schema), NEW relation, SameRelation(expr, relation),
         NEW column, SequenceContains(expr.schema, column), NEW id \in DOMAIN expr.answer.rows
  PROVE  LET cell == RowValue(expr.schema, expr.answer.rows[id], column)
             at == At(relation, id, column)
         IN  /\ cell = expr.answer.rows[id][ColumnIndex(expr.schema, column)]
             /\ SameCell(cell, AffinityOf(relation, column), at.value)
             /\ Side(cell, at) /\ at.affinity = ClassOf(cell)
<1> DEFINE k == ColumnIndex(expr.schema, column)
           cell == expr.answer.rows[id][k]
           at == At(relation, id, column)
<1>1. k \in KeptColumns(expr, Exact(expr))
  BY FirstIsKept
<1>2. k \in DOMAIN expr.schema
  BY <1>1 DEF KeptColumns
<1>3. cell \in Cell
  BY <1>2 DEF Fits
<1>4. RowValue(expr.schema, expr.answer.rows[id], column) = cell
  BY DEF RowValue
<1>5. /\ at.value = relation.rows[id][k] /\ at.affinity = relation.affinities[k]
      /\ AffinityOf(relation, column) = relation.affinities[k]
  BY DEF At, AffinityOf, SameRelation
<1>6. SameCell(cell, relation.affinities[k], relation.rows[id][k])
  BY <1>1 DEF SameRelation
<1> HIDE DEF at, cell, k
<1>7. Side(cell, at) /\ at.affinity = ClassOf(cell)
  BY <1>3, <1>5, <1>6 DEF SameCell, Side
<1> QED BY <1>4, <1>5, <1>6, <1>7 DEF at, cell, k

-----------------------------------------------------------------------------
(* When the two backends agree: the nodes.                                 *)

LEMMA AgreedAnswer ==
  ASSUME NEW bindings \in Catalogs, NEW expr \in Queries(bindings)
  PROVE  /\ expr \in Query /\ QueriesBuilt /\ expr.schema \in Seq(Column)
         /\ Fits(expr.answer, expr.schema)
         /\ expr.answer.error = "none" => expr.answer.schema = expr.schema
<1>1. expr \in Query /\ QueriesBuilt
  BY QueryOver, QueriesAreBuilt
<1> QED BY <1>1, AnswersOf

LEMMA TheirDatabases ==
  ASSUME NEW bindings \in Catalogs PROVE TheDatabases(bindings) \subseteq Database
<1> SUFFICES ASSUME NEW l \in Locations(bindings), l # NoLocation PROVE l \in DOMAIN Databases
  BY DEF TheDatabases, Database
<1>1. PICK b \in ToSet(bindings) : b.kind = "SQLite" /\ b.location = l
  BY DEF Locations
<1>2. IsBinding(b)
  BY <1>1, CatalogType DEF ToSet
<1> QED BY <1>1, <1>2 DEF IsBinding

LEMMA ComparableParts ==
  ASSUME NEW bindings \in Catalogs, NEW expr \in Queries(bindings), Comparable(bindings, expr)
  PROVE  /\ ComparableNode(bindings, expr)
         /\ expr.kind \in {"Select", "Project", "Rename"} => Comparable(bindings, expr.child)
         /\ expr.kind = "Join" => Comparable(bindings, expr.left) /\ Comparable(bindings, expr.right)
<1>1. /\ ComparableNode(bindings, expr)
      /\ \A i \in DOMAIN Children(expr) : Comparable(bindings, Children(expr)[i])
  BY ComparableAssumption
<1> DEFINE children == Children(expr)
<1>2. CASE expr.kind \in {"Select", "Project", "Rename"}
  <2>1. children = <<expr.child>>
    BY <1>2, ChildrenOf
  <2>2. 1 \in DOMAIN children /\ children[1] = expr.child
    BY <2>1
  <2> QED BY <1>1, <1>2, <2>2
<1>3. CASE expr.kind = "Join"
  <2>1. children = <<expr.left, expr.right>>
    BY <1>3, ChildrenOf
  <2>2. 1 \in DOMAIN children /\ children[1] = expr.left /\ 2 \in DOMAIN children /\ children[2] = expr.right
    BY <2>1
  <2> QED BY <1>1, <1>3, <2>2
<1> QED BY <1>1, <1>2, <1>3

\* Of a node on one child, a column comes through when it is the first of its name.
LEMMA KeptFirst ==
  ASSUME NEW bindings \in Catalogs, NEW expr \in Queries(bindings),
         expr.kind \in {"Select", "Rename"}, expr.schema = expr.child.schema,
         NEW k \in KeptColumns(expr, Exact(expr))
  PROVE  k \in DOMAIN expr.schema /\ k = ColumnIndex(expr.schema, expr.schema[k])
<1>1. CASE Exact(expr)
  <2> DEFINE children == Children(expr)
             parts == [i \in DOMAIN children |-> Exact(children[i])]
  <2>1. ExactNode(expr, parts)
    BY <1>1, ExactAssumption
  <2>2. children = <<expr.child>>
    BY ChildrenOf
  <2>3. 1 \in DOMAIN children /\ children[1] = expr.child
    BY <2>2
  <2>4. 1 \in DOMAIN parts
    BY <2>3
  <2>5. Distinct(expr.child.schema)
    <3> HIDE DEF parts
    <3> QED BY <2>1, <2>3, <2>4 DEF ExactNode
  <2> QED BY <2>5 DEF Distinct, KeptColumns
<1>2. CASE ~Exact(expr)
  BY <1>2 DEF KeptColumns
<1> QED BY <1>1, <1>2

LEMMA TableSame ==
  ASSUME NEW expr, expr.schema \in Seq(Column), expr.schema # <<>>,
         NEW file, file.header \in Seq(Column), HeaderHas(file, expr.schema),
         expr.answer.rows = ReadRows(file, expr.schema), NEW table, SameData(file, table)
  PROVE  SameRelation(expr, TableAnswer(table, PhysicalColumns(expr.schema)))
<1> DEFINE schema == expr.schema
           header == file.header
           columns == PhysicalColumns(schema)
           has(k) == SequenceContains(table.columns, columns[k].source)
           place(k) == ColumnIndex(table.columns, columns[k].source)
           cell(row, k) == IF has(k) THEN row[place(k)] ELSE Value("text", NameText(columns[k].source))
           names == [k \in DOMAIN columns |-> columns[k].as]
           affinities == [k \in DOMAIN columns |-> IF has(k) THEN table.affinities[place(k)] ELSE "none"]
           rows == [id \in {<<i>> : i \in DOMAIN table.rows} |->
                      [k \in DOMAIN columns |-> cell(table.rows[id[1]], k)]]
           r == TableAnswer(table, columns)
<1>1. /\ DOMAIN columns = DOMAIN schema
      /\ \A k \in DOMAIN schema : columns[k].as = schema[k] /\ columns[k].source = PhysicalColumn[schema[k]]
  BY DEF PhysicalColumns
<1>2. table.columns = header /\ DOMAIN table.rows = DOMAIN file.rows
  BY DEF SameData
<1>3. \A k \in DOMAIN schema :
        /\ has(k) /\ place(k) = ColumnIndex(header, PhysicalColumn[schema[k]])
        /\ place(k) \in DOMAIN header
  BY <1>1, <1>2, FirstColumn DEF HeaderHas
<1>4. columns # <<>>
  <2> DEFINE none == <<>>
  <2>1. DOMAIN none = {}
    OBVIOUS
  <2>2. 1 \in DOMAIN schema
    <3> DEFINE s == schema
    <3>1. s \in Seq(Column) /\ s # <<>>
      OBVIOUS
    <3> HIDE DEF s
    <3>2. 1 \in DOMAIN s
      BY <3>1
    <3> QED BY <3>2 DEF s
  <2> HIDE DEF none, columns, schema
  <2>3. columns # none
    BY <1>1, <2>1, <2>2
  <2> QED BY <2>3 DEF none
<1>5. r = Relation(names, affinities, rows)
  BY <1>1, <1>3, <1>4 DEF TableAnswer
<1>6. names = schema
  BY <1>1
<1>7. ASSUME NEW i \in DOMAIN file.rows, NEW k \in DOMAIN schema
      PROVE  SameCell(file.rows[i][place(k)], affinities[k], table.rows[i][place(k)])
  <2> DEFINE p == place(k)
             text == file.rows[i][p]
  <2>1. p \in DOMAIN header
    BY <1>3
  <2> HIDE DEF p
  <2>2. /\ text.kind \in {"number", "text"}
        /\ table.affinities[p] = IF text.kind = "number" THEN "numeric" ELSE "text"
        /\ Stores(table.rows[i][p], text)
        /\ AsCompared(CellOf(table.rows[i][p])) = AsCompared(text)
    BY <2>1 DEF SameData
  <2>3. affinities[k] = table.affinities[p]
    BY <1>1, <1>3 DEF p
  <2>4. SameCell(text, affinities[k], table.rows[i][p])
    BY <2>2, <2>3 DEF SameCell, ClassOf
  <2> QED BY <2>4 DEF p
<1>8. /\ DOMAIN rows = DOMAIN expr.answer.rows
      /\ \A i \in DOMAIN file.rows : \A k \in DOMAIN schema :
           /\ rows[<<i>>][k] = table.rows[i][place(k)]
           /\ expr.answer.rows[<<i>>][k] = file.rows[i][place(k)]
  <2> DEFINE ids == {<<i>> : i \in DOMAIN file.rows}
  <2>1. DOMAIN rows = ids /\ DOMAIN expr.answer.rows = ids
    BY <1>2 DEF ReadRows
  <2>2. ASSUME NEW i \in DOMAIN file.rows, NEW k \in DOMAIN schema
        PROVE  /\ rows[<<i>>][k] = table.rows[i][place(k)]
               /\ expr.answer.rows[<<i>>][k] = file.rows[i][place(k)]
    <3> DEFINE id == <<i>>
    <3>1. id \in ids /\ id[1] = i
      OBVIOUS
    <3> HIDE DEF id, ids
    <3>2. rows[id] = [c \in DOMAIN columns |-> cell(table.rows[i], c)]
      BY <2>1, <3>1
    <3>3. rows[id][k] = cell(table.rows[i], k)
      BY <1>1, <3>2
    <3>4. expr.answer.rows[id] =
            [c \in DOMAIN schema |-> file.rows[i][ColumnIndex(header, PhysicalColumn[schema[c]])]]
      BY <2>1, <3>1 DEF ReadRows
    <3>5. expr.answer.rows[id][k] = file.rows[i][place(k)]
      BY <1>3, <3>4
    <3> QED BY <1>3, <3>3, <3>5 DEF id
  <2> QED BY <2>1, <2>2
<1>9. ASSUME NEW id \in DOMAIN expr.answer.rows, NEW k \in KeptColumns(expr, Exact(expr))
      PROVE  SameCell(expr.answer.rows[id][k], affinities[k], rows[id][k])
  <2>1. PICK i \in DOMAIN file.rows : id = <<i>>
    BY DEF ReadRows
  <2>2. k \in DOMAIN schema
    BY DEF KeptColumns
  <2> HIDE DEF rows, affinities, place, schema
  <2> QED BY <1>7, <1>8, <2>1, <2>2
<1> HIDE DEF names, affinities, rows, r
<1> QED BY <1>5, <1>6, <1>8, <1>9, RelationFields DEF SameRelation, r

LEMMA TableAgrees ==
  ASSUME NEW bindings \in Catalogs, NEW expr \in Queries(bindings), expr.kind = "Table",
         ReadsTheSame(bindings, expr)
  PROVE  Agreed(bindings, expr)
<1> DEFINE compiled == Compile(bindings, expr)
           source == FindIn(bindings, expr.name, "SQLite")
           none == <<>>
           file == Files[expr.name]
<1>1. /\ expr.answer.error = "none" /\ expr.schema # <<>> /\ source # <<>>
      /\ OneDatabase(bindings) /\ NoLocation \notin Locations(bindings) /\ TheDatabases(bindings) # {}
      /\ \A database \in TheDatabases(bindings) :
           /\ source[1].physicalName \in DOMAIN database
           /\ SameData(file, database[source[1].physicalName])
  BY DEF ReadsTheSame
<1>2. compiled.error = "none" /\ compiled.parameters = none
  BY <1>1, CompileOf DEF CompileTable, CompiledSql
<1>3. \A k \in DOMAIN compiled.parameters : Convertible(compiled.parameters[k])
  <2>1. DOMAIN none = {}
    OBVIOUS
  <2> HIDE DEF none, compiled
  <2> QED BY <1>2, <2>1
<1>4. /\ expr.schema \in Seq(Column) /\ file.header \in Seq(Column)
      /\ HeaderHas(file, expr.schema) /\ expr.answer.rows = ReadRows(file, expr.schema)
  <2>1. expr \in Query /\ QueriesBuilt /\ expr.schema \in Seq(Column)
    BY AgreedAnswer
  <2>2. /\ expr.name \in TableName /\ HeaderHas(file, expr.schema)
        /\ expr.answer = Answer(expr.schema, ReadRows(file, expr.schema))
    BY <1>1, <2>1, TableAnswers
  <2>3. file \in File
    BY <2>2, FilesAssumption
  <2> QED BY <2>1, <2>2, <2>3 DEF Answer, File
<1>5. ASSUME NEW database \in TheDatabases(bindings)
      PROVE  SameRelation(expr, Has(bindings, database, expr, TRUE))
  <2> DEFINE table == database[source[1].physicalName]
  <2>1. database \in Database
    BY TheirDatabases
  <2>2. Has(bindings, database, expr, TRUE) = TableAnswer(table, PhysicalColumns(expr.schema))
    BY <1>1, <1>2, <2>1, HasTable
  <2>3. SameData(file, table)
    BY <1>1
  <2> HIDE DEF table, file
  <2> QED BY <1>1, <1>4, <2>2, <2>3, TableSame
<1> QED BY <1>1, <1>2, <1>3, <1>5 DEF Agreed

\* A SELECT of columns that agree, for rows that are the same.
LEMMA SelectedSame ==
  ASSUME NEW expr, expr.schema \in Seq(Column), expr.schema # <<>>,
         NEW child, child.schema \in Seq(Column), child.answer.error = "none",
         Fits(child.answer, child.schema), NEW relation, SameRelation(child, relation),
         \A k \in DOMAIN expr.schema : SequenceContains(child.schema, expr.schema[k]),
         DOMAIN expr.answer.rows \subseteq DOMAIN child.answer.rows,
         \A id \in DOMAIN expr.answer.rows : \A k \in KeptColumns(expr, Exact(expr)) :
           expr.answer.rows[id][k] =
             child.answer.rows[id][ColumnIndex(child.schema, expr.schema[k])]
  PROVE  SameRelation(expr, Selected(SelectColumns(expr.schema, "q"), relation,
                                     DOMAIN expr.answer.rows))
<1> DEFINE schema == expr.schema
           ids == DOMAIN expr.answer.rows
           q == "q"
           r == Selected(SelectColumns(schema, q), relation, ids)
           affinities == Affinities(relation, schema)
           rows == Values(relation, schema, ids)
<1>1. /\ schema \in Seq(Column) /\ schema # <<>> /\ relation.error = "none"
      /\ \A k \in DOMAIN schema : SequenceContains(relation.names, schema[k])
  BY DEF SameRelation
<1> HIDE DEF schema, ids, q
<1>2. /\ r.error = "none" <=>
           /\ relation.error = "none" /\ schema # <<>>
           /\ \A k \in DOMAIN schema : SequenceContains(relation.names, schema[k])
      /\ r.error = "none" => r = Relation(schema, affinities, rows)
  BY <1>1, SelectedShape
<1> HIDE DEF r
<1>3. r = Relation(schema, affinities, rows)
  BY <1>1, <1>2
<1>4. ASSUME NEW id \in ids, NEW k \in KeptColumns(expr, Exact(expr))
      PROVE  SameCell(expr.answer.rows[id][k], affinities[k], rows[id][k])
  <2> DEFINE column == schema[k]
             cell == child.answer.rows[id][ColumnIndex(child.schema, column)]
  <2>1. k \in DOMAIN schema
    BY DEF KeptColumns, schema
  <2>2. SequenceContains(child.schema, column) /\ id \in DOMAIN child.answer.rows
    BY <2>1 DEF schema, ids
  <2>3. expr.answer.rows[id][k] = cell
    BY DEF schema, ids
  <2> HIDE DEF column
  <2>4. SameCell(cell, AffinityOf(relation, column), At(relation, id, column).value)
    BY <2>2, NamedCell
  <2>5. affinities[k] = AffinityOf(relation, column) /\ rows[id][k] = At(relation, id, column).value
    BY <2>1 DEF column, Affinities, Values
  <2> QED BY <2>3, <2>4, <2>5
<1>5. DOMAIN rows = ids
  BY DEF Values
<1> HIDE DEF affinities, rows
<1> QED BY <1>3, <1>4, <1>5, RelationFields DEF SameRelation, r, schema, ids, q

\* What every node on one child shares.
LEMMA ChildAgrees ==
  ASSUME NEW bindings \in Catalogs, NEW expr \in Queries(bindings),
         expr.kind \in {"Select", "Project", "Rename"}, Comparable(bindings, expr),
         Comparable(bindings, expr.child) => Agreed(bindings, expr.child)
  PROVE  LET child == expr.child IN
         /\ Agreed(bindings, child) /\ ComparableNode(bindings, expr)
         /\ child \in Queries(bindings) /\ child.schema \in Seq(Column)
         /\ child.answer.error = "none" /\ child.answer.schema = child.schema
         /\ Fits(child.answer, child.schema)
<1>1. ComparableNode(bindings, expr) /\ Agreed(bindings, expr.child)
  BY ComparableParts
<1>2. expr.child \in Queries(bindings)
  BY ChildrenOf
<1> QED BY <1>1, <1>2, AgreedAnswer DEF Agreed

LEMMA ProjectAgrees ==
  ASSUME NEW bindings \in Catalogs, NEW expr \in Queries(bindings),
         expr.kind \in {"Project", "Rename"}, Comparable(bindings, expr),
         Comparable(bindings, expr.child) => Agreed(bindings, expr.child)
  PROVE  Agreed(bindings, expr)
<1> DEFINE child == expr.child
           compiled == Compile(bindings, expr)
           input == child.answer
           schema == expr.schema
<1>1. /\ Agreed(bindings, child) /\ ComparableNode(bindings, expr)
      /\ child \in Queries(bindings) /\ child.schema \in Seq(Column)
      /\ input.error = "none" /\ input.schema = child.schema /\ Fits(input, child.schema)
  BY ChildAgrees
<1>2. expr \in Query /\ QueriesBuilt /\ schema \in Seq(Column) /\ NodeOK(expr, Queries(bindings))
  BY AgreedAnswer, QueryOver
<1>3. /\ compiled.error = "none"
      /\ compiled.parameters = Compile(bindings, child).parameters
  <2>1. compiled.error = "none"
    BY <1>1, CompileOf DEF Agreed, CompileRename, CompileProject, CompiledSql
  <2>2. Compile(bindings, expr).parameters = Compile(bindings, child).parameters
    <3>1. TRUE \in BOOLEAN
      OBVIOUS
    <3>2. compiled = CompileProject(schema, Compile(bindings, child))
      <4>1. CASE expr.kind = "Project"
        BY <1>2, <4>1, CompileOf, ProjectAnswer
      <4>2. CASE expr.kind = "Rename"
        BY <4>2, CompileOf DEF CompileRename
      <4> QED BY <4>1, <4>2
    <3> QED BY <1>1, <3>2 DEF Agreed, CompileProject, CompiledSql
  <2> QED BY <2>1, <2>2
<1>4. /\ expr.answer.error = "none" /\ schema # <<>> /\ DOMAIN expr.answer.rows = DOMAIN input.rows
      /\ \A k \in DOMAIN schema : SequenceContains(child.schema, schema[k])
      /\ \A id \in DOMAIN input.rows : \A k \in KeptColumns(expr, Exact(expr)) :
           expr.answer.rows[id][k] = input.rows[id][ColumnIndex(child.schema, schema[k])]
  <2>1. CASE expr.kind = "Project"
    <3>1. schema = expr.columns /\ schema # <<>>
      BY <1>1, <1>2, <2>1, ProjectAnswer DEF ComparableNode
    <3>2. AllColumnsIncluded(schema, child.schema)
      BY <1>2, <2>1, <3>1 DEF NodeOK, Constructible
    <3>3. expr.answer = Answer(schema, ProjectedRows(schema, input))
      BY <1>1, <1>2, <2>1, <3>1, <3>2, ProjectAnswer
    <3>4. expr.answer.error = "none" /\ expr.answer.rows = ProjectedRows(schema, input)
      BY <3>3 DEF Answer
    <3>5. \A id \in DOMAIN input.rows : \A k \in DOMAIN schema :
            expr.answer.rows[id][k] = input.rows[id][ColumnIndex(child.schema, schema[k])]
      <4> TAKE id \in DOMAIN input.rows
      <4>1. expr.answer.rows[id] = ProjectedRow(schema, child.schema, input.rows[id])
        BY <1>1, <3>4 DEF ProjectedRows
      <4> QED BY <4>1 DEF ProjectedRow
    <3>6. DOMAIN expr.answer.rows = DOMAIN input.rows
      BY <3>4 DEF ProjectedRows
    <3> QED BY <3>1, <3>2, <3>4, <3>5, <3>6 DEF AllColumnsIncluded, KeptColumns
  <2>2. CASE expr.kind = "Rename"
    <3>1. expr.answer = input /\ schema = child.schema
      BY <1>2, <2>2, RenameAnswer DEF SameMeaning
    <3>2. \A k \in KeptColumns(expr, Exact(expr)) : k = ColumnIndex(schema, schema[k])
      BY <2>2, <3>1, KeptFirst
    <3>3. \A k \in DOMAIN schema : SequenceContains(schema, schema[k])
      BY DEF SequenceContains, Positions
    <3> QED BY <1>1, <3>1, <3>2, <3>3 DEF Agreed
  <2> QED BY <2>1, <2>2
<1>5. ASSUME NEW database \in TheDatabases(bindings)
      PROVE  SameRelation(expr, Has(bindings, database, expr, TRUE))
  <2> DEFINE relation == Has(bindings, database, child, TRUE)
  <2>1. database \in Database
    BY TheirDatabases
  <2>2. Has(bindings, database, expr, TRUE) =
          Selected(SelectColumns(schema, "q"), relation, DOMAIN relation.rows)
    BY <1>3, <2>1, HasProject
  <2>3. SameRelation(child, relation)
    BY <1>1 DEF Agreed
  <2>4. DOMAIN relation.rows = DOMAIN expr.answer.rows
    BY <1>4, <2>3 DEF SameRelation
  <2> HIDE DEF relation, child
  <2>5. DOMAIN expr.answer.rows \subseteq DOMAIN child.answer.rows
    BY <1>4
  <2>6. \A id \in DOMAIN expr.answer.rows : \A k \in KeptColumns(expr, Exact(expr)) :
           expr.answer.rows[id][k] =
             child.answer.rows[id][ColumnIndex(child.schema, expr.schema[k])]
    BY <1>4
  <2>7. SameRelation(expr, Selected(SelectColumns(expr.schema, "q"), relation,
                                     DOMAIN expr.answer.rows))
    BY <1>1, <1>2, <1>4, <2>3, <2>5, <2>6, SelectedSame
  <2> QED BY <2>2, <2>4, <2>7
<1> HIDE DEF compiled
<1>6. \A k \in DOMAIN compiled.parameters : Convertible(compiled.parameters[k])
  BY <1>1, <1>3 DEF Agreed
<1> QED BY <1>1, <1>3, <1>4, <1>5, <1>6 DEF Agreed, compiled

\* The right side of a condition, and the rows it chooses.
RightSide(condition, relation, id, value) ==
  IF condition.rightKind = "Literal" THEN [value |-> value, affinity |-> "none"]
  ELSE At(relation, id, condition.rightColumn)

Chosen(condition, relation, value) ==
  {id \in DOMAIN relation.rows :
     SqlCompare(condition.compareOp, At(relation, id, condition.leftColumn),
                RightSide(condition, relation, id, value))}

LEMMA FilteredChosen ==
  ASSUME NEW schema, NEW condition, condition.rightKind \in {"Column", "Literal"},
         NEW child, NEW relation, NEW value, relation.error = "none",
         SequenceContains(relation.names, condition.leftColumn),
         condition.rightKind = "Column" => SequenceContains(relation.names, condition.rightColumn)
  PROVE  Filtered(FilterText(condition, schema, child), relation, value) =
           Selected(SelectColumns(schema, "q"), relation, Chosen(condition, relation, value))
<1> DEFINE text == FilterText(condition, schema, child)
           right(id) == IF text.rightKind = "Literal" THEN [value |-> value, affinity |-> "none"]
                        ELSE At(relation, id, text.right)
           ids == {id \in DOMAIN relation.rows :
                     SqlCompare(text.compareOp, At(relation, id, text.left), right(id))}
<1>1. /\ text.select = SelectColumns(schema, "q") /\ text.left = condition.leftColumn
      /\ text.rightKind = condition.rightKind /\ text.compareOp = condition.compareOp
      /\ condition.rightKind = "Column" => text.right = condition.rightColumn
  BY DEF FilterText
<1> HIDE DEF text
<1>2. \A id : right(id) = RightSide(condition, relation, id, value)
  BY <1>1 DEF RightSide
<1>3. ids = Chosen(condition, relation, value)
  BY <1>1, <1>2 DEF Chosen
<1>4. Filtered(text, relation, value) = Selected(text.select, relation, ids)
  BY <1>1 DEF Filtered, Names
<1> QED BY <1>1, <1>3, <1>4 DEF text

\* SQLite and PredicateEvaluator choose the same rows.
LEMMA SameChoice ==
  ASSUME NEW child, child.schema \in Seq(Column), child.answer.error = "none",
         child.answer.schema = child.schema, Fits(child.answer, child.schema),
         NEW condition \in Condition, Typed(condition, child),
         NEW relation, SameRelation(child, relation)
  PROVE  Chosen(condition, relation, ConditionValue(condition, TRUE)) =
           DOMAIN SelectedRows(condition, child.answer)
<1> DEFINE value == ConditionValue(condition, TRUE)
           schema == child.schema
           rows == child.answer.rows
<1>1. /\ SequenceContains(schema, condition.leftColumn)
      /\ condition.rightKind = "Column" => SequenceContains(schema, condition.rightColumn)
      /\ condition.rightKind \in {"Column", "Literal"}
  BY DEF Typed, Condition
<1>2. DOMAIN relation.rows = DOMAIN rows
  BY DEF SameRelation
<1>3. ASSUME NEW id \in DOMAIN rows
      PROVE  SqlCompare(condition.compareOp, At(relation, id, condition.leftColumn),
                        RightSide(condition, relation, id, value))
               <=> Evaluate(condition, schema, rows[id])
  <2> DEFINE left == RowValue(schema, rows[id], condition.leftColumn)
             right == IF condition.rightKind = "Column"
                      THEN RowValue(schema, rows[id], condition.rightColumn)
                      ELSE condition.rightLiteral
             l == At(relation, id, condition.leftColumn)
             r == RightSide(condition, relation, id, value)
  <2>1. Side(left, l) /\ l.affinity = ClassOf(left)
    <3> DEFINE column == condition.leftColumn
               at == At(relation, id, column)
    <3>1. SequenceContains(child.schema, column) /\ id \in DOMAIN child.answer.rows
      BY <1>1
    <3> HIDE DEF column
    <3>2. /\ Side(RowValue(child.schema, child.answer.rows[id], column), at)
          /\ at.affinity = ClassOf(RowValue(child.schema, child.answer.rows[id], column))
      BY <3>1, NamedCell
    <3> QED BY <3>2 DEF column
  <2>2. left.kind = right.kind
    BY DEF Typed
  <2>3. Side(right, r)
    <3>1. CASE condition.rightKind = "Column"
      <4>1. right = RowValue(schema, rows[id], condition.rightColumn)
            /\ r = At(relation, id, condition.rightColumn)
        BY <3>1 DEF RightSide
      <4>2. Side(RowValue(schema, rows[id], condition.rightColumn),
                 At(relation, id, condition.rightColumn))
        BY <1>1, <3>1, NamedCell
      <4> QED BY <4>1, <4>2
    <3>2. CASE condition.rightKind = "Literal"
      <4> DEFINE literal == condition.rightLiteral
      <4>1. right = literal /\ r = [value |-> value, affinity |-> "none"]
        BY <3>2 DEF RightSide
      <4>2. value = BoundValue(SqlParameter(condition))
        BY <3>2 DEF ConditionValue
      <4>3. literal.kind \in {"number", "text"}
        BY <2>1, <2>2, <4>1 DEF Side
      <4>4. literal \in Cell
        BY DEF Condition, Cell
      <4>5. condition.literalKind \in (IF literal.kind = "number" THEN {"Integer", "Real"} ELSE {"Text"})
        BY <3>2 DEF Typed
      <4>6. Stores(value, literal)
        <5> DEFINE parameter == SqlParameter(condition)
        <5>1. parameter.kind = condition.literalKind /\ parameter.value = literal
          BY DEF SqlParameter
        <5> HIDE DEF parameter, value, literal
        <5>2. CASE literal.kind = "number"
          <6>1. \E class \in {"integer", "real"} : value = Value(class, literal)
            BY <4>2, <4>5, <5>1, <5>2 DEF BoundValue, parameter
          <6> QED BY <5>2, <6>1, ValueFields DEF Stores, IsNumber
        <5>3. CASE literal.kind = "text"
          <6>1. value = Value("text", literal)
            BY <4>2, <4>5, <5>1, <5>3 DEF BoundValue, parameter
          <6> QED BY <5>3, <6>1 DEF Stores
        <5> QED BY <4>3, <5>2, <5>3
      <4> HIDE DEF value, literal, right
      <4>7. r.affinity = "none" /\ r.value = value
        BY <4>1
      <4> QED BY <4>1, <4>3, <4>4, <4>6, <4>7 DEF Side
    <3> QED BY <1>1, <3>1, <3>2
  <2> DEFINE compareOp == condition.compareOp
  <2>4. Evaluate(condition, schema, rows[id])
          <=> ~IsNull(left) /\ ~IsNull(right) /\ Holds(compareOp, CompareValues(left, right))
    BY DEF Evaluate
  <2> HIDE DEF left, right, l, r, compareOp
  <2>5. SqlCompare(compareOp, l, r)
          <=> ~IsNull(left) /\ ~IsNull(right) /\ Holds(compareOp, CompareValues(left, right))
    BY <2>1, <2>2, <2>3, SameComparison
  <2> QED BY <2>4, <2>5 DEF l, r, compareOp
<1>4. DOMAIN SelectedRows(condition, child.answer) =
        {id \in DOMAIN rows : Evaluate(condition, schema, rows[id])}
  BY DEF SelectedRows
<1> HIDE DEF value, schema, rows
<1>5. Chosen(condition, relation, value) =
        {id \in DOMAIN rows : Evaluate(condition, schema, rows[id])}
  BY <1>2, <1>3 DEF Chosen
<1> QED BY <1>4, <1>5 DEF value

LEMMA AllConvertible ==
  ASSUME NEW s \in Seq(Parameter), NEW t \in Seq(Parameter),
         \A k \in DOMAIN s : Convertible(s[k]), \A k \in DOMAIN t : Convertible(t[k])
  PROVE  \A k \in DOMAIN (s \o t) : Convertible((s \o t)[k])
<1> DEFINE u == s \o t
           n == Len(s)
           m == Len(t)
<1>1. /\ u \in Seq(Parameter) /\ Len(u) = n + m
      /\ \A k \in 1..n : u[k] = s[k]
      /\ \A k \in 1..m : u[n + k] = t[k]
  BY ConcatItems
<1>2. n \in Nat /\ m \in Nat /\ DOMAIN s = 1..n /\ DOMAIN t = 1..m
  OBVIOUS
<1> HIDE DEF u, n, m
<1> SUFFICES ASSUME NEW k \in DOMAIN u PROVE Convertible(u[k])
  BY DEF u
<1>3. k \in 1..n + m
  BY <1>1
<1>4. CASE k \in 1..n
  BY <1>1, <1>2, <1>4
<1>5. CASE k \notin 1..n
  <2> DEFINE j == k - n
  <2>1. j \in 1..m /\ k = n + j
    BY <1>2, <1>3, <1>5
  <2> HIDE DEF j
  <2> QED BY <1>1, <1>2, <2>1
<1> QED BY <1>4, <1>5

LEMMA SelectAgrees ==
  ASSUME NEW bindings \in Catalogs, NEW expr \in Queries(bindings),
         expr.kind = "Select", Comparable(bindings, expr),
         Comparable(bindings, expr.child) => Agreed(bindings, expr.child)
  PROVE  Agreed(bindings, expr)
<1> DEFINE child == expr.child
           condition == expr.condition
           compiled == Compile(bindings, expr)
           childs == Compile(bindings, child)
           input == child.answer
           schema == expr.schema
<1>1. /\ Agreed(bindings, child) /\ Typed(condition, child)
      /\ child \in Queries(bindings) /\ child.schema \in Seq(Column)
      /\ input.error = "none" /\ input.schema = child.schema /\ Fits(input, child.schema)
  BY ChildAgrees DEF ComparableNode
<1>2. /\ expr \in Query /\ QueriesBuilt /\ schema \in Seq(Column) /\ condition \in Condition
  BY AgreedAnswer, QueryOver DEF NodeOK, LabelOK
<1>3. ~condition.raw
  BY <1>1 DEF Typed
<1>4. schema = child.schema /\ expr.answer = Answer(schema, SelectedRows(condition, input))
  BY <1>1, <1>2, <1>3, SelectAnswer
<1>5. /\ compiled.error = "none" /\ childs.error = "none"
      /\ compiled.parameters =
           childs.parameters \o (IF condition.rightKind = "Column" THEN <<>>
                                 ELSE <<SqlParameter(condition)>>)
  <2>1. compiled = CompileSelect(condition, schema, childs)
    BY CompileOf
  <2>2. childs.error = "none"
    BY <1>1 DEF Agreed
  <2> HIDE DEF compiled, childs, condition, schema
  <2> QED BY <1>3, <2>1, <2>2 DEF CompileSelect, CompiledSql
<1>6. \A k \in DOMAIN compiled.parameters : Convertible(compiled.parameters[k])
  <2> DEFINE given == childs.parameters
             one == <<SqlParameter(condition)>>
             none == <<>>
             more == IF condition.rightKind = "Column" THEN none ELSE one
  <2>1. compiled.parameters = given \o more
    BY <1>5
  <2>2. given \in Seq(Parameter) /\ \A k \in DOMAIN given : Convertible(given[k])
    BY <1>1, Compiles DEF Agreed, CompiledWell
  <2>3. more \in Seq(Parameter) /\ \A k \in DOMAIN more : Convertible(more[k])
    <3>1. CASE condition.rightKind = "Column"
      BY <3>1
    <3>2. CASE condition.rightKind # "Column"
      <4>1. condition.literalKind \in (IF condition.rightLiteral.kind = "number"
                                       THEN {"Integer", "Real"} ELSE {"Text"})
        BY <1>1, <1>2, <3>2 DEF Typed, Condition
      <4>2. Convertible(SqlParameter(condition))
        BY <4>1 DEF Convertible, SqlParameter, ParsesAsNumber
      <4>3. SqlParameter(condition) \in Parameter
        BY <1>2 DEF SqlParameter, Parameter, Condition
      <4>4. one \in Seq(Parameter) /\ DOMAIN one = {1} /\ one[1] = SqlParameter(condition)
        BY <4>3
      <4> QED BY <3>2, <4>2, <4>4
    <3> QED BY <3>1, <3>2
  <2> HIDE DEF given, more, compiled
  <2> QED BY <2>1, <2>2, <2>3, AllConvertible
<1>7. /\ expr.answer.error = "none" /\ expr.answer.rows = SelectedRows(condition, input)
      /\ schema # <<>>
  BY <1>1, <1>4 DEF Answer, Agreed
<1>8. ASSUME NEW database \in TheDatabases(bindings)
      PROVE  SameRelation(expr, Has(bindings, database, expr, TRUE))
  <2> DEFINE relation == Has(bindings, database, child, TRUE)
             ids == DOMAIN expr.answer.rows
  <2>1. database \in Database
    BY TheirDatabases
  <2>2. Has(bindings, database, expr, TRUE) =
          Filtered(FilterText(condition, schema, childs), relation, ConditionValue(condition, TRUE))
    BY <1>5, <2>1, HasSelect
  <2>3. SameRelation(child, relation)
    BY <1>1 DEF Agreed
  <2> HIDE DEF relation, child, condition, childs
  <2>4. Chosen(condition, relation, ConditionValue(condition, TRUE)) = ids
    BY <1>1, <1>2, <1>7, <2>3, SameChoice
  <2>5. Has(bindings, database, expr, TRUE) = Selected(SelectColumns(schema, "q"), relation, ids)
    <3>1. relation.error = "none" /\ relation.names = child.schema
      BY <2>3 DEF SameRelation
    <3>2. /\ SequenceContains(relation.names, condition.leftColumn)
          /\ condition.rightKind = "Column" => SequenceContains(relation.names, condition.rightColumn)
          /\ condition.rightKind \in {"Column", "Literal"}
      BY <1>1, <1>2, <3>1 DEF Typed, Condition
    <3> DEFINE value == ConditionValue(condition, TRUE)
               text == FilterText(condition, schema, childs)
    <3> HIDE DEF value
    <3>3. Filtered(text, relation, value) =
            Selected(SelectColumns(schema, "q"), relation, Chosen(condition, relation, value))
      BY <3>1, <3>2, FilteredChosen
    <3> QED BY <2>2, <2>4, <3>3 DEF value
  <2>6. /\ ids \subseteq DOMAIN child.answer.rows
        /\ \A id \in ids : expr.answer.rows[id] = child.answer.rows[id]
    BY <1>7 DEF SelectedRows
  <2>7. \A k \in KeptColumns(expr, Exact(expr)) : k = ColumnIndex(child.schema, schema[k])
    BY <1>4, KeptFirst DEF child
  <2>8. \A k \in DOMAIN schema : SequenceContains(child.schema, schema[k])
    BY <1>4 DEF SequenceContains, Positions
  <2>9. \A id \in ids : \A k \in KeptColumns(expr, Exact(expr)) :
           expr.answer.rows[id][k] = child.answer.rows[id][ColumnIndex(child.schema, schema[k])]
    BY <2>6, <2>7
  <2>10. SameRelation(expr, Selected(SelectColumns(expr.schema, "q"), relation,
                                     DOMAIN expr.answer.rows))
    BY <1>1, <1>2, <1>7, <2>3, <2>6, <2>8, <2>9, SelectedSame
  <2> QED BY <2>5, <2>10
<1> HIDE DEF compiled
<1> QED BY <1>1, <1>5, <1>6, <1>7, <1>8 DEF Agreed, compiled

\* A column of a join that comes through is one of a side, and the first of
\* its name there.
LEMMA KeptOfJoin ==
  ASSUME NEW bindings \in Catalogs, NEW expr \in Queries(bindings), expr.kind = "Join",
         NEW left \in Seq(Column), NEW right \in Seq(Column),
         left = expr.left.schema, right = expr.right.schema, expr.schema = left \o right,
         NEW k \in KeptColumns(expr, Exact(expr))
  PROVE  \/ k \in 1..Len(left) /\ k = ColumnIndex(left, left[k])
         \/ \E j \in 1..Len(right) : k = Len(left) + j /\ j = ColumnIndex(right, right[j])
<1> DEFINE schema == left \o right
           n == Len(left)
           m == Len(right)
<1>1. /\ schema \in Seq(Column) /\ Len(schema) = n + m
      /\ \A i \in 1..n : schema[i] = left[i]
      /\ \A i \in 1..m : schema[n + i] = right[i]
  <2>1. schema \in Seq(Column) /\ Len(schema) = n + m
    BY ConcatItems
  <2>2. \A i \in 1..n : schema[i] = left[i]
    BY ONLY left \in Seq(Column), right \in Seq(Column), ConcatItems
  <2>3. \A i \in 1..m : schema[n + i] = right[i]
    BY ONLY left \in Seq(Column), right \in Seq(Column), ConcatItems
  <2> QED BY <2>1, <2>2, <2>3
<1>2. n \in Nat /\ m \in Nat /\ DOMAIN left = 1..n /\ DOMAIN right = 1..m
  OBVIOUS
<1>3. k \in DOMAIN schema
  BY DEF KeptColumns
<1> HIDE DEF schema, n, m
<1>4. DOMAIN schema = 1..n + m /\ k \in 1..n + m
  BY <1>1, <1>3
<1>5. CASE Exact(expr)
  <2> DEFINE children == Children(expr)
             parts == [i \in DOMAIN children |-> Exact(children[i])]
  <2>1. ExactNode(expr, parts)
    BY <1>5, ExactAssumption
  <2>2. children = <<expr.left, expr.right>>
    BY ChildrenOf
  <2>3. 1 \in DOMAIN children /\ children[1] = expr.left /\ 2 \in DOMAIN children /\ children[2] = expr.right
    BY <2>2
  <2>4. 1 \in DOMAIN parts /\ 2 \in DOMAIN parts
    BY <2>3
  <2>5. Distinct(left) /\ Distinct(right)
    <3> HIDE DEF parts
    <3> QED BY <2>1, <2>3, <2>4 DEF ExactNode
  <2>6. CASE k \in 1..n
    BY <1>2, <2>5, <2>6 DEF Distinct, n
  <2>7. CASE k \notin 1..n
    <3> DEFINE j == k - n
    <3>1. j \in 1..m /\ k = n + j
      BY <1>2, <1>4, <2>7
    <3> HIDE DEF j
    <3>2. j = ColumnIndex(right, right[j])
      BY <1>2, <2>5, <3>1 DEF Distinct
    <3> QED BY <3>1, <3>2 DEF n, m
  <2> QED BY <2>6, <2>7
<1>6. CASE ~Exact(expr)
  <2>1. k = ColumnIndex(schema, schema[k])
    BY <1>6 DEF KeptColumns, schema
  <2> DEFINE column == schema[k]
  <2>2. \A i \in 1..n + m : schema[i] = column => k <= i
    <3>1. Positions(schema, column) # {}
      BY <1>3 DEF Positions
    <3> HIDE DEF column
    <3>2. \A i \in Positions(schema, column) : ColumnIndex(schema, column) <= i
      BY <1>1, <3>1, IndexFound
    <3> QED BY <1>4, <2>1, <3>2 DEF Positions, column
  <2>3. CASE k \in 1..n
    <3>1. left[k] = column
      BY <1>1, <2>3
    <3> DEFINE i == ColumnIndex(left, column)
    <3> HIDE DEF column
    <3>2. Positions(left, column) # {}
      BY <1>2, <2>3, <3>1 DEF Positions
    <3>3. i \in Positions(left, column) /\ \A p \in Positions(left, column) : i <= p
      BY <3>2, IndexFound
    <3> HIDE DEF i
    <3>4. i \in 1..n /\ left[i] = column /\ i <= k
      BY <1>2, <2>3, <3>1, <3>3 DEF Positions
    <3>5. k <= i
      BY <1>1, <1>2, <2>2, <3>4
    <3>6. k = i
      BY <1>2, <2>3, <3>4, <3>5
    <3> QED BY <2>3, <3>1, <3>6 DEF i, n
  <2>4. CASE k \notin 1..n
    <3> DEFINE j == k - n
    <3>1. j \in 1..m /\ k = n + j
      BY <1>2, <1>4, <2>4
    <3> HIDE DEF j
    <3>2. right[j] = column
      BY <1>1, <3>1
    <3> DEFINE i == ColumnIndex(right, column)
    <3> HIDE DEF column
    <3>3. Positions(right, column) # {}
      BY <1>2, <3>1, <3>2 DEF Positions
    <3>4. i \in Positions(right, column) /\ \A p \in Positions(right, column) : i <= p
      BY <3>3, IndexFound
    <3> HIDE DEF i
    <3>5. i \in 1..m /\ right[i] = column /\ i <= j
      BY <1>2, <3>1, <3>2, <3>4 DEF Positions
    <3>6. schema[n + i] = column /\ n + i \in 1..n + m
      BY <1>1, <1>2, <3>5
    <3>7. k <= n + i
      BY <2>2, <3>6
    <3>8. j = i
      BY <1>2, <3>1, <3>5, <3>7
    <3> QED BY <3>1, <3>2, <3>8 DEF i, n, m
  <2> QED BY <2>3, <2>4
<1> QED BY <1>5, <1>6

\* SQLite and executeJoin join the same pairs.
LEMMA SameMatches ==
  ASSUME NEW left, left.schema \in Seq(Column), left.answer.error = "none",
         left.answer.schema = left.schema, Fits(left.answer, left.schema),
         NEW right, right.schema \in Seq(Column), right.answer.error = "none",
         right.answer.schema = right.schema, Fits(right.answer, right.schema),
         NEW l, SameRelation(left, l), NEW r, SameRelation(right, r),
         NEW expr, expr.left = left, expr.right = right, SameKeys(expr),
         NEW text, text.left = expr.leftColumn, text.right = expr.rightColumn
  PROVE  Matches(text, l, r) =
           MatchingRows(left.answer, right.answer, expr.leftColumn, expr.rightColumn)
<1> DEFINE c == expr.leftColumn
           d == expr.rightColumn
           rows == left.answer.rows
           others == right.answer.rows
<1>1. SequenceContains(left.schema, c) /\ SequenceContains(right.schema, d)
  BY DEF SameKeys
<1>2. DOMAIN l.rows = DOMAIN rows /\ DOMAIN r.rows = DOMAIN others
  BY DEF SameRelation
<1>3. ASSUME NEW a \in DOMAIN rows, NEW b \in DOMAIN others
      PROVE  SqlCompare("Equal", At(l, a, c), At(r, b, d))
               <=> KeysMatch(rows[a][ColumnIndex(left.schema, c)],
                             others[b][ColumnIndex(right.schema, d)])
  <2> DEFINE key == RowValue(left.schema, rows[a], c)
             other == RowValue(right.schema, others[b], d)
             x == At(l, a, c)
             y == At(r, b, d)
  <2>1. \/ key.bytes = other.bytes
        \/ key.kind = "number" /\ other.kind = "number" /\ key.num = other.num
        => key = other
    BY DEF SameKeys
  <2> HIDE DEF c, d
  <2>2. /\ Side(key, x) /\ x.affinity = ClassOf(key)
        /\ key = rows[a][ColumnIndex(left.schema, c)]
    <3>1. SequenceContains(left.schema, c) /\ a \in DOMAIN left.answer.rows
      BY <1>1
    <3>2. /\ RowValue(left.schema, left.answer.rows[a], c) =
               left.answer.rows[a][ColumnIndex(left.schema, c)]
          /\ Side(RowValue(left.schema, left.answer.rows[a], c), x)
          /\ x.affinity = ClassOf(RowValue(left.schema, left.answer.rows[a], c))
      BY ONLY left.schema \in Seq(Column), left.answer.error = "none",
         Fits(left.answer, left.schema), SameRelation(left, l), <3>1, NamedCell
    <3> QED BY <3>2
  <2>3. /\ Side(other, y) /\ y.affinity = ClassOf(other)
        /\ other = others[b][ColumnIndex(right.schema, d)]
    <3>1. SequenceContains(right.schema, d) /\ b \in DOMAIN right.answer.rows
      BY <1>1
    <3>2. /\ RowValue(right.schema, right.answer.rows[b], d) =
               right.answer.rows[b][ColumnIndex(right.schema, d)]
          /\ Side(RowValue(right.schema, right.answer.rows[b], d), y)
          /\ y.affinity = ClassOf(RowValue(right.schema, right.answer.rows[b], d))
      BY ONLY right.schema \in Seq(Column), right.answer.error = "none",
         Fits(right.answer, right.schema), SameRelation(right, r), <3>1, NamedCell
    <3> QED BY <3>2
  <2> HIDE DEF key, other, x, y
  <2>4. SqlCompare("Equal", x, y) <=> KeysMatch(key, other)
    BY <2>1, <2>2, <2>3, SameKeyComparison
  <2> QED BY <2>2, <2>3, <2>4 DEF x, y
<1>4. MatchingRows(left.answer, right.answer, c, d) =
        {pair \in (DOMAIN rows) \X (DOMAIN others) :
           KeysMatch(rows[pair[1]][ColumnIndex(left.schema, c)],
                     others[pair[2]][ColumnIndex(right.schema, d)])}
  BY DEF MatchingRows
<1>5. Matches(text, l, r) =
        {pair \in (DOMAIN rows) \X (DOMAIN others) :
           SqlCompare("Equal", At(l, pair[1], c), At(r, pair[2], d))}
  BY <1>2 DEF Matches
<1>6. \A pair \in (DOMAIN rows) \X (DOMAIN others) :
        /\ pair[1] \in DOMAIN rows /\ pair[2] \in DOMAIN others
  OBVIOUS
<1> HIDE DEF c, d, rows, others
<1>7. Matches(text, l, r) = MatchingRows(left.answer, right.answer, c, d)
  BY <1>3, <1>4, <1>5, <1>6
<1> QED BY <1>7 DEF c, d

\* The columns of a join: a column of a side, in a row of that side.
LEMMA JoinedIs ==
  ASSUME NEW text, NEW l, NEW r, l.error = "none", r.error = "none",
         SequenceContains(l.names, text.left), SequenceContains(r.names, text.right),
         \A k \in DOMAIN text.select :
           \/ text.select[k].side = "l" /\ SequenceContains(l.names, text.select[k].source)
           \/ text.select[k].side = "r" /\ SequenceContains(r.names, text.select[k].source)
  PROVE  LET columns == text.select
             relation == Joined(text, l, r)
         IN  /\ relation.error = "none" /\ relation.names = [k \in DOMAIN columns |-> columns[k].as]
             /\ DOMAIN relation.rows = Matches(text, l, r)
             /\ \A k \in DOMAIN columns :
                  columns[k].side = "l" =>
                    /\ relation.affinities[k] = AffinityOf(l, columns[k].source)
                    /\ \A pair \in Matches(text, l, r) :
                         relation.rows[pair][k] = At(l, pair[1], columns[k].source).value
             /\ \A k \in DOMAIN columns :
                  columns[k].side = "r" =>
                    /\ relation.affinities[k] = AffinityOf(r, columns[k].source)
                    /\ \A pair \in Matches(text, l, r) :
                         relation.rows[pair][k] = At(r, pair[2], columns[k].source).value
<1> DEFINE columns == text.select
           side(k) == IF columns[k].side = "l" THEN l ELSE r
           row(pair, k) == IF columns[k].side = "l" THEN pair[1] ELSE pair[2]
           names == [k \in DOMAIN columns |-> columns[k].as]
           affinities == [k \in DOMAIN columns |-> AffinityOf(side(k), columns[k].source)]
           rows == [pair \in Matches(text, l, r) |->
                      [k \in DOMAIN columns |-> At(side(k), row(pair, k), columns[k].source).value]]
           relation == Joined(text, l, r)
<1>1. relation = Relation(names, affinities, rows)
  BY DEF Joined, Names
<1>2. DOMAIN rows = Matches(text, l, r)
  OBVIOUS
<1>3. ASSUME NEW k \in DOMAIN columns, columns[k].side = "l"
      PROVE  /\ affinities[k] = AffinityOf(l, columns[k].source)
             /\ \A pair \in Matches(text, l, r) : rows[pair][k] = At(l, pair[1], columns[k].source).value
  BY <1>3
<1>4. ASSUME NEW k \in DOMAIN columns, columns[k].side = "r"
      PROVE  /\ affinities[k] = AffinityOf(r, columns[k].source)
             /\ \A pair \in Matches(text, l, r) : rows[pair][k] = At(r, pair[2], columns[k].source).value
  BY <1>4
<1> HIDE DEF names, affinities, rows, relation
<1>5. /\ relation.error = "none" /\ relation.names = names
      /\ relation.affinities = affinities /\ relation.rows = rows
  BY <1>1, RelationFields
<1> QED BY <1>2, <1>3, <1>4, <1>5 DEF relation, names

\* A pair of rows beside each other.
LEMMA BesideEachOther ==
  ASSUME NEW left \in Seq(Column), NEW right \in Seq(Column),
         NEW a \in [DOMAIN left -> Cell], NEW b \in [DOMAIN right -> Cell]
  PROVE  /\ \A k \in 1..Len(left) : (a \o b)[k] = a[k]
         /\ \A k \in 1..Len(right) : (a \o b)[Len(left) + k] = b[k]
<1>1. a \in Seq(Cell) /\ Len(a) = Len(left) /\ b \in Seq(Cell) /\ Len(b) = Len(right)
  OBVIOUS
<1>2. /\ \A k \in 1..Len(a) : (a \o b)[k] = a[k]
      /\ \A k \in 1..Len(b) : (a \o b)[Len(a) + k] = b[k]
  <2>1. \A k \in 1..Len(a) : (a \o b)[k] = a[k]
    BY ONLY a \in Seq(Cell), b \in Seq(Cell), <1>1, ConcatItems
  <2>2. \A k \in 1..Len(b) : (a \o b)[Len(a) + k] = b[k]
    BY ONLY a \in Seq(Cell), b \in Seq(Cell), <1>1, ConcatItems
  <2> QED BY <2>1, <2>2
<1> QED BY <1>1, <1>2

\* SQLite joins sides that agree as executeJoin does.
LEMMA JoinedSame ==
  ASSUME NEW left, left.schema \in Seq(Column), left.answer.error = "none",
         left.answer.schema = left.schema, Fits(left.answer, left.schema),
         NEW right, right.schema \in Seq(Column), right.answer.error = "none",
         right.answer.schema = right.schema, Fits(right.answer, right.schema),
         NEW l, SameRelation(left, l), NEW r, SameRelation(right, r),
         NEW expr, expr.left = left, expr.right = right, SameKeys(expr),
         expr.schema = left.schema \o right.schema,
         expr.answer.rows = JoinedRows(left.answer, right.answer, expr.leftColumn, expr.rightColumn),
         \A k \in KeptColumns(expr, Exact(expr)) :
           \/ k \in 1..Len(left.schema) /\ k = ColumnIndex(left.schema, left.schema[k])
           \/ \E j \in 1..Len(right.schema) :
                k = Len(left.schema) + j /\ j = ColumnIndex(right.schema, right.schema[j]),
         NEW text, text.left = expr.leftColumn, text.right = expr.rightColumn,
         text.select = SelectColumns(left.schema, "l") \o SelectColumns(right.schema, "r"),
         \A k \in DOMAIN expr.schema : text.select[k].as = expr.schema[k]
  PROVE  SameRelation(expr, Joined(text, l, r))
<1> DEFINE a == left.schema
           b == right.schema
           n == Len(a)
           m == Len(b)
           schema == a \o b
           columns == text.select
           pairs == Matches(text, l, r)
           relation == Joined(text, l, r)
<1>1. /\ DOMAIN columns = DOMAIN schema
      /\ \A k \in DOMAIN columns : columns[k].as = schema[k]
      /\ DOMAIN columns = 1..n + m /\ n \in Nat /\ m \in Nat
      /\ \A k \in 1..n : columns[k].side = "l" /\ columns[k].source = a[k]
      /\ \A k \in 1..m : columns[n + k].side = "r" /\ columns[n + k].source = b[k]
  <2>1. /\ \A k \in DOMAIN schema : columns[k].as = schema[k]
        /\ columns = SelectColumns(a, "l") \o SelectColumns(b, "r")
    OBVIOUS
  <2>7. a \in Seq(Column) /\ b \in Seq(Column)
    OBVIOUS
  <2> HIDE DEF columns, schema, a, b, n, m
  <2> DEFINE c == SelectColumns(a, "l") \o SelectColumns(b, "r")
  <2>2. DOMAIN c = DOMAIN (a \o b)
    BY ONLY <2>7, JoinedColumns
  <2>3. \A k \in DOMAIN c : c[k].as = (a \o b)[k]
    BY <2>1, <2>2 DEF schema
  <2>4. DOMAIN c = 1..Len(a) + Len(b) /\ Len(a) \in Nat /\ Len(b) \in Nat
    BY ONLY <2>7, JoinedColumns
  <2>5. \A k \in 1..Len(a) : c[k].side = "l" /\ c[k].source = a[k]
    BY ONLY <2>7, JoinedColumns
  <2>6. \A k \in 1..Len(b) : c[Len(a) + k].side = "r" /\ c[Len(a) + k].source = b[k]
    BY ONLY <2>7, JoinedColumns
  <2> HIDE DEF c
  <2> QED BY <2>1, <2>2, <2>3, <2>4, <2>5, <2>6 DEF c, schema, n, m
<1>2. /\ l.error = "none" /\ l.names = a /\ r.error = "none" /\ r.names = b
      /\ SequenceContains(a, expr.leftColumn) /\ SequenceContains(b, expr.rightColumn)
  BY DEF SameRelation, SameKeys
<1>3. pairs = DOMAIN expr.answer.rows
  <2>1. pairs = MatchingRows(left.answer, right.answer, expr.leftColumn, expr.rightColumn)
    BY SameMatches
  <2> QED BY <2>1 DEF JoinedRows
<1>4. /\ DOMAIN a = 1..n /\ DOMAIN b = 1..m
      /\ \A k \in 1..n : SequenceContains(a, a[k])
      /\ \A k \in 1..m : SequenceContains(b, b[k])
  BY DEF SequenceContains, Positions
<1>5. ASSUME NEW pair \in pairs
      PROVE  /\ pair[1] \in DOMAIN left.answer.rows /\ pair[2] \in DOMAIN right.answer.rows
             /\ \A k \in 1..n : expr.answer.rows[pair][k] = left.answer.rows[pair[1]][k]
             /\ \A k \in 1..m : expr.answer.rows[pair][n + k] = right.answer.rows[pair[2]][k]
  <2> DEFINE x == left.answer.rows[pair[1]]
             y == right.answer.rows[pair[2]]
  <2>1. /\ pair[1] \in DOMAIN left.answer.rows /\ pair[2] \in DOMAIN right.answer.rows
        /\ expr.answer.rows[pair] = x \o y
    <3> DEFINE matching == MatchingRows(left.answer, right.answer, expr.leftColumn, expr.rightColumn)
               rows == JoinedRows(left.answer, right.answer, expr.leftColumn, expr.rightColumn)
    <3>1. pair \in matching
      BY <1>3 DEF JoinedRows
    <3>2. pair[1] \in DOMAIN left.answer.rows /\ pair[2] \in DOMAIN right.answer.rows
      BY <3>1 DEF MatchingRows
    <3>3. rows[pair] = x \o y
      <4> HIDE DEF matching
      <4> QED BY <3>1 DEF JoinedRows, matching
    <3> QED BY <3>2, <3>3
  <2>2. x \in [DOMAIN a -> Cell] /\ y \in [DOMAIN b -> Cell]
    BY <2>1 DEF Fits
  <2> HIDE DEF x, y
  <2>3. \A k \in 1..n : (x \o y)[k] = x[k]
    BY ONLY a \in Seq(Column), b \in Seq(Column), <2>2, BesideEachOther
  <2>4. \A k \in 1..m : (x \o y)[n + k] = y[k]
    BY ONLY a \in Seq(Column), b \in Seq(Column), <2>2, BesideEachOther DEF n, m
  <2> QED BY <2>1, <2>3, <2>4 DEF x, y
<1> HIDE DEF n, m, schema, columns, pairs, relation
<1>6. \A k \in DOMAIN columns :
        \/ columns[k].side = "l" /\ SequenceContains(l.names, columns[k].source)
        \/ columns[k].side = "r" /\ SequenceContains(r.names, columns[k].source)
  <2> SUFFICES ASSUME NEW k \in 1..n + m
               PROVE  \/ columns[k].side = "l" /\ SequenceContains(l.names, columns[k].source)
                      \/ columns[k].side = "r" /\ SequenceContains(r.names, columns[k].source)
    BY <1>1
  <2>1. CASE k \in 1..n
    BY <1>1, <1>2, <1>4, <2>1
  <2>2. CASE k \notin 1..n
    <3> DEFINE j == k - n
    <3>1. j \in 1..m /\ k = n + j
      BY <1>1, <2>2
    <3> HIDE DEF j
    <3> QED BY <1>1, <1>2, <1>4, <3>1
  <2> QED BY <2>1, <2>2
<1>7. /\ relation.error = "none" /\ relation.names = [k \in DOMAIN columns |-> columns[k].as]
      /\ DOMAIN relation.rows = pairs
      /\ \A k \in DOMAIN columns :
           columns[k].side = "l" =>
             /\ relation.affinities[k] = AffinityOf(l, columns[k].source)
             /\ \A pair \in pairs : relation.rows[pair][k] = At(l, pair[1], columns[k].source).value
      /\ \A k \in DOMAIN columns :
           columns[k].side = "r" =>
             /\ relation.affinities[k] = AffinityOf(r, columns[k].source)
             /\ \A pair \in pairs : relation.rows[pair][k] = At(r, pair[2], columns[k].source).value
  <2>1. /\ SequenceContains(l.names, text.left) /\ SequenceContains(r.names, text.right)
        /\ \A k \in DOMAIN text.select :
             \/ text.select[k].side = "l" /\ SequenceContains(l.names, text.select[k].source)
             \/ text.select[k].side = "r" /\ SequenceContains(r.names, text.select[k].source)
    BY <1>2, <1>6 DEF columns
  <2> QED BY ONLY <1>2, <2>1, JoinedIs DEF columns, pairs, relation
<1>8. [k \in DOMAIN columns |-> columns[k].as] = schema
  <2>1. schema \in Seq(Column)
    BY ONLY left.schema \in Seq(Column), right.schema \in Seq(Column), ConcatItems DEF schema
  <2>2. schema = [k \in DOMAIN schema |-> schema[k]]
    BY <2>1
  <2> QED BY <1>1, <2>2
<1>9. ASSUME NEW pair \in pairs, NEW k \in KeptColumns(expr, Exact(expr))
      PROVE  SameCell(expr.answer.rows[pair][k], relation.affinities[k], relation.rows[pair][k])
  <2>1. CASE k \in 1..n /\ k = ColumnIndex(a, a[k])
    <3> DEFINE column == a[k]
               id == pair[1]
    <3>1. SequenceContains(left.schema, column) /\ id \in DOMAIN left.answer.rows
      BY <1>4, <1>5, <2>1
    <3>2. /\ k \in DOMAIN columns /\ columns[k].side = "l" /\ columns[k].source = column
          /\ ColumnIndex(a, column) = k
      BY <1>1, <2>1
    <3>3. expr.answer.rows[pair][k] = left.answer.rows[id][k]
      BY <1>5, <2>1
    <3> HIDE DEF column, id
    <3>4. relation.affinities[k] = AffinityOf(l, column)
          /\ relation.rows[pair][k] = At(l, id, column).value
      BY <1>7, <3>2 DEF id
    <3>5. /\ RowValue(left.schema, left.answer.rows[id], column) =
               left.answer.rows[id][ColumnIndex(left.schema, column)]
          /\ SameCell(RowValue(left.schema, left.answer.rows[id], column), AffinityOf(l, column),
                      At(l, id, column).value)
      BY ONLY left.schema \in Seq(Column), left.answer.error = "none",
         Fits(left.answer, left.schema), SameRelation(left, l), <3>1, NamedCell
    <3> QED BY <3>2, <3>3, <3>4, <3>5
  <2>2. ASSUME NEW j \in 1..m, k = n + j, j = ColumnIndex(b, b[j])
        PROVE  SameCell(expr.answer.rows[pair][k], relation.affinities[k], relation.rows[pair][k])
    <3> DEFINE column == b[j]
               id == pair[2]
    <3>1. SequenceContains(right.schema, column) /\ id \in DOMAIN right.answer.rows
      BY <1>4, <1>5, <2>2
    <3>2. /\ k \in DOMAIN columns /\ columns[k].side = "r" /\ columns[k].source = column
          /\ ColumnIndex(b, column) = j
      BY <1>1, <2>2
    <3>3. expr.answer.rows[pair][k] = right.answer.rows[id][j]
      BY <1>5, <2>2
    <3> HIDE DEF column, id
    <3>4. relation.affinities[k] = AffinityOf(r, column)
          /\ relation.rows[pair][k] = At(r, id, column).value
      BY <1>7, <3>2 DEF id
    <3>5. /\ RowValue(right.schema, right.answer.rows[id], column) =
               right.answer.rows[id][ColumnIndex(right.schema, column)]
          /\ SameCell(RowValue(right.schema, right.answer.rows[id], column), AffinityOf(r, column),
                      At(r, id, column).value)
      BY ONLY right.schema \in Seq(Column), right.answer.error = "none",
         Fits(right.answer, right.schema), SameRelation(right, r), <3>1, NamedCell
    <3> QED BY <3>2, <3>3, <3>4, <3>5
  <2> QED BY <2>1, <2>2 DEF n, m
<1> QED BY <1>3, <1>7, <1>8, <1>9 DEF SameRelation, relation, schema

LEMMA JoinAgrees ==
  ASSUME NEW bindings \in Catalogs, NEW expr \in Queries(bindings),
         expr.kind = "Join", Comparable(bindings, expr),
         Comparable(bindings, expr.left) => Agreed(bindings, expr.left),
         Comparable(bindings, expr.right) => Agreed(bindings, expr.right)
  PROVE  Agreed(bindings, expr)
<1> DEFINE left == expr.left
           right == expr.right
           compiled == Compile(bindings, expr)
           lefts == Compile(bindings, left)
           rights == Compile(bindings, right)
           schema == expr.schema
<1>1. Agreed(bindings, left) /\ Agreed(bindings, right) /\ SameKeys(expr)
  BY ComparableParts DEF ComparableNode
<1>2. left \in Queries(bindings) /\ right \in Queries(bindings)
  BY ChildrenOf
<1>3. /\ left.schema \in Seq(Column) /\ left.answer.error = "none"
      /\ left.answer.schema = left.schema /\ Fits(left.answer, left.schema)
  BY <1>1, <1>2, AgreedAnswer DEF Agreed
<1>4. /\ right.schema \in Seq(Column) /\ right.answer.error = "none"
      /\ right.answer.schema = right.schema /\ Fits(right.answer, right.schema)
  BY <1>1, <1>2, AgreedAnswer DEF Agreed
<1>5. /\ schema = left.schema \o right.schema
      /\ expr.answer.error = "none"
      /\ expr.answer.rows = JoinedRows(left.answer, right.answer, expr.leftColumn, expr.rightColumn)
  <2>1. /\ schema = left.schema \o right.schema
        /\ expr.answer = Answer(schema, JoinedRows(left.answer, right.answer, expr.leftColumn,
                                                   expr.rightColumn))
    BY <1>1, <1>3, <1>4, AgreedAnswer, JoinAnswer DEF SameKeys
  <2> QED BY <2>1 DEF Answer
<1>6. schema # <<>>
  BY <1>1, <1>3, <1>4, <1>5, ConcatIsEmpty DEF Agreed
<1>7. compiled.error = "none"
  <2>1. compiled = CompileJoin(expr, lefts, rights)
    BY CompileOf
  <2>2. lefts.error = "none" /\ rights.error = "none"
    BY <1>1 DEF Agreed
  <2> HIDE DEF lefts, rights, compiled
  <2> QED BY <2>1, <2>2 DEF CompileJoin, CompiledSql
<1> DEFINE text == JoinText(expr, lefts, rights)
<1>8. ASSUME NEW database \in Database
      PROVE  /\ lefts.error = "none" /\ rights.error = "none"
             /\ Has(bindings, database, expr, TRUE) =
                  Joined(text, Has(bindings, database, left, TRUE), Has(bindings, database, right, TRUE))
             /\ compiled.parameters = lefts.parameters \o rights.parameters
             /\ compiled.text = text
  BY <1>7, HasJoin
<1>9. PICK one \in TheDatabases(bindings) : one \in Database
  BY <1>1, TheirDatabases DEF Agreed
<1>10. \A k \in DOMAIN compiled.parameters : Convertible(compiled.parameters[k])
  <2> DEFINE a == lefts.parameters
             b == rights.parameters
  <2>1. compiled.parameters = a \o b /\ lefts.error = "none" /\ rights.error = "none"
    BY <1>8, <1>9
  <2>2. a \in Seq(Parameter) /\ b \in Seq(Parameter)
    BY <1>2, <2>1, Compiles DEF CompiledWell
  <2>3. (\A k \in DOMAIN a : Convertible(a[k])) /\ (\A k \in DOMAIN b : Convertible(b[k]))
    BY <1>1 DEF Agreed
  <2> HIDE DEF a, b, compiled
  <2>4. \A k \in DOMAIN (a \o b) : Convertible((a \o b)[k])
    BY <2>2, <2>3, AllConvertible
  <2> QED BY <2>1, <2>4
<1>11. \A k \in DOMAIN schema : text.select[k].as = schema[k]
  <2>1. compiled.text = text
    BY <1>8, <1>9
  <2>2. CompiledWell(bindings, expr)
    BY Compiles
  <2> HIDE DEF text
  <2> QED BY <1>7, <2>1, <2>2 DEF CompiledWell
<1>12. \A k \in KeptColumns(expr, Exact(expr)) :
         \/ k \in 1..Len(left.schema) /\ k = ColumnIndex(left.schema, left.schema[k])
         \/ \E j \in 1..Len(right.schema) :
              k = Len(left.schema) + j /\ j = ColumnIndex(right.schema, right.schema[j])
  BY <1>3, <1>4, <1>5, KeptOfJoin
<1>13. /\ text.left = expr.leftColumn /\ text.right = expr.rightColumn
       /\ text.select = SelectColumns(left.schema, "l") \o SelectColumns(right.schema, "r")
  BY JoinTextParts
<1>14. ASSUME NEW database \in TheDatabases(bindings)
       PROVE  SameRelation(expr, Has(bindings, database, expr, TRUE))
  <2> DEFINE l == Has(bindings, database, left, TRUE)
             r == Has(bindings, database, right, TRUE)
  <2>1. SameRelation(left, l) /\ SameRelation(right, r)
    BY <1>1 DEF Agreed
  <2>2. Has(bindings, database, expr, TRUE) = Joined(text, l, r)
    BY <1>8, TheirDatabases
  <2> HIDE DEF l, r, text, lefts, rights, compiled
  <2>3. SameRelation(expr, Joined(text, l, r))
    BY <1>1, <1>3, <1>4, <1>5, <1>11, <1>12, <1>13, <2>1, JoinedSame
  <2> QED BY <2>2, <2>3
<1> HIDE DEF compiled
<1> QED BY <1>1, <1>5, <1>6, <1>7, <1>10, <1>14 DEF Agreed, compiled

\* What is comparable agrees.
LEMMA ComparableAgrees ==
  ASSUME NEW bindings \in Catalogs, NEW expr \in Queries(bindings), Comparable(bindings, expr)
  PROVE  Agreed(bindings, expr)
<1> DEFINE S == {e \in Queries(bindings) : Comparable(bindings, e) => Agreed(bindings, e)}
<1>1. ASSUME NEW e \in Queries(bindings),
             \A i \in DOMAIN Children(e) : Children(e)[i] \in S, Comparable(bindings, e)
      PROVE  Agreed(bindings, e)
  <2>1. e.kind \in ExprKind /\ ComparableNode(bindings, e)
    BY <1>1, ChildrenOf, ComparableParts
  <2>2. CASE e.kind = "Table"
    BY <2>1, <2>2, TableAgrees DEF ComparableNode
  <2>3. CASE e.kind \in {"Select", "Project", "Rename"}
    <3>1. e.child \in S
      <4> DEFINE children == Children(e)
      <4>1. children = <<e.child>>
        BY <2>3, ChildrenOf
      <4>2. 1 \in DOMAIN children /\ children[1] = e.child
        BY <4>1
      <4> QED BY <1>1, <4>2
    <3>2. Comparable(bindings, e.child) => Agreed(bindings, e.child)
      BY <3>1
    <3> HIDE DEF S
    <3> QED BY <1>1, <2>3, <3>2, SelectAgrees, ProjectAgrees
  <2>4. CASE e.kind = "Join"
    <3>1. e.left \in S /\ e.right \in S
      <4> DEFINE children == Children(e)
      <4>1. children = <<e.left, e.right>>
        BY <2>4, ChildrenOf
      <4>2. /\ 1 \in DOMAIN children /\ children[1] = e.left
            /\ 2 \in DOMAIN children /\ children[2] = e.right
        BY <4>1
      <4> QED BY <1>1, <4>2
    <3>2. /\ Comparable(bindings, e.left) => Agreed(bindings, e.left)
          /\ Comparable(bindings, e.right) => Agreed(bindings, e.right)
      BY <3>1
    <3> HIDE DEF S
    <3> QED BY <1>1, <2>4, <3>2, JoinAgrees
  <2> QED BY <2>1, <2>2, <2>3, <2>4 DEF ExprKind
<1>2. \A e \in Queries(bindings) : (\A i \in DOMAIN Children(e) : Children(e)[i] \in S) => e \in S
  BY <1>1
<1> HIDE DEF S
<1>3. Queries(bindings) \subseteq S
  BY <1>2, QueryInduction
<1> QED BY <1>3 DEF S

-----------------------------------------------------------------------------
(* When the two backends agree: what they answered.                        *)

\* What SQLite shows of a relation with the rows of the expression.
LEMMA ShownSame ==
  ASSUME NEW expr, NEW relation, SameRelation(expr, relation), Shaped(relation, expr.schema)
  PROVE  LET kept == KeptColumns(expr, Exact(expr))
         IN  KeptRows(Shown(relation.rows), kept) = KeptRows(expr.answer.rows, kept)
<1> DEFINE kept == KeptColumns(expr, Exact(expr))
           ids == DOMAIN relation.rows
           shown == Shown(relation.rows)
           rows == expr.answer.rows
<1>1. /\ DOMAIN rows = ids /\ DOMAIN shown = ids
      /\ \A id \in ids : \A k \in kept :
           SameCell(rows[id][k], relation.affinities[k], relation.rows[id][k])
  BY DEF SameRelation, Shown
<1>2. ASSUME NEW id \in ids, NEW k \in kept PROVE AsCompared(shown[id][k]) = AsCompared(rows[id][k])
  <2> DEFINE values == relation.rows[id]
             value == values[k]
             cell == rows[id][k]
  <2>1. k \in DOMAIN values
    <3>1. values = [c \in DOMAIN expr.schema |-> values[c]]
      BY DEF Shaped, SameRelation
    <3>2. k \in DOMAIN expr.schema
      BY DEF KeptColumns
    <3> HIDE DEF values
    <3> QED BY <3>1, <3>2
  <2>2. shown[id][k] = CellOf(value)
    BY <2>1 DEF Shown
  <2>3. SameCell(cell, relation.affinities[k], value)
    BY <1>1
  <2> HIDE DEF value, cell
  <2>4. AsCompared(CellOf(value)) = AsCompared(cell)
    BY <2>3 DEF SameCell
  <2> QED BY <2>2, <2>4 DEF cell
<1> HIDE DEF ids, shown, rows, kept
<1>3. \A id \in ids : KeptCells(shown[id], kept) = KeptCells(rows[id], kept)
  BY <1>2 DEF KeptCells
<1>4. KeptRows(shown, kept) = KeptRows(rows, kept)
  BY <1>1, <1>3 DEF KeptRows
<1> QED BY <1>4 DEF shown, rows, kept

\* The rows that were listed, cut to some columns.
LEMMA KeptListed ==
  ASSUME NEW V, NEW rows \in Seq(V), NEW f, \E ids : Lists(ids, rows, DOMAIN f, f), NEW kept
  PROVE  SameRows(KeptRows(rows, kept), KeptRows(f, kept))
<1> DEFINE g == KeptRows(f, kept)
           cut == KeptRows(rows, kept)
           n == Len(rows)
<1>1. n \in Nat /\ DOMAIN rows = 1..n
  OBVIOUS
<1>2. DOMAIN g = DOMAIN f /\ \A id \in DOMAIN f : g[id] = KeptCells(f[id], kept)
  BY DEF KeptRows
<1>3. DOMAIN cut = 1..n /\ \A i \in 1..n : cut[i] = KeptCells(rows[i], kept)
  BY <1>1 DEF KeptRows
<1>4. Len(cut) = n
  <2>1. cut = [i \in 1..n |-> cut[i]]
    BY <1>1 DEF KeptRows
  <2> HIDE DEF cut, n
  <2> QED BY <1>1, <2>1
<1>5. PICK ids : Lists(ids, rows, DOMAIN f, f)
  OBVIOUS
<1> HIDE DEF g, cut
<1>6. Lists(ids, cut, DOMAIN g, g)
  <2>1. /\ ids \in Seq(DOMAIN f) /\ n = Len(ids)
        /\ \A k \in 1..Len(ids) : rows[k] = f[ids[k]]
        /\ \A id \in DOMAIN f : \E k \in 1..Len(ids) : ids[k] = id
        /\ \A j, k \in 1..Len(ids) : ids[j] = ids[k] => j = k
    BY <1>5 DEF Lists
  <2> HIDE DEF n
  <2>2. \A k \in 1..n : ids[k] \in DOMAIN f
    BY <2>1
  <2>3. \A k \in 1..n : cut[k] = g[ids[k]]
    <3> SUFFICES ASSUME NEW k \in 1..n PROVE cut[k] = g[ids[k]]
      OBVIOUS
    <3> DEFINE id == ids[k]
    <3>1. id \in DOMAIN f /\ rows[k] = f[id]
      BY <2>1, <2>2
    <3> HIDE DEF id
    <3> QED BY <1>2, <1>3, <3>1 DEF id
  <2> QED BY <1>2, <1>4, <2>1, <2>3 DEF Lists
<1>7. DOMAIN cut = 1..Len(cut)
  BY <1>3, <1>4
<1>8. SameRows(cut, g)
  BY <1>6, <1>7, ListedRows
<1> QED BY <1>8 DEF cut, g

\* Of a comparable query, SQLiteBackend answers with the rows, or a call of SQLite failed by itself.
LEMMA AgreedReply ==
  ASSUME NEW bindings \in Catalogs, NEW expr \in Queries(bindings), Agreed(bindings, expr),
         NEW o, SqlReplied(bindings, o, expr)
  PROVE  \/ o.error = "library"
         \/ /\ o.error = "none" /\ o.schema = expr.schema
            /\ LET kept == KeptColumns(expr, Exact(expr))
               IN  KeptRows(o.rows, kept) = KeptRows(expr.answer.rows, kept)
<1> DEFINE compiled == Compile(bindings, expr)
<1>1. CASE o.error # "none"
  <2>1. SqlFails(bindings, o.error, expr)
    BY <1>1 DEF SqlReplied
  <2>2. \A database \in TheDatabases(bindings) : Has(bindings, database, expr, FALSE).error = "none"
    BY TheirDatabases, PreparedSame DEF Agreed, SameRelation
  <2> QED BY <2>1, <2>2 DEF SqlFails, Agreed
<1>2. CASE o.error = "none"
  <2>1. /\ o.rows \in SqlAnswers(bindings, compiled)
        /\ o = [NoSqlOutcome EXCEPT !.status = o.status, !.schema = expr.schema, !.rows = o.rows]
    BY <1>2 DEF SqlReplied
  <2>2. o.schema = expr.schema
    BY <2>1 DEF NoSqlOutcome
  <2>3. compiled.error = "none" /\ Bound(compiled) = ValuesOf(compiled.parameters, TRUE)
    BY ValuesGiven DEF Agreed
  <2>4. PICK database \in TheDatabases(bindings) :
          o.rows = Shown(RelationOf(database, compiled.text, Bound(compiled)).rows)
    BY <2>1 DEF SqlAnswers
  <2> DEFINE relation == Has(bindings, database, expr, TRUE)
  <2>5. o.rows = Shown(relation.rows)
    BY <2>3, <2>4 DEF Has
  <2>6. SameRelation(expr, relation)
    BY DEF Agreed
  <2>7. Shaped(relation, expr.schema)
    BY <2>3, TheirDatabases, HasShape
  <2> HIDE DEF relation
  <2> QED BY <1>2, <2>2, <2>5, <2>6, <2>7, ShownSame
<1> QED BY <1>1, <1>2

(* Whatever was registered and whatever ran before, a query that both     *)
(* backends can run on the same data is returned by CSVBackend; and unless *)
(* a call of SQLite fails by itself (SQLITE_BUSY, SQLITE_IOERR, no memory: *)
(* in open, prepare, bind or step), SQLiteBackend returns the same schema  *)
(* and the same rows, a number being the same however SQLite writes it.    *)
THEOREM TheBackendsAgree == Spec => []BackendsAgree
<1>1. BackendsInv => BackendsAgree
  <2> SUFFICES ASSUME BackendsInv, client = "SQLiteBackend", sqlOutcome.status # "running",
                      Comparable(catalog, query[1])
               PROVE  /\ outcome.status = "returned"
                      /\ \/ sqlOutcome.error = "library"
                         \/ LET kept == KeptColumns(query[1], Exact(query[1]))
                            IN  /\ sqlOutcome.status = "returned"
                                /\ outcome.result.schema = sqlOutcome.schema
                                /\ SameRows(KeptRows(outcome.result.rows, kept),
                                            KeptRows(sqlOutcome.rows, kept))
    BY DEF BackendsAgree
  <2> DEFINE expr == query[1]
             kept == KeptColumns(expr, Exact(expr))
  <2>1. ClientInv /\ ExecutionInv /\ SqlInv
    BY DEF BackendsInv
  <2>2. catalog \in Catalogs /\ expr \in Queries(catalog) /\ outcome.status \in {"thrown", "returned"}
    BY <2>1 DEF ClientInv
  <2>3. Agreed(catalog, expr)
    BY <2>2, ComparableAgrees
  <2>4. outcome.status = "returned" /\ outcome.result \in Result /\ Gives(outcome.result, expr)
    BY <2>1, <2>2, <2>3 DEF ExecutionInv, Answered, AnsweredAsMeant, Agreed
  <2>5. /\ SqlReplied(catalog, sqlOutcome, expr)
        /\ sqlOutcome.status = IF sqlOutcome.error = "none" THEN "returned" ELSE "thrown"
    BY <2>1 DEF SqlInv
  <2>6. expr.answer.schema = expr.schema
    BY <2>2, <2>3, AgreedAnswer DEF Agreed
  <2>7. SameRows(KeptRows(outcome.result.rows, kept), KeptRows(expr.answer.rows, kept))
    <3>1. outcome.result.rows \in Seq(Seq(FieldValue))
      BY <2>4 DEF Result
    <3> HIDE DEF expr, kept
    <3> QED BY <2>4, <3>1, KeptListed DEF Gives
  <2>8. \/ sqlOutcome.error = "library"
        \/ /\ sqlOutcome.error = "none" /\ sqlOutcome.schema = expr.schema
           /\ KeptRows(sqlOutcome.rows, kept) = KeptRows(expr.answer.rows, kept)
    BY <2>2, <2>3, <2>5, AgreedReply
  <2>9. outcome.result.schema = expr.schema
    BY <2>4, <2>6 DEF Gives
  <2> HIDE DEF expr, kept
  <2> QED BY <2>4, <2>5, <2>7, <2>8, <2>9 DEF expr, kept
<1> QED BY <1>1, BackendsInvariant, PTL
=============================================================================
