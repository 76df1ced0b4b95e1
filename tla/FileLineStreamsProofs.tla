-------------------------- MODULE FileLineStreamsProofs --------------------------
(***************************************************************************)
(* Proofs about FileLineStreams, for any lines, any number of writes,      *)
(* truncations and polls: its types, that the text of the file is returned *)
(* in order, that nothing is written behind a line that was lost, and,     *)
(* where the writes are whole, that the lines are returned whole and that  *)
(* a stream ends at the end of its file.                                   *)
(***************************************************************************)
EXTENDS FileLineStreams, SequenceLemmas

-----------------------------------------------------------------------------
(* The inductive invariants.                                               *)

\* What was read ahead or returned is what the file begins with.
TextRead == FlattenSeq(got) \o FlattenSeq(line) \o TextOf(ifstream.ahead)

ReadSoFar ==
  reader.opened /\ SameFile =>
    /\ ifstream.offset <= Len(file)
    /\ TextRead = TextOf(SubSeq(file, 1, ifstream.offset))

\* A call is only ever in getline on a stream that goes on, and one that goes
\* on has not given up.
ReaderGoesOn ==
  /\ line # <<>> => reader.opened /\ ~reader.ended
  /\ ~reader.ended => reader.emptyPolls <= MaxEmptyPolls
  /\ opens.seen <= opens.writer

TypeInv == TypeOK /\ ReaderGoesOn

TextInv == TypeInv /\ ReadSoFar

\* The lines written up to a place, as the file has them.
FileUpTo(k) == FileOf(SubSeq(written, 1, k))

\* The file has every line.
EveryLine ==
  /\ writer.pending = <<>> /\ writer.held = <<>>
  /\ file = FileOf(written)
  /\ writer.opened => ~writer.bad /\ writer.position = Len(written)

\* The last line is on its way.
OnItsWay ==
  /\ writer.opened /\ ~writer.bad /\ writer.held = <<>> /\ written # <<>>
  /\ writer.position = Len(written) - 1
  /\ LET last == Tokens(written[Len(written)]) IN
     \E n \in 0..Len(last) - 1 :
       /\ file = FileUpTo(Len(written) - 1) \o SubSeq(last, 1, n)
       /\ writer.pending = SubSeq(last, n + 1, Len(last))

\* The content of a file whose lines end with a beginning of the one behind
\* place k, and another beginning of it from the close; what the buffer still
\* holds of it then.
LostAt(lines, content, held, k, n, m) ==
  LET lost == Tokens(lines[k + 1]) IN
  /\ content = FileOf(SubSeq(lines, 1, k)) \o SubSeq(lost, 1, n) \o SubSeq(lost, 1, m)
  /\ \/ held = <<>>
     \/ m = 0 /\ held = lost
     \/ m = 0 /\ held = <<NewLine>> /\ n = Len(lines[k + 1])

\* A line was lost.
LineLost ==
  /\ writer.pending = <<>>
  /\ writer.opened => writer.bad
  /\ \E k \in 0..Len(written) - 1 :
       \E n \in 0..Len(written[k + 1]), m \in 0..Len(written[k + 1]) + 1 :
         LostAt(written, file, writer.held, k, n, m)

LossInv == TypeInv /\ (EveryLine \/ OnItsWay \/ LineLost)

\* No line is written in parts.
Whole == Torn = {} /\ "part" \notin Faults

\* The file consists of lines, and the buffer holds at most the next one.
WholeFile ==
  /\ writer.pending = <<>>
  /\ \E k \in 0..Len(written) :
       /\ file = FileUpTo(k)
       /\ writer.held # <<>> => k < Len(written) /\ writer.held = Tokens(written[k + 1])
       /\ writer.opened /\ ~writer.bad => k = Len(written) /\ writer.held = <<>>

\* The lines returned are the first ones, the read-ahead are the next ones.
WholeRead ==
  SameFile =>
    /\ Len(got) <= Len(written) /\ got = SubSeq(written, 1, Len(got))
    /\ reader.opened =>
         /\ ifstream.offset <= Len(file)
         /\ \E m \in Len(got)..Len(written) :
              /\ ifstream.ahead = FileOf(SubSeq(written, Len(got) + 1, m))
              /\ SubSeq(file, 1, ifstream.offset) = FileUpTo(m)

\* There is no text without a newline behind it, also under a truncation.
NoLooseText ==
  /\ ifstream.ahead # <<>> => ifstream.ahead[Len(ifstream.ahead)] = NewLine
  /\ line \in {<<>>, << <<>> >>}
  /\ ifstream.eof => reader.ended

\* Nothing was read of a file that is not there.
NoneBeforeFile == opens.writer = 0 => got = <<>> /\ ~reader.opened

WholeInv == TextInv /\ WholeFile /\ WholeRead /\ NoLooseText /\ NoneBeforeFile

\* A stream that live polls found at the end was reset by the line it gave.
LiveInv ==
  /\ TextInv
  /\ reader.opened => reader.class = "live"
  /\ reader.opened /\ ifstream.eof => reader.emptyPolls = 0

-----------------------------------------------------------------------------
(* The text of tokens.                                                     *)

\* What a token has of text.
textParts == [token \in Token |-> IF Text(token) THEN <<token>> ELSE <<>>]

LEMMA TextParts ==
  /\ textParts \in PartMaps(Token, Piece)
  /\ \A piece \in Piece : textParts[piece] = <<piece>>
  /\ textParts[NewLine] = <<>>
<1>1. ASSUME NEW token \in Token
      PROVE  (IF Text(token) THEN <<token>> ELSE <<>>) \in Seq(Piece)
  <2>1. CASE token = NewLine
    BY <2>1 DEF Text
  <2>2. CASE token # NewLine
    <3>1. token \in Piece
      BY <2>2 DEF Token
    <3> QED BY <3>1
  <2> QED BY <2>1, <2>2
<1>2. \A piece \in Piece : Text(piece) /\ piece \in Token
  BY FileLineStreamsAssumption DEF Text, Token
<1>3. ~Text(NewLine) /\ NewLine \in Token
  BY DEF Text, Token
<1> QED BY <1>1, <1>2, <1>3 DEF textParts, PartMaps

LEMMA TextOfMap ==
  ASSUME NEW s \in Seq(Token)
  PROVE  TextOf(s) = FlatMap(textParts, s)
<1>1. \A k \in DOMAIN s : s[k] \in Token
  OBVIOUS
<1>2. [k \in DOMAIN s |-> IF Text(s[k]) THEN <<s[k]>> ELSE <<>>] = [k \in DOMAIN s |-> textParts[s[k]]]
  BY <1>1 DEF textParts
<1> QED BY <1>2 DEF TextOf, FlatMap

LEMMA TextOfType ==
  ASSUME NEW s \in Seq(Token)
  PROVE  TextOf(s) \in Seq(Piece)
<1>1. FlatMap(textParts, s) \in Seq(Piece)
  BY TextParts, FlatMapType
<1> QED BY <1>1, TextOfMap

LEMMA TextOfConcat ==
  ASSUME NEW s \in Seq(Token), NEW t \in Seq(Token)
  PROVE  TextOf(s \o t) = TextOf(s) \o TextOf(t)
<1>1. s \o t \in Seq(Token)
  BY ConcatItems
<1>2. FlatMap(textParts, s \o t) = FlatMap(textParts, s) \o FlatMap(textParts, t)
  BY TextParts, FlatMapConcat
<1> QED BY <1>1, <1>2, TextOfMap

LEMMA TextOfEmpty == TextOf(<<>>) = <<>>
<1>1. <<>> \in Seq(Token)
  OBVIOUS
<1> QED BY <1>1, TextOfMap, FlatMapEmpty

LEMMA TextOfNewLine == TextOf(<<NewLine>>) = <<>>
<1>1. <<NewLine>> \in Seq(Token) /\ NewLine \in Token
  BY DEF Token
<1>2. FlatMap(textParts, <<NewLine>>) = textParts[NewLine]
  BY <1>1, TextParts, FlatMapOne
<1> QED BY <1>1, <1>2, TextOfMap, TextParts

\* Text is its own text.
LEMMA TextOfText ==
  ASSUME NEW s \in Seq(Piece)
  PROVE  TextOf(s) = s /\ s \in Seq(Token)
<1>1. s \in Seq(Token)
  BY DEF Token
<1>2. FlatMap(textParts, s) = s
  BY TextParts, FlatMapSame
<1> QED BY <1>1, <1>2, TextOfMap

\* Tokens without a newline are text.
LEMMA NoNewLineIsText ==
  ASSUME NEW s \in Seq(Token), \A k \in 1..Len(s) : s[k] # NewLine
  PROVE  s \in Seq(Piece)
<1>1. \A k \in 1..Len(s) : s[k] \in Piece
  BY DEF Token
<1>2. Len(s) \in Nat /\ s = [k \in 1..Len(s) |-> s[k]]
  OBVIOUS
<1> QED BY <1>1, <1>2

-----------------------------------------------------------------------------
(* The file that lines make.                                               *)

lineTokens == [text \in Seq(Piece) |-> Tokens(text)]

\* A line and its newline.
LEMMA TokensOfLine ==
  ASSUME NEW text \in Seq(Piece)
  PROVE  /\ Tokens(text) \in Seq(Token) /\ Len(Tokens(text)) = Len(text) + 1
         /\ Tokens(text)[Len(text) + 1] = NewLine
         /\ \A k \in 1..Len(text) : Tokens(text)[k] = text[k] /\ text[k] # NewLine
         /\ Tokens(text) # <<>>
<1>1. text \in Seq(Token) /\ NewLine \in Token
  BY TextOfText DEF Token
<1>2. \A k \in 1..Len(text) : text[k] # NewLine
  BY FileLineStreamsAssumption
<1> QED BY <1>1, <1>2, AppendItems DEF Tokens

LEMMA LineTokens ==
  /\ lineTokens \in PartMaps(Seq(Piece), Token)
  /\ \A text \in Seq(Piece) : lineTokens[text] = Tokens(text)
BY TokensOfLine DEF lineTokens, PartMaps

LEMMA FileOfMap ==
  ASSUME NEW lines \in Seq(Seq(Piece))
  PROVE  FileOf(lines) = FlatMap(lineTokens, lines)
<1>1. \A k \in DOMAIN lines : lines[k] \in Seq(Piece)
  OBVIOUS
<1>2. [k \in DOMAIN lines |-> Tokens(lines[k])] = [k \in DOMAIN lines |-> lineTokens[lines[k]]]
  BY <1>1, LineTokens
<1> QED BY <1>2 DEF FileOf, FlatMap

LEMMA FileOfType ==
  ASSUME NEW lines \in Seq(Seq(Piece))
  PROVE  FileOf(lines) \in Seq(Token)
<1>1. FlatMap(lineTokens, lines) \in Seq(Token)
  BY LineTokens, FlatMapType
<1> QED BY <1>1, FileOfMap

LEMMA FileOfEmpty == FileOf(<<>>) = <<>>
<1>1. <<>> \in Seq(Seq(Piece))
  OBVIOUS
<1> QED BY <1>1, FileOfMap, FlatMapEmpty

LEMMA FileOfConcat ==
  ASSUME NEW s \in Seq(Seq(Piece)), NEW t \in Seq(Seq(Piece))
  PROVE  FileOf(s \o t) = FileOf(s) \o FileOf(t)
<1> DEFINE Line == Seq(Piece)
<1>1. lineTokens \in PartMaps(Line, Token) /\ s \in Seq(Line) /\ t \in Seq(Line)
  BY LineTokens
<1> HIDE DEF Line
<1>2. s \o t \in Seq(Line)
  BY <1>1, ConcatItems
<1>3. FlatMap(lineTokens, s \o t) = FlatMap(lineTokens, s) \o FlatMap(lineTokens, t)
  BY <1>1, FlatMapConcat
<1> QED BY <1>1, <1>2, <1>3, FileOfMap DEF Line

LEMMA FileOfOne ==
  ASSUME NEW text \in Seq(Piece)
  PROVE  FileOf(<<text>>) = Tokens(text)
<1>1. <<text>> \in Seq(Seq(Piece))
  OBVIOUS
<1>2. FlatMap(lineTokens, <<text>>) = lineTokens[text]
  BY LineTokens, FlatMapOne
<1> QED BY <1>1, <1>2, FileOfMap, LineTokens

\* A line more adds its tokens to the file.
LEMMA FileOfAppend ==
  ASSUME NEW lines \in Seq(Seq(Piece)), NEW text \in Seq(Piece)
  PROVE  /\ Append(lines, text) \in Seq(Seq(Piece))
         /\ FileOf(Append(lines, text)) = FileOf(lines) \o Tokens(text)
<1> DEFINE one == <<text>>
           Line == Seq(Piece)
<1>1. one \in Seq(Seq(Piece))
  OBVIOUS
<1>2. Append(lines, text) \in Seq(Line) /\ Append(lines, text) = lines \o one
  <2>1. lines \in Seq(Line) /\ text \in Line
    OBVIOUS
  <2> HIDE DEF Line
  <2> QED BY <2>1, AppendItems, AppendConcat
<1>3. FileOf(one) = Tokens(text)
  BY FileOfOne
<1> HIDE DEF one
<1>4. FileOf(lines \o one) = FileOf(lines) \o FileOf(one)
  BY <1>1, FileOfConcat
<1> QED BY <1>2, <1>3, <1>4

-----------------------------------------------------------------------------
(* Types.                                                                  *)

LEMMA InitTypes == Init => TypeInv
<1> SUFFICES ASSUME Init PROVE TypeInv
  OBVIOUS
<1>1. <<>> \in Seq(Token) /\ <<>> \in Seq(Lines) /\ <<>> \in Seq(Seq(Piece)) /\ Len(<<>>) <= 1
  OBVIOUS
<1>2. MaxEmptyPolls \in Nat /\ MaxTruncations \in Nat /\ MaxOpens \in Nat
  BY FileLineStreamsAssumption
<1>3. writer \in [opened : BOOLEAN, position : Nat, pending : Seq(Token), bad : BOOLEAN, held : Seq(Token)]
  BY <1>1 DEF Init
<1>4. reader \in [class : {"file", "live"}, opened : BOOLEAN, ended : BOOLEAN,
                  position : Nat, emptyPolls : 0..MaxEmptyPolls + 1]
  BY <1>2 DEF Init
<1>5. ifstream \in [offset : Nat, ahead : Seq(Token), eof : BOOLEAN]
  BY <1>1 DEF Init, NewStream
<1>6. opens \in [writer : 0..MaxTruncations, reader : 0..MaxOpens, seen : 0..MaxTruncations]
  BY <1>2 DEF Init
<1>7. ReaderGoesOn
  BY <1>2 DEF Init, ReaderGoesOn
<1> QED BY <1>1, <1>3, <1>4, <1>5, <1>6, <1>7 DEF Init, TypeInv, TypeOK

\* A line has tokens.
LEMMA LineTypes ==
  ASSUME NEW text \in Lines
  PROVE  text \in Seq(Piece) /\ Tokens(text) \in Seq(Token)
BY TokensOfLine, FileLineStreamsAssumption

LEMMA WrittenText ==
  ASSUME TypeOK
  PROVE  written \in Seq(Seq(Piece))
BY FileLineStreamsAssumption DEF TypeOK

\* What fails reaches the file in part.
LEMMA FailedAfterPart ==
  ASSUME NEW tokens \in Seq(Token), NEW n \in FailedAfter(tokens)
  PROVE  n \in 0..Len(tokens) /\ (tokens # <<>> => n < Len(tokens))
BY DEF FailedAfter

\* Every step of an open writer leaves the reader, the counts of opens, and
\* what the file has; what it adds are tokens.
FileGrows ==
  /\ UNCHANGED <<readerVars, opens>>
  /\ written' \in Seq(Lines)
  /\ writer' \in [opened : BOOLEAN, position : Nat, pending : Seq(Token), bad : BOOLEAN,
                  held : Seq(Token)]
  /\ \E added \in Seq(Token) : file' = file \o added

LEMMA FlushGrows ==
  ASSUME TypeOK, NEW tokens \in Seq(Token), Flush(tokens)
  PROVE  /\ writer' \in [opened : BOOLEAN, position : Nat, pending : Seq(Token), bad : BOOLEAN,
                         held : Seq(Token)]
         /\ \E added \in Seq(Token) : file' = file \o added
<1> DEFINE WriterType == [opened : BOOLEAN, position : Nat, pending : Seq(Token), bad : BOOLEAN,
                          held : Seq(Token)]
<1>1. writer \in WriterType /\ writer.position \in Nat
  BY DEF TypeOK
<1>2. CASE file' = file \o tokens /\ writer' = [writer EXCEPT !.position = @ + 1]
  <2>1. writer.position + 1 \in Nat
    BY <1>1
  <2>2. writer' \in WriterType
    BY <1>1, <1>2, <2>1
  <2> QED BY <1>2, <2>2
<1>3. CASE \E n \in FailedAfter(tokens) :
             /\ file' = file \o SubSeq(tokens, 1, n)
             /\ writer' = [writer EXCEPT !.position = @ + 1, !.bad = TRUE, !.held = tokens]
  <2>1. PICK n \in FailedAfter(tokens) :
             /\ file' = file \o SubSeq(tokens, 1, n)
             /\ writer' = [writer EXCEPT !.position = @ + 1, !.bad = TRUE, !.held = tokens]
    BY <1>3
  <2>2. SubSeq(tokens, 1, n) \in Seq(Token)
    BY FailedAfterPart, PrefixItems
  <2>3. writer' \in WriterType
    <3>1. writer.position + 1 \in Nat
      BY <1>1
    <3>2. writer' = [opened |-> writer.opened, position |-> writer.position + 1,
                     pending |-> writer.pending, bad |-> TRUE, held |-> tokens]
      BY <1>1, <2>1
    <3> QED BY <1>1, <3>1, <3>2
  <2> QED BY <2>1, <2>2, <2>3
<1> QED BY <1>2, <1>3 DEF Flush

LEMMA WriterGrows ==
  ASSUME TypeOK, Writer, ~OpenWriter
  PROVE  FileGrows
<1> DEFINE WriterType == [opened : BOOLEAN, position : Nat, pending : Seq(Token), bad : BOOLEAN,
                          held : Seq(Token)]
<1>1. /\ file \in Seq(Token) /\ writer \in WriterType /\ written \in Seq(Lines)
      /\ file \o <<>> = file /\ <<>> \in Seq(Token)
  BY ConcatEmpty DEF TypeOK
<1>2. CASE Write
  <2>1. PICK text \in Lines :
          /\ written' = Append(written, text)
          /\ \/ /\ writer' = [writer EXCEPT !.position = @ + 1]
                /\ UNCHANGED file
             \/ /\ writer' = [writer EXCEPT !.pending = Tokens(text)]
                /\ UNCHANGED file
             \/ Flush(Tokens(text))
    BY <1>2 DEF Write
  <2>2. Tokens(text) \in Seq(Token)
    BY LineTypes
  <2>3. written' \in Seq(Lines)
    BY <1>1, <2>1, AppendItems
  <2>4. UNCHANGED <<readerVars, opens>>
    BY <1>2 DEF Write
  <2>5. CASE Flush(Tokens(text))
    BY <2>2, <2>3, <2>4, <2>5, FlushGrows DEF FileGrows
  <2>6. CASE writer' = [writer EXCEPT !.position = @ + 1] /\ UNCHANGED file
    <3>1. writer' \in WriterType
      BY <1>1, <2>6
    <3> QED BY <1>1, <2>3, <2>4, <2>6, <3>1 DEF FileGrows
  <2>7. CASE writer' = [writer EXCEPT !.pending = Tokens(text)] /\ UNCHANGED file
    <3>1. writer' \in WriterType
      BY <1>1, <2>2, <2>7
    <3> QED BY <1>1, <2>3, <2>4, <2>7, <3>1 DEF FileGrows
  <2> QED BY <2>1, <2>5, <2>6, <2>7
<1>3. CASE WriteThrough
  <2>1. PICK n \in 1..Len(writer.pending) :
          /\ file' = file \o SubSeq(writer.pending, 1, n)
          /\ writer' = [writer EXCEPT !.pending = SubSeq(@, n + 1, Len(@)),
                          !.position = IF n = Len(writer.pending) THEN @ + 1 ELSE @]
    BY <1>3 DEF WriteThrough
  <2>2. writer.pending \in Seq(Token) /\ n \in 0..Len(writer.pending)
    BY <1>1
  <2>3. /\ SubSeq(writer.pending, 1, n) \in Seq(Token)
        /\ SubSeq(writer.pending, n + 1, Len(writer.pending)) \in Seq(Token)
    BY <2>2, CutAnywhere
  <2>4. writer' \in WriterType
    <3>1. (IF n = Len(writer.pending) THEN writer.position + 1 ELSE writer.position) \in Nat
      BY <1>1
    <3> QED BY <1>1, <2>1, <2>3, <3>1
  <2> QED BY <1>1, <1>3, <2>1, <2>3, <2>4 DEF FileGrows, WriteThrough
<1>4. CASE WriteThroughFails
  <2>1. writer' \in WriterType
    <3>1. (IF writer.pending = <<NewLine>> THEN writer.pending ELSE <<>>) \in Seq(Token)
      BY <1>1
    <3>2. writer' = [writer EXCEPT
            !.pending = <<>>, !.position = @ + 1, !.bad = TRUE,
            !.held = IF writer.pending = <<NewLine>> THEN writer.pending ELSE <<>>]
      BY <1>4 DEF WriteThroughFails
    <3>3. writer' = [opened |-> writer.opened, position |-> writer.position + 1,
                     pending |-> <<>>, bad |-> TRUE,
                     held |-> IF writer.pending = <<NewLine>> THEN writer.pending ELSE <<>>]
      BY <1>1, <3>2
    <3> QED BY <1>1, <3>1, <3>3
  <2> QED BY <1>1, <1>4, <2>1 DEF FileGrows, WriteThroughFails
<1>5. CASE CloseWriter
  <2>1. PICK n \in FailedAfter(writer.held) \cup {Len(writer.held)} :
          file' = file \o SubSeq(writer.held, 1, n)
    BY <1>5 DEF CloseWriter
  <2>2. writer.held \in Seq(Token)
    BY <1>1
  <2>3. n \in 0..Len(writer.held)
    BY <2>2, FailedAfterPart
  <2>4. SubSeq(writer.held, 1, n) \in Seq(Token)
    BY <2>2, <2>3, PrefixItems
  <2>5. writer' \in WriterType
    BY <1>1, <1>5 DEF CloseWriter
  <2> QED BY <1>1, <1>5, <2>1, <2>4, <2>5 DEF FileGrows, CloseWriter
<1>6. CASE WriterDies
  <2>1. writer' \in WriterType
    BY <1>1, <1>6 DEF WriterDies
  <2> QED BY <1>1, <1>6, <2>1 DEF FileGrows, WriterDies
<1> QED BY <1>2, <1>3, <1>4, <1>5, <1>6 DEF Writer

\* The first newline of tokens that have one.
LEMMA FirstNewLine ==
  ASSUME NEW s \in Seq(Token), Contains(s, NewLine)
  PROVE  LET first == SelectInSeq(s, LAMBDA token : token = NewLine) IN
         /\ first \in 1..Len(s) /\ s[first] = NewLine
         /\ \A k \in 1..first - 1 : s[k] # NewLine
<1> DEFINE places == {i \in 1..Len(s) : s[i] = NewLine}
           first == SelectInSeq(s, LAMBDA token : token = NewLine)
<1>1. first = IF places # {} THEN Min(places) ELSE 0
  BY DEF SelectInSeq
<1>2. places # {} /\ places \subseteq Nat
  BY DEF Contains
<1>3. PICK n \in places : \A m \in places : n <= m
  BY <1>2, Smallest
<1>4. Min(places) \in places /\ \A m \in places : Min(places) <= m
  <2> HIDE DEF places
  <2> QED BY <1>3 DEF Min
<1>5. first \in places /\ \A m \in places : first <= m
  BY <1>1, <1>2, <1>4
<1> HIDE DEF first
<1>6. first \in 1..Len(s) /\ s[first] = NewLine /\ \A k \in 1..first - 1 : s[k] # NewLine
  BY <1>5
<1> QED BY <1>6 DEF first

\* The members of the streams, one by one.
LEMMA StreamTypes ==
  ASSUME TypeOK
  PROVE  /\ file \in Seq(Token)
         /\ reader.class \in {"file", "live"} /\ reader.opened \in BOOLEAN
         /\ reader.ended \in BOOLEAN /\ reader.position \in Nat
         /\ reader.emptyPolls \in 0..MaxEmptyPolls + 1
         /\ ifstream.offset \in Nat /\ ifstream.ahead \in Seq(Token) /\ ifstream.eof \in BOOLEAN
         /\ got \in Seq(Seq(Piece))
         /\ line # <<>> => line[1] \in Seq(Piece) /\ line = <<line[1]>>
         /\ MaxEmptyPolls \in Nat
<1>1. line # <<>> => line[1] \in Seq(Piece) /\ line = <<line[1]>>
  <2> SUFFICES ASSUME line # <<>> PROVE line[1] \in Seq(Piece) /\ line = <<line[1]>>
    OBVIOUS
  <2> DEFINE Line == Seq(Piece)
  <2>1. line \in Seq(Line) /\ Len(line) <= 1
    BY DEF TypeOK
  <2> HIDE DEF Line
  <2>2. Len(line) = 1 /\ line[1] \in Line
    <3>1. Len(line) # 0 /\ Len(line) \in Nat
      BY <2>1
    <3>2. Len(line) = 1
      <4> DEFINE n == Len(line)
      <4>1. n # 0 /\ n \in Nat /\ n <= 1
        BY <2>1, <3>1
      <4> HIDE DEF n
      <4>2. n = 1
        BY <4>1
      <4> QED BY <4>2 DEF n
    <3> QED BY <2>1, <3>2
  <2>3. line = <<line[1]>>
    BY <2>1, <2>2
  <2> QED BY <2>2, <2>3 DEF Line
<1>2. /\ file \in Seq(Token) /\ got \in Seq(Seq(Piece))
      /\ reader \in [class : {"file", "live"}, opened : BOOLEAN, ended : BOOLEAN,
                     position : Nat, emptyPolls : 0..MaxEmptyPolls + 1]
      /\ ifstream \in [offset : Nat, ahead : Seq(Token), eof : BOOLEAN]
  BY DEF TypeOK
<1> QED BY <1>1, <1>2, FileLineStreamsAssumption

\* What getline does when it finds a newline.
LEMMA TakesOneLine ==
  ASSUME TypeOK, TakeLine
  PROVE  \E n \in 1..Len(ifstream.ahead) :
           LET text == SubSeq(ifstream.ahead, 1, n - 1) IN
           /\ ifstream.ahead[n] = NewLine /\ text \in Seq(Piece)
           /\ \A k \in 1..n - 1 : ifstream.ahead[k] # NewLine
           /\ Deliver(line[1] \o text)
           /\ ifstream' = [ifstream EXCEPT !.ahead = SubSeq(@, n + 1, Len(@))]
<1> DEFINE ahead == ifstream.ahead
           n == SelectInSeq(ahead, LAMBDA token : token = NewLine)
           text == SubSeq(ahead, 1, n - 1)
<1>1. ahead \in Seq(Token) /\ Contains(ahead, NewLine)
  BY StreamTypes DEF TakeLine
<1>2. /\ Deliver(line[1] \o text)
      /\ ifstream' = [ifstream EXCEPT !.ahead = SubSeq(@, n + 1, Len(@))]
  BY DEF TakeLine
<1>3. /\ n \in 1..Len(ahead) /\ ahead[n] = NewLine
      /\ \A k \in 1..n - 1 : ahead[k] # NewLine
  BY <1>1, FirstNewLine
<1> HIDE DEF n
<1>4. n - 1 \in 0..Len(ahead)
  BY <1>3
<1>5. text \in Seq(Token) /\ Len(text) = n - 1 /\ \A k \in 1..n - 1 : text[k] = ahead[k]
  BY <1>1, <1>4, PrefixItems
<1>6. text \in Seq(Piece)
  BY <1>3, <1>5, NoNewLineIsText
<1> QED BY <1>2, <1>3, <1>6

\* A read-ahead without a newline is text.
LEMMA AheadIsText ==
  ASSUME TypeOK, ~Contains(ifstream.ahead, NewLine)
  PROVE  ifstream.ahead \in Seq(Piece)
BY StreamTypes, NoNewLineIsText DEF Contains

ReaderType == [class : {"file", "live"}, opened : BOOLEAN, ended : BOOLEAN, position : Nat,
               emptyPolls : 0..MaxEmptyPolls + 1]
IfstreamType == [offset : Nat, ahead : Seq(Token), eof : BOOLEAN]

\* What a poll keeps of the reader's types.
ReaderTypes ==
  /\ reader \in ReaderType
  /\ ifstream \in IfstreamType
  /\ line \in Seq(Seq(Piece)) /\ Len(line) <= 1
  /\ got \in Seq(Seq(Piece))
  /\ ReaderGoesOn

\* The lines the reader has returned, with one more.
LEMMA DeliverTypes ==
  ASSUME TypeInv, NEW text \in Seq(Piece), Deliver(text), UNCHANGED opens,
         ifstream' \in IfstreamType
  PROVE  ReaderTypes'
<1>1. reader \in ReaderType /\ reader.position + 1 \in Nat /\ 0 \in 0..MaxEmptyPolls + 1
  <2>1. reader \in ReaderType
    BY DEF TypeInv, TypeOK, ReaderType
  <2>2. reader.position \in Nat
    BY <2>1 DEF ReaderType
  <2>3. MaxEmptyPolls \in Nat
    BY FileLineStreamsAssumption
  <2> QED BY <2>1, <2>2, <2>3
<1>2. reader' = [class |-> reader.class, opened |-> reader.opened, ended |-> reader.ended,
                 position |-> reader.position + 1, emptyPolls |-> 0]
  BY <1>1 DEF Deliver, ReaderType
<1>3. reader' \in ReaderType
  BY <1>1, <1>2 DEF ReaderType
<1>4. got' \in Seq(Seq(Piece))
  <2> DEFINE Line == Seq(Piece)
  <2>1. got \in Seq(Line) /\ text \in Line
    BY DEF TypeInv, TypeOK
  <2> HIDE DEF Line
  <2>2. got' \in Seq(Line)
    BY <2>1, AppendItems DEF Deliver
  <2> QED BY <2>2 DEF Line
<1>5. line' = <<>> /\ line' \in Seq(Seq(Piece)) /\ Len(line') <= 1
  BY DEF Deliver
<1>6. ReaderGoesOn'
  BY <1>2, <1>5, StreamTypes DEF ReaderGoesOn, TypeInv
<1> QED BY <1>3, <1>4, <1>5, <1>6 DEF ReaderTypes

LEMMA NoLineTypes ==
  ASSUME TypeInv, reader.opened, ~reader.ended, NoLine, UNCHANGED opens
  PROVE  ReaderTypes'
<1>1. /\ reader \in ReaderType /\ ifstream \in IfstreamType /\ got \in Seq(Seq(Piece))
      /\ reader.emptyPolls \in 0..MaxEmptyPolls /\ MaxEmptyPolls \in Nat
      /\ opens.seen <= opens.writer
  BY StreamTypes DEF TypeInv, TypeOK, ReaderType, IfstreamType, ReaderGoesOn
<1>2. line' = <<>> /\ line' \in Seq(Seq(Piece)) /\ Len(line') <= 1 /\ got' = got
  BY DEF NoLine
<1>3. CASE reader.class = "live"
  <2>1. reader' = [class |-> reader.class, opened |-> reader.opened,
                   ended |-> reader.emptyPolls + 1 > MaxEmptyPolls,
                   position |-> reader.position, emptyPolls |-> reader.emptyPolls + 1]
    BY <1>1, <1>3 DEF NoLine, ReaderType
  <2>2. reader.emptyPolls + 1 \in 0..MaxEmptyPolls + 1
        /\ (reader.emptyPolls + 1 > MaxEmptyPolls) \in BOOLEAN
    BY <1>1
  <2>3. reader' \in ReaderType
    BY <1>1, <2>1, <2>2 DEF ReaderType
  <2>4. ifstream' = [offset |-> ifstream.offset, ahead |-> ifstream.ahead, eof |-> FALSE]
    BY <1>1, <1>3 DEF NoLine, IfstreamType
  <2>5. ifstream' \in IfstreamType
    BY <1>1, <2>4 DEF IfstreamType
  <2>6. ~reader'.ended => reader'.emptyPolls <= MaxEmptyPolls
    <3>1. reader'.ended = (reader.emptyPolls + 1 > MaxEmptyPolls)
          /\ reader'.emptyPolls = reader.emptyPolls + 1
      BY <2>1
    <3>2. ~(reader.emptyPolls + 1 > MaxEmptyPolls) => reader.emptyPolls + 1 <= MaxEmptyPolls
      BY <1>1
    <3> QED BY <3>1, <3>2, Zenon
  <2>7. ReaderGoesOn'
    BY <1>1, <1>2, <2>6 DEF ReaderGoesOn
  <2> QED BY <1>1, <1>2, <2>3, <2>5, <2>7 DEF ReaderTypes
<1>4. CASE reader.class # "live"
  <2>1. reader' = [class |-> reader.class, opened |-> reader.opened, ended |-> TRUE,
                   position |-> reader.position, emptyPolls |-> reader.emptyPolls]
    BY <1>1, <1>4 DEF NoLine, ReaderType
  <2>2. reader' \in ReaderType
    BY <1>1, <2>1 DEF ReaderType
  <2>3. ifstream' = [offset |-> ifstream.offset, ahead |-> ifstream.ahead, eof |-> TRUE]
    BY <1>1, <1>4 DEF NoLine, IfstreamType
  <2>4. ifstream' \in IfstreamType
    BY <1>1, <2>3 DEF IfstreamType
  <2>5. ReaderGoesOn'
    BY <1>1, <1>2, <2>1 DEF ReaderGoesOn
  <2> QED BY <1>1, <1>2, <2>2, <2>4, <2>5 DEF ReaderTypes
<1> QED BY <1>3, <1>4

LEMMA UnchangedTypes ==
  ASSUME TypeInv, UNCHANGED <<readerVars, opens>>
  PROVE  ReaderTypes'
BY DEF TypeInv, TypeOK, ReaderTypes, ReaderType, IfstreamType, ReaderGoesOn, readerVars

LEMMA PollTypes ==
  ASSUME TypeInv, Poll
  PROVE  ReaderTypes' /\ UNCHANGED <<writerVars, opens>>
<1>1. /\ TypeOK /\ ReaderGoesOn /\ file \in Seq(Token)
      /\ reader \in ReaderType /\ ifstream \in IfstreamType /\ got \in Seq(Seq(Piece))
      /\ ifstream.ahead \in Seq(Token)
      /\ line # <<>> => line[1] \in Seq(Piece) /\ reader.opened /\ ~reader.ended
  BY StreamTypes DEF TypeInv, TypeOK, ReaderType, IfstreamType, ReaderGoesOn
<1>2. CASE TryRead
  <2>1. UNCHANGED <<writerVars, opens>>
    BY <1>2 DEF TryRead
  <2>2. CASE ifstream.eof
    BY <1>2, <2>1, <2>2, NoLineTypes DEF TryRead
  <2>3. CASE ~ifstream.eof
    <3>1. line' = << <<>> >> /\ UNCHANGED <<reader, ifstream, got, opens>>
          /\ reader.opened /\ ~reader.ended
      BY <1>2, <2>3 DEF TryRead
    <3>2. line' \in Seq(Seq(Piece)) /\ Len(line') <= 1
      BY <3>1
    <3>3. ReaderGoesOn'
      BY <1>1, <3>1 DEF ReaderGoesOn
    <3>4. reader' \in ReaderType /\ ifstream' \in IfstreamType /\ got' \in Seq(Seq(Piece))
      BY <1>1, <3>1
    <3> QED BY <2>1, <3>2, <3>3, <3>4 DEF ReaderTypes
  <2> QED BY <2>2, <2>3
<1>3. CASE TakeLine
  <2>1. PICK n \in 1..Len(ifstream.ahead) :
           /\ SubSeq(ifstream.ahead, 1, n - 1) \in Seq(Piece)
           /\ Deliver(line[1] \o SubSeq(ifstream.ahead, 1, n - 1))
           /\ ifstream' = [ifstream EXCEPT !.ahead = SubSeq(@, n + 1, Len(@))]
    BY <1>1, <1>3, TakesOneLine
  <2>2. line[1] \o SubSeq(ifstream.ahead, 1, n - 1) \in Seq(Piece)
    BY <1>1, <1>3, <2>1, ConcatItems DEF TakeLine
  <2>3. SubSeq(ifstream.ahead, n + 1, Len(ifstream.ahead)) \in Seq(Token)
    BY <1>1, SuffixItems
  <2>4. ifstream' = [offset |-> ifstream.offset, eof |-> ifstream.eof,
                     ahead |-> SubSeq(ifstream.ahead, n + 1, Len(ifstream.ahead))]
    BY <1>1, <2>1 DEF IfstreamType
  <2>5. ifstream' \in IfstreamType
    BY <1>1, <2>3, <2>4 DEF IfstreamType
  <2>6. UNCHANGED <<writerVars, opens>>
    BY <1>3 DEF TakeLine
  <2> QED BY <2>1, <2>2, <2>5, <2>6, DeliverTypes
<1>4. CASE Underflow
  <2>1. /\ line # <<>> /\ line' = <<line[1] \o ifstream.ahead>>
        /\ ifstream' = [offset |-> Len(file), eof |-> ifstream.eof,
                        ahead |-> SubSeq(file, ifstream.offset + 1, Len(file))]
        /\ UNCHANGED <<writerVars, reader, got, opens>>
        /\ ifstream.offset < Len(file)
    BY <1>1, <1>4 DEF Underflow, IfstreamType
  <2>2. line[1] \o ifstream.ahead \in Seq(Piece)
    BY <1>1, <1>4, <2>1, AheadIsText, ConcatItems DEF Underflow
  <2>3. line' \in Seq(Seq(Piece)) /\ Len(line') <= 1
    BY <2>1, <2>2
  <2>4. ifstream.offset \in 0..Len(file) /\ Len(file) \in Nat
    BY <1>1, <2>1 DEF IfstreamType
  <2>5. SubSeq(file, ifstream.offset + 1, Len(file)) \in Seq(Token)
    BY <1>1, <2>4, SuffixItems
  <2>6. ifstream' \in IfstreamType
    BY <1>1, <2>1, <2>4, <2>5 DEF IfstreamType
  <2>7. ReaderGoesOn'
    BY <1>1, <2>1 DEF ReaderGoesOn
  <2> QED BY <1>1, <2>1, <2>3, <2>6, <2>7 DEF ReaderTypes, ReaderType
<1>5. CASE ReachEnd
  <2> DEFINE text == line[1] \o ifstream.ahead
  <2>1. /\ line # <<>> /\ UNCHANGED <<writerVars, opens>>
    BY <1>5 DEF ReachEnd
  <2>2. CASE text = <<>>
    <3>1. NoLine
      BY <1>5, <2>2 DEF ReachEnd
    <3> QED BY <1>1, <2>1, <3>1, NoLineTypes
  <2>3. CASE text # <<>>
    <3>1. Deliver(text) /\ ifstream' = [ifstream EXCEPT !.ahead = <<>>, !.eof = TRUE]
      BY <1>5, <2>3 DEF ReachEnd
    <3>2. text \in Seq(Piece)
      BY <1>1, <1>5, <2>1, AheadIsText, ConcatItems DEF ReachEnd
    <3>3. ifstream' = [offset |-> ifstream.offset, ahead |-> <<>>, eof |-> TRUE]
      BY <1>1, <3>1 DEF IfstreamType
    <3>4. ifstream' \in IfstreamType
      BY <1>1, <3>3 DEF IfstreamType
    <3> HIDE DEF text
    <3> QED BY <2>1, <3>1, <3>2, <3>4, DeliverTypes
  <2> QED BY <2>1, <2>2, <2>3
<1> QED BY <1>2, <1>3, <1>4, <1>5 DEF Poll

LEMMA StepTypes == TypeInv /\ [Next]_vars => TypeInv'
<1> SUFFICES ASSUME TypeInv, [Next]_vars PROVE TypeInv'
  OBVIOUS
<1>1. /\ TypeOK /\ ReaderGoesOn
      /\ opens \in [writer : 0..MaxTruncations, reader : 0..MaxOpens, seen : 0..MaxTruncations]
      /\ MaxTruncations \in Nat /\ MaxOpens \in Nat /\ MaxEmptyPolls \in Nat
      /\ reader \in ReaderType /\ ifstream \in IfstreamType
  BY FileLineStreamsAssumption DEF TypeInv, TypeOK, ReaderType, IfstreamType
<1>2. CASE OpenWriter
  <2>1. /\ <<>> \in Seq(Token) /\ <<>> \in Seq(Lines) /\ file' = <<>> /\ written' = <<>>
        /\ writer' = [opened |-> TRUE, position |-> 0, pending |-> <<>>, bad |-> FALSE,
                      held |-> <<>>]
        /\ UNCHANGED readerVars
    BY <1>2 DEF OpenWriter
  <2>2. opens' = [writer |-> opens.writer + 1, reader |-> opens.reader, seen |-> opens.seen]
        /\ opens.writer + 1 \in 0..MaxTruncations
    BY <1>1, <1>2 DEF OpenWriter
  <2>3. opens' \in [writer : 0..MaxTruncations, reader : 0..MaxOpens, seen : 0..MaxTruncations]
        /\ opens'.seen <= opens'.writer
    BY <1>1, <2>2 DEF ReaderGoesOn
  <2>4. ReaderGoesOn'
    BY <1>1, <2>1, <2>3 DEF ReaderGoesOn, readerVars
  <2>5. writer' \in [opened : BOOLEAN, position : Nat, pending : Seq(Token), bad : BOOLEAN,
                     held : Seq(Token)]
    BY <2>1
  <2> QED BY <1>1, <2>1, <2>3, <2>4, <2>5 DEF TypeInv, TypeOK, readerVars
<1>3. CASE Writer /\ ~OpenWriter
  <2>1. FileGrows
    BY <1>1, <1>3, WriterGrows
  <2>2. file' \in Seq(Token)
    BY <1>1, <2>1, ConcatItems DEF FileGrows, TypeOK
  <2>3. ReaderTypes'
    BY <2>1, UnchangedTypes DEF FileGrows
  <2> QED
    BY <1>1, <2>1, <2>2, <2>3
    DEF FileGrows, TypeInv, TypeOK, ReaderTypes, ReaderType, IfstreamType
<1>4. CASE OpenReader
  <2>1. line = <<>> /\ line' = <<>> /\ ifstream' = NewStream /\ UNCHANGED writerVars
    BY <1>4 DEF OpenReader
  <2>2. opens' = [writer |-> opens.writer, reader |-> opens.reader + 1, seen |-> opens.writer]
        /\ opens.reader + 1 \in 0..MaxOpens
    <3>1. opens' = [opens EXCEPT !.reader = @ + 1, !.seen = opens.writer] /\ opens.reader < MaxOpens
      BY <1>4 DEF OpenReader
    <3>2. opens.reader + 1 \in 0..MaxOpens
      BY <1>1, <3>1
    <3>3. opens' = [writer |-> opens.writer, reader |-> opens.reader + 1, seen |-> opens.writer]
      BY <1>1, <3>1
    <3> QED BY <3>2, <3>3
  <2>3. opens' \in [writer : 0..MaxTruncations, reader : 0..MaxOpens, seen : 0..MaxTruncations]
        /\ opens'.seen <= opens'.writer
    BY <1>1, <2>2
  <2>4. /\ reader' \in ReaderType /\ got' \in Seq(Seq(Piece))
        /\ ~reader'.ended => reader'.emptyPolls <= MaxEmptyPolls
    <3>1. CASE opens.writer > 0
      <4>1. PICK class \in Readers :
              reader' = [class |-> class, opened |-> TRUE, ended |-> FALSE, position |-> 0,
                         emptyPolls |-> 0]
        BY <1>4, <3>1 DEF OpenReader
      <4>2. got' = <<>> /\ <<>> \in Seq(Seq(Piece))
        BY <1>4, <3>1 DEF OpenReader
      <4>3. class \in {"file", "live"} /\ 0 \in 0..MaxEmptyPolls + 1 /\ 0 <= MaxEmptyPolls
        BY <1>1, FileLineStreamsAssumption
      <4> QED BY <4>1, <4>2, <4>3 DEF ReaderType
    <3>2. CASE ~(opens.writer > 0)
      <4>1. reader' = [reader EXCEPT !.opened = FALSE] /\ got' = got
        BY <1>4, <3>2 DEF OpenReader
      <4>2. reader' \in ReaderType /\ reader'.ended = reader.ended
            /\ reader'.emptyPolls = reader.emptyPolls
        BY <1>1, <4>1 DEF ReaderType
      <4> QED BY <1>1, <4>1, <4>2 DEF TypeOK, ReaderGoesOn
    <3> QED BY <3>1, <3>2
  <2>5. ifstream' \in IfstreamType
    BY <2>1 DEF IfstreamType, NewStream
  <2>6. ReaderGoesOn'
    BY <2>1, <2>3, <2>4 DEF ReaderGoesOn
  <2> QED
    BY <1>1, <2>1, <2>3, <2>4, <2>5, <2>6
    DEF TypeInv, TypeOK, ReaderType, IfstreamType, writerVars
<1>5. CASE CloseReader
  <2>1. /\ line = <<>> /\ line' = <<>> /\ ifstream' = NewStream
        /\ reader' = [reader EXCEPT !.opened = FALSE]
        /\ UNCHANGED <<writerVars, got, opens>>
    BY <1>5 DEF CloseReader
  <2>2. reader' \in ReaderType /\ reader'.ended = reader.ended
        /\ reader'.emptyPolls = reader.emptyPolls
    BY <1>1, <2>1 DEF ReaderType
  <2>3. ifstream' \in IfstreamType
    BY <2>1 DEF IfstreamType, NewStream
  <2>4. ReaderGoesOn'
    BY <1>1, <2>1, <2>2 DEF ReaderGoesOn
  <2> QED
    BY <1>1, <2>1, <2>2, <2>3, <2>4 DEF TypeInv, TypeOK, ReaderType, IfstreamType, writerVars
<1>6. CASE Poll
  <2>1. ReaderTypes' /\ UNCHANGED <<writerVars, opens>>
    BY <1>6, PollTypes
  <2> QED
    BY <1>1, <2>1 DEF TypeInv, TypeOK, ReaderTypes, ReaderType, IfstreamType, writerVars
<1>7. CASE UNCHANGED vars
  BY <1>1, <1>7 DEF TypeInv, TypeOK, ReaderGoesOn, vars
<1> QED BY <1>2, <1>3, <1>4, <1>5, <1>6, <1>7 DEF Next, Writer

(* The types of the streams' members (file.tpp, live_file.tpp); an empty   *)
(* poll is never counted beyond the first one over max_empty_polls.        *)
THEOREM FileLineStreamsTypes == Spec => []TypeOK
<1>1. TypeInv => TypeOK
  BY DEF TypeInv
<1> QED BY <1>1, InitTypes, StepTypes, PTL DEF Spec

-----------------------------------------------------------------------------
(* Text in order.                                                          *)

\* The parts of TextRead.
LEMMA TextReadParts ==
  ASSUME TypeOK
  PROVE  /\ FlattenSeq(got) \in Seq(Piece) /\ FlattenSeq(line) \in Seq(Piece)
         /\ TextOf(ifstream.ahead) \in Seq(Piece)
         /\ line # <<>> => FlattenSeq(line) = line[1]
<1>1. got \in Seq(Seq(Piece)) /\ line \in Seq(Seq(Piece)) /\ ifstream.ahead \in Seq(Token)
  BY StreamTypes DEF TypeOK
<1>2. ASSUME line # <<>> PROVE FlattenSeq(line) = line[1]
  <2>1. line[1] \in Seq(Piece) /\ line = <<line[1]>>
    BY <1>2, StreamTypes
  <2>2. FlattenSeq(<<line[1]>>) = line[1]
    BY <2>1, FlattenOne
  <2> QED BY <2>1, <2>2
<1> QED BY <1>1, <1>2, FlattenType, TextOfType

\* What a line of the read-ahead leaves of its text.
LEMMA TextBehindLine ==
  ASSUME NEW ahead \in Seq(Token), NEW n \in 1..Len(ahead), ahead[n] = NewLine,
         SubSeq(ahead, 1, n - 1) \in Seq(Piece)
  PROVE  /\ SubSeq(ahead, n + 1, Len(ahead)) \in Seq(Token)
         /\ TextOf(ahead) = SubSeq(ahead, 1, n - 1) \o TextOf(SubSeq(ahead, n + 1, Len(ahead)))
<1> DEFINE text == SubSeq(ahead, 1, n - 1)
           upTo == SubSeq(ahead, 1, n)
           rest == SubSeq(ahead, n + 1, Len(ahead))
           newLine == <<NewLine>>
<1>1. n \in 0..Len(ahead) /\ n - 1 \in 0..Len(ahead)
  OBVIOUS
<1>2. upTo \in Seq(Token) /\ rest \in Seq(Token) /\ ahead = upTo \o rest
  BY <1>1, CutAnywhere
<1>3. text \in Seq(Token) /\ TextOf(text) = text
  BY TextOfText
<1>4. newLine \in Seq(Token) /\ TextOf(newLine) = <<>>
  BY TextOfNewLine DEF Token
<1>5. upTo = text \o newLine
  <2>1. upTo \in Seq(Token) /\ Len(upTo) = n /\ \A k \in 1..n : upTo[k] = ahead[k]
    BY <1>1, PrefixItems
  <2>2. text \in Seq(Token) /\ Len(text) = n - 1 /\ \A k \in 1..n - 1 : text[k] = ahead[k]
    BY <1>1, PrefixItems
  <2>3. Append(text, NewLine) \in Seq(Token) /\ Len(Append(text, NewLine)) = n
        /\ (\A k \in 1..n - 1 : Append(text, NewLine)[k] = text[k])
        /\ Append(text, NewLine)[n] = NewLine
    BY <2>2, AppendItems DEF Token
  <2> HIDE DEF upTo, text
  <2>4. \A k \in 1..n : upTo[k] = Append(text, NewLine)[k]
    BY <2>1, <2>2, <2>3
  <2>5. upTo = Append(text, NewLine)
    BY <2>1, <2>3, <2>4, SameItems
  <2>6. Append(text, NewLine) = text \o newLine
    BY <2>2, AppendConcat DEF Token
  <2> QED BY <2>5, <2>6
<1> HIDE DEF text, upTo, rest, newLine
<1>6. TextOf(ahead) = TextOf(upTo) \o TextOf(rest)
  BY <1>2, TextOfConcat
<1>7. TextOf(upTo) = TextOf(text) \o TextOf(newLine)
  BY <1>3, <1>4, <1>5, TextOfConcat
<1>8. TextOf(upTo) = text
  BY <1>3, <1>4, <1>7, ConcatEmpty
<1> QED BY <1>2, <1>6, <1>8 DEF text, rest

\* Only a refill of the read-ahead changes what was read.
LEMMA PollText ==
  ASSUME TypeInv, Poll, ~Underflow
  PROVE  UNCHANGED TextRead /\ ifstream'.offset = ifstream.offset
<1> DEFINE G == FlattenSeq(got)
           L == FlattenSeq(line)
           A == TextOf(ifstream.ahead)
<1>1. /\ TypeOK /\ ifstream \in IfstreamType /\ got \in Seq(Seq(Piece))
      /\ ifstream.ahead \in Seq(Token)
      /\ G \in Seq(Piece) /\ L \in Seq(Piece) /\ A \in Seq(Piece)
      /\ line # <<>> => line[1] \in Seq(Piece) /\ L = line[1]
  BY StreamTypes, TextReadParts DEF TypeInv, TypeOK, IfstreamType
<1>2. ASSUME NoLine, L = <<>>
      PROVE  UNCHANGED TextRead /\ ifstream'.offset = ifstream.offset
  <2>1. got' = got /\ line' = <<>> /\ ifstream'.offset = ifstream.offset
        /\ ifstream'.ahead = ifstream.ahead
    BY <1>1, <1>2 DEF NoLine, IfstreamType
  <2>2. FlattenSeq(line') = <<>>
    BY <2>1, FlattenEmpty
  <2> QED BY <1>2, <2>1, <2>2 DEF TextRead
<1>3. ASSUME NEW text \in Seq(Piece), Deliver(text)
      PROVE  FlattenSeq(got') = G \o text /\ FlattenSeq(line') = <<>>
  <2>1. got' = Append(got, text) /\ line' = <<>>
    BY <1>3 DEF Deliver
  <2> QED BY <1>1, <2>1, FlattenAppend, FlattenEmpty
<1>4. CASE TryRead
  <2>1. L = <<>>
    BY <1>4, FlattenEmpty DEF TryRead
  <2>2. CASE ifstream.eof
    BY <1>2, <1>4, <2>1, <2>2 DEF TryRead
  <2>3. CASE ~ifstream.eof
    <3>1. line' = << <<>> >> /\ UNCHANGED <<ifstream, got>>
      BY <1>4, <2>3 DEF TryRead
    <3>2. FlattenSeq(<< <<>> >>) = <<>>
      <4> DEFINE none == <<>>
      <4>1. none \in Seq(Piece)
        OBVIOUS
      <4> HIDE DEF none
      <4>2. FlattenSeq(<<none>>) = none
        BY <4>1, FlattenOne
      <4> QED BY <4>2 DEF none
    <3> QED BY <2>1, <3>1, <3>2 DEF TextRead
  <2> QED BY <2>2, <2>3
<1>5. CASE TakeLine
  <2>1. PICK n \in 1..Len(ifstream.ahead) :
           /\ ifstream.ahead[n] = NewLine
           /\ SubSeq(ifstream.ahead, 1, n - 1) \in Seq(Piece)
           /\ Deliver(line[1] \o SubSeq(ifstream.ahead, 1, n - 1))
           /\ ifstream' = [ifstream EXCEPT !.ahead = SubSeq(@, n + 1, Len(@))]
    BY <1>1, <1>5, TakesOneLine
  <2> DEFINE text == SubSeq(ifstream.ahead, 1, n - 1)
             rest == SubSeq(ifstream.ahead, n + 1, Len(ifstream.ahead))
             R == TextOf(rest)
  <2>2. text \in Seq(Piece) /\ rest \in Seq(Token) /\ A = text \o R
    BY <1>1, <2>1, TextBehindLine
  <2>3. L = line[1] /\ L \o text \in Seq(Piece)
    BY <1>1, <1>5, <2>2, ConcatItems DEF TakeLine
  <2>4. FlattenSeq(got') = G \o (L \o text) /\ FlattenSeq(line') = <<>>
    BY <1>3, <2>1, <2>3
  <2>5. ifstream'.ahead = rest /\ ifstream'.offset = ifstream.offset
    BY <1>1, <2>1 DEF IfstreamType
  <2>6. R \in Seq(Piece)
    BY <2>2, TextOfType
  <2> HIDE DEF text, rest, G, L, A, R
  <2>7. (G \o (L \o text)) \o <<>> = G \o (L \o text)
    BY <1>1, <2>3, ConcatItems, ConcatEmpty
  <2>8. (G \o (L \o text)) \o R = (G \o L) \o (text \o R)
    <3>1. G \in Seq(Piece) /\ L \in Seq(Piece) /\ text \in Seq(Piece) /\ R \in Seq(Piece)
      BY <1>1, <2>2, <2>6
    <3> DEFINE both == L \o text
               end == text \o R
    <3>2. both \in Seq(Piece) /\ end \in Seq(Piece)
      BY <3>1, ConcatItems
    <3>3. both \o R = L \o end
      BY <3>1, ConcatAssociative
    <3> HIDE DEF both, end
    <3>4. (G \o both) \o R = G \o (both \o R)
      <4>1. G \in Seq(Piece) /\ both \in Seq(Piece) /\ R \in Seq(Piece)
        BY <3>1, <3>2
      <4> QED BY <4>1, ConcatAssociative
    <3>5. (G \o L) \o end = G \o (L \o end)
      <4>1. G \in Seq(Piece) /\ L \in Seq(Piece) /\ end \in Seq(Piece)
        BY <3>1, <3>2
      <4> QED BY <4>1, ConcatAssociative
    <3> QED BY <3>3, <3>4, <3>5 DEF both, end
  <2>9. TextRead' = (G \o (L \o text)) \o <<>> \o R
    BY <2>4, <2>5 DEF TextRead, R
  <2>10. TextRead = (G \o L) \o (text \o R)
    BY <2>2 DEF TextRead, G, L, A
  <2> QED BY <2>5, <2>7, <2>8, <2>9, <2>10
<1>6. CASE ReachEnd
  <2> DEFINE text == line[1] \o ifstream.ahead
  <2>1. ifstream.ahead \in Seq(Piece) /\ A = ifstream.ahead /\ L = line[1] /\ text \in Seq(Piece)
    <3>1. ifstream.ahead \in Seq(Piece) /\ line # <<>>
      BY <1>1, <1>6, AheadIsText DEF ReachEnd
    <3> QED BY <1>1, <3>1, TextOfText, ConcatItems
  <2>2. CASE text = <<>>
    <3>1. L = <<>>
      <4> HIDE DEF L
      <4>1. L \o ifstream.ahead = <<>>
        BY <2>1, <2>2
      <4> QED BY <1>1, <2>1, <4>1, ConcatIsEmpty
    <3> QED BY <1>2, <1>6, <2>2, <3>1 DEF ReachEnd
  <2>3. CASE text # <<>>
    <3>1. Deliver(text) /\ ifstream'.ahead = <<>> /\ ifstream'.offset = ifstream.offset
      BY <1>1, <1>6, <2>3 DEF ReachEnd, IfstreamType
    <3>2. FlattenSeq(got') = G \o text /\ FlattenSeq(line') = <<>>
      <4> HIDE DEF text, G
      <4> QED BY <1>3, <2>1, <3>1
    <3>3. TextOf(ifstream'.ahead) = <<>>
      BY <3>1, TextOfEmpty
    <3>4. TextRead' = (G \o (L \o A)) \o <<>> \o <<>>
      BY <2>1, <3>2, <3>3 DEF TextRead
    <3>5. TextRead = (G \o L) \o A
      BY DEF TextRead
    <3> HIDE DEF G, L, A
    <3>6. (G \o (L \o A)) \o <<>> \o <<>> = (G \o L) \o A
      <4> DEFINE all == G \o (L \o A)
      <4>1. L \o A \in Seq(Piece)
        BY <1>1, ConcatItems
      <4>2. all \in Seq(Piece)
        BY <1>1, <4>1, ConcatItems
      <4>3. (G \o L) \o A = all
        <5>1. Associates(G, L, A)
          BY <1>1, ConcatAssociates
        <5> QED BY <5>1 DEF Associates
      <4> HIDE DEF all
      <4> QED BY <4>2, <4>3, ConcatEmpty DEF all
    <3> QED BY <3>1, <3>4, <3>5, <3>6
  <2> QED BY <2>2, <2>3
<1> QED BY <1>4, <1>5, <1>6 DEF Poll

\* A refill continues it by what the file has behind the offset.
LEMMA UnderflowText ==
  ASSUME TypeInv, Underflow
  PROVE  /\ ifstream.offset \in 0..Len(file) /\ ifstream'.offset = Len(file)
         /\ TextRead' = TextRead \o TextOf(SubSeq(file, ifstream.offset + 1, Len(file)))
<1> DEFINE G == FlattenSeq(got)
           L == FlattenSeq(line)
           A == TextOf(ifstream.ahead)
           added == SubSeq(file, ifstream.offset + 1, Len(file))
           B == TextOf(added)
<1>1. /\ TypeOK /\ ifstream \in IfstreamType /\ file \in Seq(Token)
      /\ G \in Seq(Piece) /\ L \in Seq(Piece) /\ A \in Seq(Piece)
      /\ line # <<>> => line[1] \in Seq(Piece) /\ L = line[1]
  BY StreamTypes, TextReadParts DEF TypeInv, TypeOK, IfstreamType
<1>2. /\ line # <<>> /\ line' = <<line[1] \o ifstream.ahead>> /\ got' = got
      /\ ifstream'.offset = Len(file) /\ ifstream'.ahead = added
      /\ ifstream.offset < Len(file)
  BY <1>1 DEF Underflow, IfstreamType
<1>3. ifstream.offset \in 0..Len(file)
  BY <1>1, <1>2 DEF IfstreamType
<1>4. ifstream.ahead \in Seq(Piece) /\ A = ifstream.ahead
  BY <1>1, AheadIsText, TextOfText DEF Underflow
<1>5. L = line[1] /\ L \o A \in Seq(Piece)
  BY <1>1, <1>2, ConcatItems
<1>6. FlattenSeq(line') = L \o A
  <2>1. line' = <<L \o A>>
    BY <1>2, <1>4, <1>5
  <2> HIDE DEF L, A
  <2> QED BY <1>5, <2>1, FlattenOne
<1>7. B \in Seq(Piece)
  BY <1>1, <1>3, SuffixItems, TextOfType
<1>8. TextRead' = (G \o (L \o A)) \o B
  BY <1>2, <1>6 DEF TextRead
<1>9. TextRead = (G \o L) \o A
  BY DEF TextRead
<1> HIDE DEF G, L, A, B
<1>10. (G \o (L \o A)) \o B = ((G \o L) \o A) \o B
  <2>1. Associates(G, L, A)
    BY <1>1, ConcatAssociates
  <2> QED BY <2>1 DEF Associates
<1> QED BY <1>2, <1>3, <1>8, <1>9, <1>10 DEF B

LEMMA StepReadSoFar == TextInv /\ [Next]_vars => ReadSoFar'
<1> SUFFICES ASSUME TextInv, [Next]_vars, reader'.opened, SameFile'
             PROVE  ifstream'.offset <= Len(file')
                    /\ TextRead' = TextOf(SubSeq(file', 1, ifstream'.offset))
  BY DEF ReadSoFar
<1>1. /\ TypeInv /\ TypeOK /\ ReaderGoesOn /\ ReadSoFar
      /\ file \in Seq(Token) /\ Len(file) \in Nat /\ ifstream.offset \in Nat
      /\ opens \in [writer : 0..MaxTruncations, reader : 0..MaxOpens, seen : 0..MaxTruncations]
      /\ reader \in ReaderType
  BY StreamTypes DEF TextInv, TypeInv, TypeOK, ReaderType
<1>2. CASE OpenWriter
  <2>1. opens' = [opens EXCEPT !.writer = @ + 1]
    BY <1>2 DEF OpenWriter
  <2>2. opens'.writer = opens.writer + 1 /\ opens'.seen = opens.seen /\ opens.seen <= opens.writer
        /\ opens.writer \in Nat /\ opens.seen \in Nat
    BY <1>1, <2>1 DEF ReaderGoesOn
  <2> QED BY <2>2 DEF SameFile
<1>3. CASE Writer /\ ~OpenWriter
  <2>1. FileGrows
    BY <1>1, <1>3, WriterGrows
  <2>2. reader' = reader /\ ifstream' = ifstream /\ opens' = opens /\ TextRead' = TextRead
    BY <2>1 DEF FileGrows, readerVars, TextRead
  <2>3. ifstream.offset <= Len(file) /\ TextRead = TextOf(SubSeq(file, 1, ifstream.offset))
    BY <1>1, <2>2 DEF ReadSoFar, SameFile
  <2>4. PICK added \in Seq(Token) : file' = file \o added
    BY <2>1 DEF FileGrows
  <2>5. ifstream.offset \in 0..Len(file)
    BY <1>1, <2>3
  <2>6. Len(file') = Len(file) + Len(added) /\ Len(added) \in Nat
    BY <1>1, <2>4, ConcatItems
  <2>7. SubSeq(file', 1, ifstream.offset) = SubSeq(file, 1, ifstream.offset)
    BY <1>1, <2>4, <2>5, ConcatBeginning
  <2>8. ifstream.offset <= Len(file')
    BY <1>1, <2>3, <2>6
  <2> QED BY <2>2, <2>3, <2>7, <2>8
<1>4. CASE OpenReader
  <2>1. opens.writer > 0 => got' = <<>>
    BY <1>4 DEF OpenReader
  <2>2. ~(opens.writer > 0) => reader' = [reader EXCEPT !.opened = FALSE]
    BY <1>4 DEF OpenReader
  <2>3. got' = <<>>
    BY <1>1, <2>1, <2>2 DEF ReaderType
  <2>4. line' = <<>> /\ ifstream' = NewStream /\ file' = file
    BY <1>4 DEF OpenReader, writerVars
  <2>5. (ifstream.offset <= Len(file) /\ TextRead = TextOf(SubSeq(file, 1, ifstream.offset)))'
    <3>1. got' = <<>> /\ line' = <<>> /\ ifstream' = NewStream /\ file' \in Seq(Token)
      BY <1>1, <2>3, <2>4
    <3>2. ifstream'.offset = 0 /\ ifstream'.ahead = <<>> /\ Len(file') \in Nat
      BY <3>1 DEF NewStream
    <3>3. SubSeq(file', 1, ifstream'.offset) = <<>>
      BY <3>1, <3>2
    <3>4. TextRead' = <<>> \o <<>> \o <<>>
      BY <3>1, <3>2, FlattenEmpty, TextOfEmpty DEF TextRead
    <3>5. <<>> \o <<>> \o <<>> = <<>>
      OBVIOUS
    <3>6. TextOf(SubSeq(file', 1, ifstream'.offset)) = <<>>
      BY <3>3, TextOfEmpty
    <3>7. TextRead' = <<>>
      BY <3>4, <3>5
    <3> QED BY <3>2, <3>6, <3>7
  <2> QED BY <2>5
<1>5. CASE CloseReader
  <2>1. reader' = [reader EXCEPT !.opened = FALSE]
    BY <1>5 DEF CloseReader
  <2> QED BY <1>1, <2>1 DEF ReaderType
<1>6. CASE Poll
  <2>1. reader.opened /\ file' = file /\ opens' = opens
    BY <1>1, <1>6, PollTypes DEF Poll, TryRead, TakeLine, Underflow, ReachEnd, ReaderGoesOn, writerVars
  <2>2. ifstream.offset <= Len(file) /\ TextRead = TextOf(SubSeq(file, 1, ifstream.offset))
    BY <1>1, <2>1 DEF ReadSoFar, SameFile
  <2>3. CASE ~Underflow
    BY <1>1, <1>6, <2>1, <2>2, <2>3, PollText
  <2>4. CASE Underflow
    <3> DEFINE before == SubSeq(file, 1, ifstream.offset)
               behind == SubSeq(file, ifstream.offset + 1, Len(file))
    <3>1. /\ ifstream.offset \in 0..Len(file) /\ ifstream'.offset = Len(file)
          /\ TextRead' = TextRead \o TextOf(behind)
      BY <1>1, <2>4, UnderflowText
    <3>2. before \in Seq(Token) /\ behind \in Seq(Token) /\ file = before \o behind
      BY <1>1, <3>1, CutAnywhere
    <3>3. SubSeq(file, 1, Len(file)) = file
      BY <1>1
    <3> HIDE DEF before, behind
    <3>4. TextOf(file) = TextOf(before) \o TextOf(behind)
      BY <3>2, TextOfConcat
    <3>5. TextRead' = TextOf(SubSeq(file', 1, ifstream'.offset))
      BY <2>1, <2>2, <3>1, <3>3, <3>4 DEF before
    <3> QED BY <1>1, <2>1, <3>1, <3>5
  <2> QED BY <2>3, <2>4
<1>7. CASE UNCHANGED vars
  BY <1>1, <1>7 DEF vars, TextRead, ReadSoFar, SameFile
<1> QED BY <1>2, <1>3, <1>4, <1>5, <1>6, <1>7 DEF Next, Writer

LEMMA InitTextInv == Init => TextInv
<1> SUFFICES ASSUME Init PROVE TypeInv /\ ReadSoFar
  BY DEF TextInv
<1>1. TypeInv
  BY InitTypes
<1>2. ~reader.opened
  BY DEF Init
<1> QED BY <1>1, <1>2 DEF ReadSoFar

LEMMA StepTextInv == TextInv /\ [Next]_vars => TextInv'
BY StepTypes, StepReadSoFar DEF TextInv

LEMMA ReadIsPrefix == TextInv => TextInOrder
<1> SUFFICES ASSUME TextInv, reader.opened, SameFile PROVE IsPrefix(TextRead, TextOf(file))
  BY DEF TextInOrder, TextRead
<1> DEFINE before == SubSeq(file, 1, ifstream.offset)
           behind == SubSeq(file, ifstream.offset + 1, Len(file))
<1>1. /\ file \in Seq(Token) /\ ifstream.offset \in Nat /\ Len(file) \in Nat
      /\ ifstream.offset <= Len(file) /\ TextRead = TextOf(before)
  BY StreamTypes DEF TextInv, TypeInv, ReadSoFar
<1>2. before \in Seq(Token) /\ behind \in Seq(Token) /\ file = before \o behind
  <2>1. ifstream.offset \in 0..Len(file)
    BY <1>1
  <2> QED BY <1>1, <2>1, CutAnywhere
<1> HIDE DEF before, behind
<1>3. TextOf(file) = TextOf(before) \o TextOf(behind)
  BY <1>2, TextOfConcat
<1>4. TextOf(before) \in Seq(Piece) /\ TextOf(behind) \in Seq(Piece)
  BY <1>2, TextOfType
<1>5. IsPrefix(TextOf(before), TextOf(before) \o TextOf(behind))
  BY <1>4, ConcatPrefix
<1> QED BY <1>1, <1>3, <1>5

(* However lines are torn, writes fail, the file is truncated and polls    *)
(* come in between (try_read and the writes of file.tpp, live_file.tpp):   *)
(* what an open stream has returned, the text it is in the middle of and   *)
(* what it has read ahead are the text the file begins with.               *)
THEOREM FileLineStreamsTextInOrder == Spec => []TextInOrder
<1> QED BY InitTextInv, StepTextInv, ReadIsPrefix, PTL DEF Spec
-----------------------------------------------------------------------------
(* The lines the file has.                                                 *)

\* The lines up to a place.
LEMMA LinesUpTo ==
  ASSUME TypeOK, NEW k \in 0..Len(written)
  PROVE  /\ SubSeq(written, 1, k) \in Seq(Seq(Piece))
         /\ FileUpTo(k) \in Seq(Token)
         /\ FileUpTo(Len(written)) = FileOf(written)
         /\ Len(written) \in Nat
<1> DEFINE Line == Seq(Piece)
<1>1. written \in Seq(Line)
  BY WrittenText
<1> HIDE DEF Line
<1>2. SubSeq(written, 1, k) \in Seq(Line)
  BY <1>1, PrefixItems
<1>3. SubSeq(written, 1, Len(written)) = written /\ Len(written) \in Nat
  BY <1>1
<1> QED BY <1>2, <1>3, FileOfType DEF FileUpTo, Line

\* The line behind them, and the lines up to that one.
LEMMA LineBehind ==
  ASSUME TypeOK, NEW k \in 0..Len(written) - 1
  PROVE  /\ written[k + 1] \in Seq(Piece)
         /\ Tokens(written[k + 1]) \in Seq(Token)
         /\ Len(Tokens(written[k + 1])) \in Nat \ {0}
         /\ Tokens(written[k + 1])[Len(Tokens(written[k + 1]))] = NewLine
         /\ FileUpTo(k + 1) = FileUpTo(k) \o Tokens(written[k + 1])
<1> DEFINE Line == Seq(Piece)
           lines == SubSeq(written, 1, k)
           more == SubSeq(written, 1, k + 1)
           text == written[k + 1]
<1>1. written \in Seq(Line) /\ k \in 0..Len(written) /\ k + 1 \in 0..Len(written) /\ k \in Nat
      /\ k + 1 \in 1..Len(written)
  <2>1. written \in Seq(Line)
    BY WrittenText
  <2> HIDE DEF Line
  <2> QED BY <2>1
<1>2. text \in Line
  <2> HIDE DEF Line
  <2> QED BY <1>1
<1>3. /\ Tokens(text) \in Seq(Token) /\ Len(Tokens(text)) \in Nat \ {0}
      /\ Tokens(text)[Len(Tokens(text))] = NewLine
  <2>1. /\ Tokens(text) \in Seq(Token) /\ Len(Tokens(text)) = Len(text) + 1
        /\ Tokens(text)[Len(text) + 1] = NewLine
    BY <1>2, TokensOfLine
  <2>2. Len(text) \in Nat
    BY <1>2
  <2> QED BY <2>1, <2>2
<1>4. more = Append(lines, text) /\ lines \in Seq(Line)
  <2> HIDE DEF Line
  <2>1. /\ lines \in Seq(Line) /\ Len(lines) = k
        /\ \A i \in 1..k : lines[i] = written[i]
    BY <1>1, PrefixItems
  <2>2. /\ more \in Seq(Line) /\ Len(more) = k + 1
        /\ \A i \in 1..k + 1 : more[i] = written[i]
    BY <1>1, PrefixItems
  <2> HIDE DEF lines, more, text
  <2>3. /\ Append(lines, text) \in Seq(Line) /\ Len(Append(lines, text)) = k + 1
        /\ \A i \in 1..k : Append(lines, text)[i] = lines[i]
        /\ Append(lines, text)[k + 1] = text
    BY <1>2, <2>1, AppendItems
  <2>4. \A i \in 1..k + 1 : more[i] = Append(lines, text)[i]
    <3>1. TAKE i \in 1..k + 1
    <3>2. CASE i = k + 1
      BY <2>2, <2>3, <3>2 DEF text
    <3>3. CASE i # k + 1
      <4>1. i \in 1..k
        BY <1>1, <3>3
      <4> QED BY <2>1, <2>2, <2>3, <4>1
    <3> QED BY <3>2, <3>3
  <2>5. more = Append(lines, text)
    BY <2>2, <2>3, <2>4, SameItems
  <2> QED BY <2>1, <2>5
<1>5. FileOf(more) = FileOf(lines) \o Tokens(text)
  <2> HIDE DEF lines, more, text
  <2> QED BY <1>2, <1>4, FileOfAppend
<1> QED BY <1>2, <1>3, <1>5 DEF FileUpTo

\* A line more leaves those before it.
LEMMA OneLineMore ==
  ASSUME TypeOK, NEW text \in Lines, written' = Append(written, text)
  PROVE  /\ Len(written') = Len(written) + 1 /\ Len(written) \in Nat
         /\ written'[Len(written')] = text
         /\ FileOf(written') = FileOf(written) \o Tokens(text)
         /\ \A k \in 0..Len(written) : SubSeq(written', 1, k) = SubSeq(written, 1, k)
         /\ \A k \in 0..Len(written) - 1 : written'[k + 1] = written[k + 1]
         /\ SubSeq(written', 1, Len(written')  - 1) = written
<1>1. written \in Seq(Lines)
  BY DEF TypeOK
<1>2. /\ Len(written') = Len(written) + 1 /\ Len(written) \in Nat
      /\ written'[Len(written) + 1] = text
      /\ \A k \in 1..Len(written) : written'[k] = written[k]
  BY <1>1, AppendItems
<1>3. \A k \in 0..Len(written) - 1 : written'[k + 1] = written[k + 1]
  BY <1>2
<1>4. FileOf(written') = FileOf(written) \o Tokens(text)
  BY WrittenText, LineTypes, FileOfAppend
<1>5. ASSUME NEW k \in 0..Len(written) PROVE SubSeq(written', 1, k) = SubSeq(written, 1, k)
  <2> DEFINE one == <<text>>
  <2>1. written' = written \o one /\ one \in Seq(Lines)
    BY <1>1, AppendConcat
  <2> HIDE DEF one
  <2> QED BY <1>1, <2>1, ConcatBeginning
<1>6. SubSeq(written, 1, Len(written)) = written
  BY <1>1
<1>7. Len(written') - 1 = Len(written) /\ Len(written) \in 0..Len(written)
  BY <1>2
<1>8. SubSeq(written', 1, Len(written') - 1) = written
  BY <1>5, <1>6, <1>7
<1> QED BY <1>2, <1>3, <1>4, <1>5, <1>8

\* Two beginnings in a row of a line, the second one empty.
LEMMA NoneOfLine ==
  ASSUME NEW base \in Seq(Token), NEW tokens \in Seq(Token)
  PROVE  /\ SubSeq(tokens, 1, 0) = <<>>
         /\ base \o SubSeq(tokens, 1, 0) = base
BY ConcatEmpty
-----------------------------------------------------------------------------
(* Nothing behind a lost line.                                             *)

WriterType == [opened : BOOLEAN, position : Nat, pending : Seq(Token), bad : BOOLEAN,
               held : Seq(Token)]

LEMMA WriterTypes ==
  ASSUME TypeOK
  PROVE  /\ writer \in WriterType /\ file \in Seq(Token) /\ written \in Seq(Lines)
         /\ writer.pending \in Seq(Token) /\ writer.held \in Seq(Token)
         /\ writer.position \in Nat /\ Len(written) \in Nat
BY DEF TypeOK, WriterType

\* A flush that follows a file with every line.
LEMMA FlushLoses ==
  ASSUME TypeInv, EveryLine, writer.opened, NEW text \in Lines,
         written' = Append(written, text), Flush(Tokens(text))
  PROVE  EveryLine' \/ LineLost'
<1> DEFINE tokens == Tokens(text)
<1>1. /\ TypeOK /\ writer \in WriterType /\ file \in Seq(Token) /\ tokens \in Seq(Token)
      /\ Len(written) \in Nat /\ writer.position = Len(written) /\ ~writer.bad
      /\ writer.pending = <<>> /\ writer.held = <<>> /\ file = FileOf(written)
  BY WriterTypes, LineTypes DEF TypeInv, EveryLine
<1>2. /\ Len(written') = Len(written) + 1 /\ written'[Len(written) + 1] = text
      /\ FileOf(written') = FileOf(written) \o tokens
      /\ SubSeq(written', 1, Len(written)) = written
  <2>1. /\ Len(written') = Len(written) + 1 /\ written'[Len(written')] = text
        /\ FileOf(written') = FileOf(written) \o Tokens(text)
        /\ SubSeq(written', 1, Len(written') - 1) = written
    BY <1>1, OneLineMore
  <2>2. Len(written') - 1 = Len(written)
    BY <1>1, <2>1
  <2> QED BY <2>1, <2>2
<1> HIDE DEF tokens
<1>3. CASE file' = file \o tokens /\ writer' = [writer EXCEPT !.position = @ + 1]
  <2>1. /\ writer'.pending = <<>> /\ writer'.held = <<>> /\ ~writer'.bad
        /\ writer'.position = Len(written')
    BY <1>1, <1>2, <1>3 DEF WriterType
  <2> QED BY <1>1, <1>2, <1>3, <2>1 DEF EveryLine
<1>4. CASE \E n \in FailedAfter(tokens) :
             /\ file' = file \o SubSeq(tokens, 1, n)
             /\ writer' = [writer EXCEPT !.position = @ + 1, !.bad = TRUE, !.held = tokens]
  <2>1. PICK n \in FailedAfter(tokens) :
             /\ file' = file \o SubSeq(tokens, 1, n)
             /\ writer' = [writer EXCEPT !.position = @ + 1, !.bad = TRUE, !.held = tokens]
    BY <1>4
  <2>2. n \in 0..Len(text) /\ n \in 0..Len(tokens) /\ Len(text) \in Nat
    <3>1. /\ tokens # <<>> /\ n \in 0..Len(tokens) /\ Len(tokens) = Len(text) + 1
          /\ Len(text) \in Nat
      BY <1>1, FailedAfterPart, TokensOfLine, LineTypes DEF tokens
    <3> QED BY <1>1, <3>1, FailedAfterPart
  <2>3. /\ writer'.pending = <<>> /\ writer'.held = tokens /\ writer'.bad
    BY <1>1, <2>1 DEF WriterType
  <2>4. file' = FileOf(SubSeq(written', 1, Len(written))) \o SubSeq(tokens, 1, n) \o SubSeq(tokens, 1, 0)
    <3>1. file' \in Seq(Token)
      <4>1. SubSeq(tokens, 1, n) \in Seq(Token)
        BY <1>1, <2>2, PrefixItems
      <4> QED BY <1>1, <2>1, <4>1, ConcatItems
    <3>2. file' \o SubSeq(tokens, 1, 0) = file'
      BY <1>1, <3>1, NoneOfLine
    <3> QED BY <1>1, <1>2, <2>1, <3>2
  <2>5. LostAt(written', file', writer'.held, Len(written), n, 0)
    BY <1>2, <2>3, <2>4 DEF LostAt, tokens
  <2>6. Len(written) \in 0..Len(written') - 1 /\ 0 \in 0..Len(text) + 1
    BY <1>1, <1>2, <2>2
  <2> QED BY <1>2, <2>2, <2>3, <2>5, <2>6 DEF LineLost
<1> QED BY <1>3, <1>4 DEF Flush, tokens

\* What is written of a line on its way.
LEMMA WriteThroughLoses ==
  ASSUME TypeInv, OnItsWay, WriteThrough
  PROVE  EveryLine' \/ OnItsWay'
<1> DEFINE k == Len(written) - 1
           last == Tokens(written[Len(written)])
           base == FileUpTo(k)
<1>1. /\ TypeOK /\ writer \in WriterType /\ Len(written) \in Nat
      /\ writer.opened /\ ~writer.bad /\ writer.held = <<>> /\ written # <<>>
      /\ writer.position = k
  BY WriterTypes DEF TypeInv, OnItsWay
<1>2. k \in 0..Len(written) - 1 /\ k + 1 = Len(written)
  <2>1. Len(written) # 0
    BY <1>1, WriterTypes
  <2> QED BY <1>1, <2>1
<1>3. /\ last \in Seq(Token) /\ Len(last) \in Nat \ {0} /\ base \in Seq(Token)
      /\ FileOf(written) = base \o last
  <2>1. /\ Tokens(written[k + 1]) \in Seq(Token) /\ Len(Tokens(written[k + 1])) \in Nat \ {0}
        /\ FileUpTo(k + 1) = base \o Tokens(written[k + 1])
    BY <1>1, <1>2, LineBehind
  <2>2. k \in 0..Len(written)
    BY <1>1, <1>2
  <2>3. base \in Seq(Token) /\ FileUpTo(Len(written)) = FileOf(written)
    BY <1>1, <2>2, LinesUpTo
  <2> QED BY <1>2, <2>1, <2>3
<1>4. PICK n \in 0..Len(last) - 1 :
        /\ file = base \o SubSeq(last, 1, n)
        /\ writer.pending = SubSeq(last, n + 1, Len(last))
  BY DEF OnItsWay
<1>5. PICK i \in 1..Len(writer.pending) :
        /\ file' = file \o SubSeq(writer.pending, 1, i)
        /\ writer' = [writer EXCEPT !.pending = SubSeq(@, i + 1, Len(@)),
                        !.position = IF i = Len(writer.pending) THEN @ + 1 ELSE @]
  BY DEF WriteThrough
<1>6. written' = written /\ base' = base /\ last' = last /\ k' = k
  BY DEF WriteThrough, FileUpTo
<1> HIDE DEF last, base
<1>7. n \in 0..Len(last) /\ n \in Nat /\ n + 1 <= Len(last)
  BY <1>3
<1>8. Len(writer.pending) = Len(last) - n /\ writer.pending \in Seq(Token)
  BY <1>3, <1>4, <1>7, SuffixItems
<1>9. i \in Nat /\ i >= 1 /\ n + i \in 0..Len(last)
  BY <1>3, <1>5, <1>7, <1>8
<1>10. file' = base \o SubSeq(last, 1, n + i)
  <2>1. SubSeq(writer.pending, 1, i) = SubSeq(last, n + 1, n + i)
    BY <1>3, <1>4, <1>7, <1>9
  <2>2. /\ SubSeq(last, n + 1, n + i) \in Seq(Token) /\ SubSeq(last, 1, n) \in Seq(Token)
        /\ SubSeq(last, 1, n + i) = SubSeq(last, 1, n) \o SubSeq(last, n + 1, n + i)
    <3> DEFINE m == n + i
    <3>1. last \in Seq(Token) /\ n \in Nat /\ m \in 0..Len(last) /\ n <= m
      BY <1>3, <1>7, <1>9
    <3> HIDE DEF m
    <3>2. /\ SubSeq(last, n + 1, m) \in Seq(Token) /\ SubSeq(last, 1, n) \in Seq(Token)
          /\ SubSeq(last, 1, m) = SubSeq(last, 1, n) \o SubSeq(last, n + 1, m)
      BY <3>1, BeginningGrows
    <3> QED BY <3>2 DEF m
  <2> DEFINE first == SubSeq(last, 1, n)
             next == SubSeq(last, n + 1, n + i)
  <2>3. base \in Seq(Token) /\ first \in Seq(Token) /\ next \in Seq(Token)
    BY <1>3, <2>2, Zenon
  <2>4. file' = (base \o first) \o next
    BY <1>4, <1>5, <2>1
  <2>5. SubSeq(last, 1, n + i) = first \o next
    BY <2>2
  <2> HIDE DEF first, next
  <2>6. (base \o first) \o next = base \o (first \o next)
    BY <2>3, ConcatAssociative
  <2> QED BY <2>4, <2>5, <2>6
<1>11. /\ writer'.opened = writer.opened /\ writer'.bad = writer.bad /\ writer'.held = writer.held
       /\ writer'.pending = SubSeq(writer.pending, i + 1, Len(writer.pending))
       /\ writer'.position = IF i = Len(writer.pending) THEN k + 1 ELSE k
  BY <1>1, <1>5 DEF WriterType
<1>12. CASE i = Len(writer.pending)
  <2>1. n + i = Len(last) /\ SubSeq(last, 1, Len(last)) = last
    BY <1>3, <1>7, <1>8, <1>12
  <2>2. writer'.pending = <<>>
    BY <1>8, <1>11, <1>12
  <2> QED BY <1>1, <1>2, <1>3, <1>6, <1>10, <1>11, <1>12, <2>1, <2>2 DEF EveryLine
<1>13. CASE i # Len(writer.pending)
  <2>1. n + i \in 0..Len(last) - 1
    BY <1>3, <1>5, <1>7, <1>8, <1>9, <1>13
  <2>2. SubSeq(writer.pending, i + 1, Len(writer.pending)) = SubSeq(last, n + i + 1, Len(last))
    BY <1>3, <1>4, <1>7, <1>8, <1>9
  <2>3. \E j \in 0..Len(last) - 1 :
          /\ file' = base \o SubSeq(last, 1, j)
          /\ writer'.pending = SubSeq(last, j + 1, Len(last))
    BY <1>10, <1>11, <2>1, <2>2
  <2>4. writer'.opened /\ ~writer'.bad /\ writer'.held = <<>> /\ writer'.position = Len(written') - 1
        /\ written' # <<>>
    BY <1>1, <1>6, <1>11, <1>13
  <2> QED BY <1>6, <2>3, <2>4 DEF OnItsWay, last, base
<1> QED BY <1>12, <1>13
\* A step that leaves the file and what is lost of it.
LEMMA StillLost ==
  ASSUME LineLost, UNCHANGED file,
         written' = written \/ \E text \in Lines : written' = Append(written, text),
         TypeOK, writer'.pending = <<>>, writer'.opened => writer'.bad,
         writer'.held = writer.held \/ writer'.held = <<>>
  PROVE  LineLost'
<1>1. PICK k \in 0..Len(written) - 1 :
        \E n \in 0..Len(written[k + 1]), m \in 0..Len(written[k + 1]) + 1 :
          LostAt(written, file, writer.held, k, n, m)
  BY DEF LineLost
<1>2. PICK n \in 0..Len(written[k + 1]), m \in 0..Len(written[k + 1]) + 1 :
        LostAt(written, file, writer.held, k, n, m)
  BY <1>1
<1>3. k \in 0..Len(written) /\ Len(written) \in Nat
  BY WriterTypes
<1>4. /\ k \in 0..Len(written') - 1 /\ written'[k + 1] = written[k + 1]
      /\ SubSeq(written', 1, k) = SubSeq(written, 1, k)
  <2>1. CASE written' = written
    BY <2>1
  <2>2. CASE \E text \in Lines : written' = Append(written, text)
    BY <1>3, <2>2, OneLineMore
  <2> QED BY <2>1, <2>2
<1>5. LostAt(written', file', writer'.held, k, n, m)
  BY <1>2, <1>4 DEF LostAt
<1>6. n \in 0..Len(written'[k + 1]) /\ m \in 0..Len(written'[k + 1]) + 1
  BY <1>4
<1> QED BY <1>4, <1>5, <1>6 DEF LineLost

\* What is on its way is not nothing.
LEMMA NothingOnItsWay ==
  ASSUME TypeInv, OnItsWay
  PROVE  writer.pending # <<>>
<1> DEFINE last == Tokens(written[Len(written)])
           k == Len(written) - 1
<1>1. TypeOK /\ Len(written) \in Nat /\ written # <<>> /\ written \in Seq(Lines)
  BY WriterTypes DEF TypeInv, OnItsWay
<1>2. k \in 0..Len(written) - 1 /\ k + 1 = Len(written)
  <2>1. Len(written) # 0
    BY <1>1
  <2> QED BY <1>1, <2>1
<1>3. last \in Seq(Token) /\ Len(last) \in Nat
  <2>1. Tokens(written[k + 1]) \in Seq(Token) /\ Len(Tokens(written[k + 1])) \in Nat \ {0}
    BY <1>1, <1>2, LineBehind
  <2> QED BY <1>2, <2>1
<1>4. PICK n \in 0..Len(last) - 1 : writer.pending = SubSeq(last, n + 1, Len(last))
  BY DEF OnItsWay
<1> HIDE DEF last
<1>5. n \in 0..Len(last)
  BY <1>3
<1>6. Len(writer.pending) = Len(last) - n
  BY <1>3, <1>4, <1>5, SuffixItems
<1>7. Len(writer.pending) # 0
  BY <1>3, <1>6
<1> QED BY <1>7

LEMMA WriteLoses ==
  ASSUME LossInv, Write
  PROVE  EveryLine' \/ OnItsWay' \/ LineLost'
<1>1. /\ TypeInv /\ TypeOK /\ writer \in WriterType /\ file \in Seq(Token)
      /\ Len(written) \in Nat /\ writer.opened /\ writer.pending = <<>>
  BY WriterTypes DEF LossInv, TypeInv, Write
<1>2. PICK text \in Lines :
       /\ written' = Append(written, text)
       /\ \/ /\ writer.bad
             /\ writer' = [writer EXCEPT !.position = @ + 1]
             /\ UNCHANGED file
          \/ /\ ~writer.bad /\ text \in Torn
             /\ writer' = [writer EXCEPT !.pending = Tokens(text)]
             /\ UNCHANGED file
          \/ /\ ~writer.bad /\ text \notin Torn
             /\ Flush(Tokens(text))
  BY DEF Write
<1>3. CASE LineLost
  <2>1. writer.bad /\ writer' = [writer EXCEPT !.position = @ + 1] /\ UNCHANGED file
    BY <1>1, <1>2, <1>3 DEF LineLost
  <2>2. writer'.bad /\ writer'.held = writer.held /\ writer'.pending = <<>>
    BY <1>1, <2>1 DEF WriterType
  <2> QED BY <1>1, <1>2, <1>3, <2>1, <2>2, StillLost
<1>4. CASE EveryLine
  <2>1. ~writer.bad /\ file = FileOf(written) /\ writer.held = <<>>
        /\ writer.position = Len(written)
    BY <1>1, <1>4 DEF EveryLine
  <2>2. CASE Flush(Tokens(text))
    BY <1>1, <1>2, <1>4, <2>2, FlushLoses
  <2>3. CASE writer' = [writer EXCEPT !.pending = Tokens(text)] /\ UNCHANGED file
    <3> DEFINE last == Tokens(text)
    <3>1. /\ writer'.opened /\ ~writer'.bad /\ writer'.held = <<>>
          /\ writer'.pending = last /\ writer'.position = Len(written)
      BY <1>1, <2>1, <2>3 DEF WriterType
    <3>2. /\ Len(written') = Len(written) + 1 /\ written'[Len(written')] = text
          /\ SubSeq(written', 1, Len(written') - 1) = written
      BY <1>1, <1>2, OneLineMore
    <3>3. last \in Seq(Token) /\ Len(last) \in Nat /\ Len(last) >= 1
      <4>1. text \in Seq(Piece)
        BY LineTypes
      <4>2. last \in Seq(Token) /\ Len(last) = Len(text) + 1
        BY <4>1, TokensOfLine
      <4> QED BY <4>1, <4>2
    <3>4. /\ file' = FileOf(SubSeq(written', 1, Len(written') - 1)) \o SubSeq(last, 1, 0)
          /\ writer'.pending = SubSeq(last, 0 + 1, Len(last))
      <4>1. file \o SubSeq(last, 1, 0) = file
        BY <1>1, <3>3, NoneOfLine
      <4>2. SubSeq(last, 1, Len(last)) = last
        BY <3>3
      <4>3. FileOf(SubSeq(written', 1, Len(written') - 1)) = file
        BY <2>1, <3>2
      <4>4. writer'.pending = SubSeq(last, 0 + 1, Len(last))
        BY <3>1, <4>2
      <4> HIDE DEF last
      <4> QED BY <2>3, <4>1, <4>3, <4>4
    <3>5. 0 \in 0..Len(last) - 1
      BY <3>3
    <3>6. written' # <<>>
      <4>1. written' \in Seq(Lines)
        BY <1>1, <1>2, WriterTypes, AppendItems
      <4> QED BY <1>1, <3>2, <4>1
    <3>7. writer'.position = Len(written') - 1
      BY <1>1, <3>1, <3>2
    <3> HIDE DEF last
    <3>8. \E n \in 0..Len(last) - 1 :
            /\ file' = FileUpTo(Len(written) - 1)' \o SubSeq(last, 1, n)
            /\ writer'.pending = SubSeq(last, n + 1, Len(last))
      BY <3>4, <3>5 DEF FileUpTo
    <3> QED BY <3>1, <3>2, <3>6, <3>7, <3>8 DEF OnItsWay, last
  <2> QED BY <1>2, <2>1, <2>2, <2>3
<1>5. ~OnItsWay
  <2> SUFFICES ASSUME OnItsWay PROVE FALSE
    OBVIOUS
  <2> QED BY <1>1, NothingOnItsWay
<1> QED BY <1>3, <1>4, <1>5 DEF LossInv
LEMMA WriteFailsLoses ==
  ASSUME LossInv, WriteThroughFails
  PROVE  LineLost'
<1> DEFINE k == Len(written) - 1
           text == written[Len(written)]
           last == Tokens(text)
<1>1. /\ TypeInv /\ TypeOK /\ OnItsWay /\ writer \in WriterType /\ written # <<>>
      /\ Len(written) \in Nat /\ written \in Seq(Lines)
  BY WriterTypes DEF LossInv, TypeInv, WriteThroughFails, EveryLine, LineLost, OnItsWay
<1>2. k \in 0..Len(written) - 1 /\ k + 1 = Len(written)
  <2>1. Len(written) # 0
    BY <1>1
  <2> QED BY <1>1, <2>1
<1>3. last \in Seq(Token) /\ Len(last) = Len(text) + 1 /\ Len(text) \in Nat /\ file \in Seq(Token)
  <2>1. written[k + 1] \in Seq(Piece)
    BY <1>1, <1>2, LineBehind
  <2>2. text \in Seq(Piece)
    BY <1>2, <2>1
  <2>3. last \in Seq(Token) /\ Len(last) = Len(text) + 1
    BY <2>2, TokensOfLine
  <2> QED BY <1>1, <2>2, <2>3, WriterTypes
<1> HIDE DEF last
<1>4. PICK n \in 0..Len(last) - 1 :
        /\ file = FileUpTo(k) \o SubSeq(last, 1, n)
        /\ writer.pending = SubSeq(last, n + 1, Len(last))
  BY <1>1 DEF OnItsWay, last
<1>5. writer' = [writer EXCEPT !.pending = <<>>, !.position = @ + 1, !.bad = TRUE,
                   !.held = IF writer.pending = <<NewLine>> THEN writer.pending ELSE <<>>]
      /\ file' = file /\ written' = written
  BY DEF WriteThroughFails
<1>6. /\ writer'.pending = <<>> /\ writer'.bad
      /\ writer'.held = IF writer.pending = <<NewLine>> THEN writer.pending ELSE <<>>
  BY <1>1, <1>5 DEF WriterType
<1>7. file' = FileOf(SubSeq(written', 1, k)) \o SubSeq(last, 1, n) \o SubSeq(last, 1, 0)
  <2>1. file \o SubSeq(last, 1, 0) = file
    BY <1>3, NoneOfLine
  <2> QED BY <1>4, <1>5, <2>1 DEF FileUpTo
<1>8. writer'.held = <<>> \/ (writer'.held = <<NewLine>> /\ n = Len(text))
  <2> SUFFICES ASSUME writer.pending = <<NewLine>> PROVE n = Len(text)
    BY <1>6
  <2>1. n \in 0..Len(last)
    BY <1>3
  <2>2. Len(writer.pending) = Len(last) - n
    BY <1>3, <1>4, <2>1, SuffixItems
  <2>3. Len(writer.pending) = 1
    OBVIOUS
  <2> QED BY <1>3, <2>1, <2>2, <2>3
<1>9. written'[k + 1] = text
  BY <1>2, <1>5
<1>10. LostAt(written', file', writer'.held, k, n, 0)
  BY <1>7, <1>8, <1>9 DEF LostAt, last
<1>11. n \in 0..Len(text) /\ 0 \in 0..Len(text) + 1
  BY <1>3
<1>12. k \in 0..Len(written') - 1
  BY <1>2, <1>5
<1> HIDE DEF k, text
<1> QED BY <1>6, <1>9, <1>10, <1>11, <1>12 DEF LineLost

LEMMA WriterDiesLoses ==
  ASSUME LossInv, WriterDies
  PROVE  LineLost'
<1> DEFINE k == Len(written) - 1
           text == written[Len(written)]
           last == Tokens(text)
<1>1. /\ TypeInv /\ TypeOK /\ writer \in WriterType /\ Len(written) \in Nat
      /\ written \in Seq(Lines) /\ file \in Seq(Token)
  BY WriterTypes DEF LossInv, TypeInv
<1>2. /\ writer' = [writer EXCEPT !.opened = FALSE, !.pending = <<>>, !.held = <<>>]
      /\ file' = file /\ written' = written
  BY DEF WriterDies
<1>3. ~writer'.opened /\ writer'.pending = <<>> /\ writer'.held = <<>>
  BY <1>1, <1>2 DEF WriterType
<1>4. ~EveryLine
  <2>1. <<>> \o <<>> = <<>>
    OBVIOUS
  <2> QED BY <2>1 DEF EveryLine, WriterDies
<1>5. CASE LineLost
  BY <1>1, <1>2, <1>3, <1>5, StillLost
<1>6. CASE OnItsWay
  <2>1. k \in 0..Len(written) - 1 /\ k + 1 = Len(written)
    <3>1. Len(written) # 0
      BY <1>1, <1>6 DEF OnItsWay
    <3> QED BY <1>1, <3>1
  <2>2. last \in Seq(Token) /\ Len(last) = Len(text) + 1 /\ Len(text) \in Nat
    <3>1. written[k + 1] \in Seq(Piece)
      BY <1>1, <2>1, LineBehind
    <3>2. text \in Seq(Piece)
      BY <2>1, <3>1
    <3>3. last \in Seq(Token) /\ Len(last) = Len(text) + 1
      BY <3>2, TokensOfLine
    <3> QED BY <3>2, <3>3
  <2> HIDE DEF last
  <2>3. PICK n \in 0..Len(last) - 1 : file = FileUpTo(k) \o SubSeq(last, 1, n)
    BY <1>6 DEF OnItsWay, last
  <2>4. file' = FileOf(SubSeq(written', 1, k)) \o SubSeq(last, 1, n) \o SubSeq(last, 1, 0)
    <3>1. file \o SubSeq(last, 1, 0) = file
      BY <1>1, <2>2, NoneOfLine
    <3> QED BY <1>2, <2>3, <3>1 DEF FileUpTo
  <2>5. written'[k + 1] = text
    BY <1>2, <2>1
  <2>6. LostAt(written', file', writer'.held, k, n, 0)
    BY <1>3, <2>4, <2>5 DEF LostAt, last
  <2>7. n \in 0..Len(text) /\ 0 \in 0..Len(text) + 1
    BY <2>2
  <2>8. k \in 0..Len(written') - 1
    BY <1>2, <2>1
  <2> HIDE DEF k, text
  <2> QED BY <1>3, <2>5, <2>6, <2>7, <2>8 DEF LineLost
<1> QED BY <1>4, <1>5, <1>6 DEF LossInv

\* What the buffer still has of a line comes with the close.
LEMMA CloseLoses ==
  ASSUME LossInv, CloseWriter
  PROVE  EveryLine' \/ LineLost'
<1>1. /\ TypeInv /\ TypeOK /\ writer \in WriterType /\ Len(written) \in Nat
      /\ written \in Seq(Lines) /\ file \in Seq(Token) /\ writer.held \in Seq(Token)
      /\ writer.opened /\ writer.pending = <<>>
  BY WriterTypes DEF LossInv, TypeInv, CloseWriter
<1>2. /\ writer' = [writer EXCEPT !.opened = FALSE, !.held = <<>>] /\ written' = written
  BY DEF CloseWriter
<1>3. ~writer'.opened /\ writer'.pending = <<>> /\ writer'.held = <<>>
  BY <1>1, <1>2 DEF WriterType
<1>4. PICK j \in FailedAfter(writer.held) \cup {Len(writer.held)} :
        file' = file \o SubSeq(writer.held, 1, j)
  BY DEF CloseWriter
<1>5. j \in 0..Len(writer.held)
  BY <1>1, <1>4, FailedAfterPart
<1>6. ASSUME writer.held = <<>> PROVE file' = file
  <2>1. Len(writer.held) = 0
    BY <1>6
  <2>2. SubSeq(writer.held, 1, j) = SubSeq(writer.held, 1, 0)
    BY <1>5, <2>1
  <2> QED BY <1>1, <1>4, <2>2, NoneOfLine
<1>7. CASE EveryLine
  BY <1>2, <1>3, <1>6, <1>7 DEF EveryLine
<1>8. CASE LineLost
  <2>1. PICK k \in 0..Len(written) - 1 :
          \E n \in 0..Len(written[k + 1]), m \in 0..Len(written[k + 1]) + 1 :
            LostAt(written, file, writer.held, k, n, m)
    BY <1>8 DEF LineLost
  <2> DEFINE text == written[k + 1]
             lost == Tokens(text)
             base == FileUpTo(k)
  <2>2. PICK n \in 0..Len(text), m \in 0..Len(text) + 1 :
          LostAt(written, file, writer.held, k, n, m)
    BY <2>1
  <2>3. /\ text \in Seq(Piece) /\ lost \in Seq(Token) /\ FileUpTo(k + 1) = base \o lost
        /\ base \in Seq(Token) /\ k \in Nat
    <3>1. k \in 0..Len(written) /\ k \in Nat
      BY <1>1
    <3>2. base \in Seq(Token)
      BY <1>1, <3>1, LinesUpTo
    <3>3. text \in Seq(Piece) /\ lost \in Seq(Token) /\ FileUpTo(k + 1) = base \o lost
      BY <1>1, LineBehind
    <3> QED BY <3>1, <3>2, <3>3
  <2>4. Len(lost) = Len(text) + 1 /\ lost[Len(text) + 1] = NewLine /\ Len(text) \in Nat
    BY <2>3, TokensOfLine
  <2>5. CASE writer.held = <<>>
    BY <1>1, <1>2, <1>3, <1>6, <1>8, <2>5, StillLost
  <2>6. CASE m = 0 /\ writer.held = lost
    <3>1. file' = FileOf(SubSeq(written', 1, k)) \o SubSeq(lost, 1, n) \o SubSeq(lost, 1, j)
      <4>1. file = FileOf(SubSeq(written, 1, k)) \o SubSeq(lost, 1, n) \o SubSeq(lost, 1, m)
        BY <2>2 DEF LostAt
      <4>2. SubSeq(lost, 1, n) \in Seq(Token)
        <5>1. n \in 0..Len(lost)
          BY <2>4
        <5> QED BY <2>3, <5>1, PrefixItems
      <4>3. base \o SubSeq(lost, 1, n) \in Seq(Token)
        BY <2>3, <4>2, ConcatItems
      <4>4. file = base \o SubSeq(lost, 1, n)
        <5> DEFINE begin == base \o SubSeq(lost, 1, n)
        <5>1. begin \o SubSeq(lost, 1, 0) = begin
          <6> HIDE DEF begin
          <6> QED BY <2>3, <4>3, NoneOfLine DEF begin
        <5> QED BY <2>6, <4>1, <5>1 DEF FileUpTo
      <4>5. file' = file \o SubSeq(lost, 1, j)
        BY <1>4, <2>6
      <4> HIDE DEF lost
      <4> QED BY <1>2, <4>4, <4>5 DEF FileUpTo
    <3>2. LostAt(written', file', writer'.held, k, n, j)
      BY <1>2, <1>3, <3>1 DEF LostAt
    <3>3. j \in 0..Len(text) + 1
      BY <1>5, <2>4, <2>6
    <3> HIDE DEF text
    <3>4. k \in 0..Len(written') - 1 /\ written'[k + 1] = text
      BY <1>2 DEF text
    <3> QED BY <1>3, <2>2, <3>2, <3>3, <3>4 DEF LineLost
  <2>7. CASE m = 0 /\ writer.held = <<NewLine>> /\ n = Len(text)
    <3>1. j \in {0, 1}
      BY <1>5, <2>7
    <3>2. CASE j = 0
      <4>1. SubSeq(writer.held, 1, j) = <<>>
        BY <3>2, <1>1, NoneOfLine
      <4>2. file' = file
        BY <1>1, <1>4, <4>1, ConcatEmpty
      <4> QED BY <1>1, <1>2, <1>3, <1>8, <4>2, StillLost
    <3>3. CASE j = 1
      <4>1. file' = file \o <<NewLine>>
        BY <1>4, <2>7, <3>3
      <4> DEFINE first == SubSeq(lost, 1, n)
                 newLine == <<NewLine>>
      <4>2. first \in Seq(Token) /\ newLine \in Seq(Token)
        <5>1. n \in 0..Len(lost)
          BY <2>4
        <5> QED BY <2>3, <5>1, PrefixItems DEF Token
      <4>3. file = base \o first
        <5>1. file = FileOf(SubSeq(written, 1, k)) \o SubSeq(lost, 1, n) \o SubSeq(lost, 1, m)
          BY <2>2 DEF LostAt
        <5> DEFINE begin == base \o first
        <5>2. begin \in Seq(Token)
          <6> HIDE DEF base, first
          <6> QED BY <2>3, <4>2, ConcatItems
        <5>3. begin \o SubSeq(lost, 1, 0) = begin
          <6> HIDE DEF begin
          <6> QED BY <2>3, <5>2, NoneOfLine
        <5> QED BY <2>7, <5>1, <5>3 DEF FileUpTo
      <4>4. lost = first \o newLine
        <5>1. Len(lost) = n + 1 /\ lost[n + 1] = NewLine /\ lost # <<>>
          BY <2>3, <2>4, <2>7, TokensOfLine
        <5>2. lost = Append(SubSeq(lost, 1, Len(lost) - 1), lost[Len(lost)])
          BY <2>3, <5>1, FrontAndLast
        <5>3. Len(lost) - 1 = n
          BY <5>1, <2>4, <2>7
        <5>4. lost = Append(first, NewLine)
          BY <5>1, <5>2, <5>3
        <5>5. Append(first, NewLine) = first \o newLine
          <6> HIDE DEF first
          <6>1. NewLine \in Token
            BY DEF Token
          <6> QED BY <4>2, <6>1, AppendConcat
        <5> QED BY <5>4, <5>5
      <4> HIDE DEF first, newLine, base, lost
      <4>5. file' = base \o lost
        <5>1. (base \o first) \o newLine = base \o (first \o newLine)
          <6>1. base \in Seq(Token) /\ first \in Seq(Token) /\ newLine \in Seq(Token)
            BY <2>3, <4>2
          <6>2. Associates(base, first, newLine)
            BY <6>1, ConcatAssociates
          <6> QED BY <6>2 DEF Associates
        <5> QED BY <4>1, <4>3, <4>4, <5>1 DEF newLine
      <4>6. file' = FileUpTo(k + 1)
        BY <2>3, <4>5
      <4>7. CASE k + 1 = Len(written)
        <5>1. FileUpTo(Len(written)) = FileOf(written)
          <6>1. Len(written) \in 0..Len(written)
            BY <1>1
          <6> QED BY <1>1, <6>1, LinesUpTo
        <5> QED BY <1>2, <1>3, <4>6, <4>7, <5>1 DEF EveryLine
      <4>8. CASE k + 1 # Len(written)
        <5> DEFINE q == k + 1
                   next == Tokens(written[q + 1])
        <5>1. q \in 0..Len(written) - 1 /\ q \in 0..Len(written)
          BY <1>1, <2>3, <4>8
        <5>2. next \in Seq(Token) /\ written[q + 1] \in Seq(Piece)
          <6> HIDE DEF q
          <6> QED BY <1>1, <5>1, LineBehind
        <5>3. FileUpTo(q) \o SubSeq(next, 1, 0) \o SubSeq(next, 1, 0) = FileUpTo(q)
          <6> HIDE DEF q, next
          <6>1. FileUpTo(q) \in Seq(Token)
            BY <1>1, <5>1, LinesUpTo
          <6> QED BY <5>2, <6>1, NoneOfLine
        <5>4. LostAt(written', file', writer'.held, q, 0, 0)
          BY <1>2, <1>3, <4>6, <5>3 DEF LostAt, FileUpTo
        <5>5. 0 \in 0..Len(written[q + 1]) /\ 0 \in 0..Len(written[q + 1]) + 1
          BY <5>2
        <5> HIDE DEF q
        <5> QED BY <1>2, <1>3, <5>1, <5>4, <5>5 DEF LineLost
      <4> QED BY <4>7, <4>8
    <3> QED BY <3>1, <3>2, <3>3
  <2> QED BY <2>2, <2>5, <2>6, <2>7 DEF LostAt
<1>9. ~OnItsWay
  BY <1>1, NothingOnItsWay
<1> QED BY <1>7, <1>8, <1>9 DEF LossInv
LEMMA StepLoses == LossInv /\ [Next]_vars => EveryLine' \/ OnItsWay' \/ LineLost'
<1> SUFFICES ASSUME LossInv, [Next]_vars PROVE EveryLine' \/ OnItsWay' \/ LineLost'
  OBVIOUS
<1>1. TypeInv
  BY DEF LossInv
<1>2. CASE OpenWriter
  <2>1. /\ writer'.pending = <<>> /\ writer'.held = <<>> /\ ~writer'.bad
        /\ writer'.position = Len(written') /\ file' = <<>> /\ written' = <<>>
    BY <1>2 DEF OpenWriter
  <2> QED BY <2>1, FileOfEmpty DEF EveryLine
<1>3. CASE Write
  BY <1>3, WriteLoses
<1>4. CASE WriteThrough
  <2>1. OnItsWay
    BY <1>4 DEF LossInv, WriteThrough, EveryLine, LineLost
  <2> QED BY <1>1, <1>4, <2>1, WriteThroughLoses
<1>5. CASE WriteThroughFails
  BY <1>5, WriteFailsLoses
<1>6. CASE CloseWriter
  BY <1>6, CloseLoses
<1>7. CASE WriterDies
  BY <1>7, WriterDiesLoses
<1>8. CASE UNCHANGED writerVars
  <2>1. file' = file /\ writer' = writer /\ written' = written
    BY <1>8 DEF writerVars
  <2> QED BY <2>1 DEF LossInv, EveryLine, OnItsWay, LineLost, FileUpTo
<1>9. OpenReader \/ CloseReader \/ Poll \/ UNCHANGED vars => UNCHANGED writerVars
  BY DEF OpenReader, CloseReader, Poll, TryRead, TakeLine, Underflow, ReachEnd, vars, writerVars
<1> QED BY <1>2, <1>3, <1>4, <1>5, <1>6, <1>7, <1>8, <1>9 DEF Next, Writer

LEMMA InitLossInv == Init => LossInv
<1> SUFFICES ASSUME Init PROVE TypeInv /\ EveryLine
  BY DEF LossInv
<1>1. TypeInv
  BY InitTypes
<1>2. EveryLine
  BY FileOfEmpty DEF Init, EveryLine
<1> QED BY <1>1, <1>2

LEMMA StepLossInv == LossInv /\ [Next]_vars => LossInv'
BY StepTypes, StepLoses DEF LossInv

LEMMA LostIsBehindAll == LossInv => NothingBehindLostLine
<1> SUFFICES ASSUME LossInv PROVE NothingBehindLostLine
  OBVIOUS
<1> DEFINE Beginnings(k) ==
             LET lost == Tokens(written[k + 1]) IN
             \E n \in 0..Len(lost) - 1, m \in 0..Len(lost) :
               file = FileOf(SubSeq(written, 1, k)) \o SubSeq(lost, 1, n) \o SubSeq(lost, 1, m)
<1>1. /\ TypeInv /\ TypeOK /\ Len(written) \in Nat /\ written \in Seq(Lines)
      /\ file \in Seq(Token)
  BY WriterTypes DEF LossInv, TypeInv
<1>2. ASSUME NEW k \in 0..Len(written) - 1
      PROVE  /\ Len(Tokens(written[k + 1])) = Len(written[k + 1]) + 1 /\ Len(written[k + 1]) \in Nat
             /\ Tokens(written[k + 1]) \in Seq(Token)
  <2>1. written[k + 1] \in Seq(Piece)
    BY <1>1, LineBehind
  <2>2. Len(written[k + 1]) \in Nat
    BY <2>1
  <2> QED BY <2>1, <2>2, TokensOfLine
<1>3. CASE EveryLine
  BY <1>3 DEF EveryLine, NothingBehindLostLine
<1>4. CASE LineLost
  <2>1. PICK k \in 0..Len(written) - 1 :
          \E n \in 0..Len(written[k + 1]), m \in 0..Len(written[k + 1]) + 1 :
            LostAt(written, file, writer.held, k, n, m)
    BY <1>4 DEF LineLost
  <2>2. PICK n \in 0..Len(written[k + 1]), m \in 0..Len(written[k + 1]) + 1 :
          LostAt(written, file, writer.held, k, n, m)
    BY <2>1
  <2>3. n \in 0..Len(Tokens(written[k + 1])) - 1 /\ m \in 0..Len(Tokens(written[k + 1]))
    BY <1>2, <2>2
  <2>4. Beginnings(k)
    BY <2>2, <2>3 DEF LostAt
  <2>5. writer.opened => writer.bad
    BY <1>4 DEF LineLost
  <2> QED BY <2>1, <2>4, <2>5 DEF NothingBehindLostLine
<1>5. CASE OnItsWay
  <2> DEFINE k == Len(written) - 1
             last == Tokens(written[k + 1])
  <2>1. k \in 0..Len(written) - 1 /\ k + 1 = Len(written)
    <3>1. Len(written) # 0
      BY <1>1, <1>5 DEF OnItsWay
    <3> QED BY <1>1, <3>1
  <2>2. PICK n \in 0..Len(last) - 1 : file = FileUpTo(k) \o SubSeq(last, 1, n)
    BY <1>5, <2>1 DEF OnItsWay
  <2>3. last \in Seq(Token) /\ Len(last) \in Nat
    <3> HIDE DEF k
    <3> QED BY <1>2, <2>1
  <2>4. file = FileOf(SubSeq(written, 1, k)) \o SubSeq(last, 1, n) \o SubSeq(last, 1, 0)
    <3> HIDE DEF last
    <3>1. file \o SubSeq(last, 1, 0) = file
      BY <1>1, <2>3, NoneOfLine
    <3> QED BY <2>2, <3>1 DEF FileUpTo
  <2>5. Beginnings(k)
    <3>1. 0 \in 0..Len(last)
      BY <2>3
    <3> HIDE DEF k
    <3> QED BY <2>4, <3>1
  <2>6. writer.pending # <<>>
    BY <1>1, <1>5, NothingOnItsWay
  <2> HIDE DEF k, last
  <2> QED BY <2>1, <2>5, <2>6 DEF NothingBehindLostLine
<1> QED BY <1>3, <1>4, <1>5 DEF LossInv

(* Once a line of a writer was lost, in the buffer, on its way or with the *)
(* process, nothing of a later one reaches the file, not even in the close *)
(* (write and close of file.tpp); as long as the stream is good, the file  *)
(* has every line it counted.                                              *)
THEOREM FileLineStreamsNothingBehindLostLine == Spec => []NothingBehindLostLine
<1> QED BY InitLossInv, StepLossInv, LostIsBehindAll, PTL DEF Spec
-----------------------------------------------------------------------------
(* Whole lines.                                                            *)

\* The file has the lines up to a place, then those from it to a later one.
LEMMA LinesBetween ==
  ASSUME TypeOK, NEW n \in Nat, NEW m \in 0..Len(written), n <= m
  PROVE  /\ SubSeq(written, n + 1, m) \in Seq(Seq(Piece))
         /\ Len(SubSeq(written, n + 1, m)) = m - n
         /\ FileOf(SubSeq(written, n + 1, m)) \in Seq(Token)
         /\ FileUpTo(m) = FileUpTo(n) \o FileOf(SubSeq(written, n + 1, m))
         /\ n = m => FileOf(SubSeq(written, n + 1, m)) = <<>>
<1> DEFINE Line == Seq(Piece)
           first == SubSeq(written, 1, n)
           next == SubSeq(written, n + 1, m)
<1>1. written \in Seq(Line)
  BY WrittenText
<1> HIDE DEF Line
<1>2. /\ next \in Seq(Line) /\ Len(next) = m - n /\ first \in Seq(Line)
      /\ SubSeq(written, 1, m) = first \o next
  BY <1>1, BeginningGrows
<1>3. n = m => next = <<>>
  BY <1>2
<1> HIDE DEF first, next
<1>4. FileOf(first \o next) = FileOf(first) \o FileOf(next) /\ FileOf(next) \in Seq(Token)
  BY <1>2, FileOfConcat, FileOfType DEF Line
<1>5. n = m => FileOf(next) = <<>>
  BY <1>3, FileOfEmpty
<1> QED BY <1>2, <1>4, <1>5 DEF FileUpTo, first, next, Line

\* The first of several lines, and the others.
LEMMA FirstLine ==
  ASSUME TypeOK, NEW n \in Nat, NEW m \in 0..Len(written), n < m
  PROVE  /\ written[n + 1] \in Seq(Piece)
         /\ FileOf(SubSeq(written, n + 2, m)) \in Seq(Token)
         /\ FileOf(SubSeq(written, n + 1, m))
              = Tokens(written[n + 1]) \o FileOf(SubSeq(written, n + 2, m))
<1> DEFINE Line == Seq(Piece)
           text == written[n + 1]
           one == <<text>>
           lines == SubSeq(written, n + 1, m)
           others == SubSeq(written, n + 2, m)
<1>1. written \in Seq(Line) /\ n <= m /\ Len(written) \in Nat
  <2>1. written \in Seq(Line)
    BY WrittenText
  <2> HIDE DEF Line
  <2> QED BY <2>1
<1> HIDE DEF Line
<1>2. text \in Line /\ one \in Seq(Line)
  BY <1>1
<1>3. lines \in Seq(Line) /\ Len(lines) = m - n /\ \A i \in 1..m - n : lines[i] = written[n + i]
  BY <1>1
<1>4. others \in Seq(Line) /\ Len(others) = m - n - 1
      /\ \A i \in 1..m - n - 1 : others[i] = written[n + 1 + i]
  BY <1>1
<1>5. lines = one \o others
  <2> DEFINE both == one \o others
  <2>1. one \in Seq(Line) /\ others \in Seq(Line) /\ Len(one) = 1 /\ one[1] = text
    BY <1>2, <1>4
  <2>2. /\ both \in Seq(Line) /\ Len(both) = 1 + Len(others)
        /\ both[1] = text /\ \A i \in 1..Len(others) : both[1 + i] = others[i]
    <3> HIDE DEF one, others, text
    <3>1. /\ both \in Seq(Line) /\ Len(both) = Len(one) + Len(others)
          /\ \A i \in 1..Len(one) : both[i] = one[i]
          /\ \A i \in 1..Len(others) : both[Len(one) + i] = others[i]
      <4>1. one \in Seq(Line) /\ others \in Seq(Line)
        BY <2>1
      <4> QED BY <4>1, ConcatItems
    <3> QED BY <2>1, <3>1
  <2> HIDE DEF both, one, others, lines, text
  <2>3. Len(both) = Len(lines)
    BY <1>3, <1>4, <2>2
  <2>4. \A i \in 1..Len(lines) : lines[i] = both[i]
    <3>1. TAKE i \in 1..Len(lines)
    <3>2. CASE i = 1
      BY <1>3, <2>2, <3>1, <3>2 DEF text
    <3>3. CASE i # 1
      <4> DEFINE j == i - 1
      <4>1. j \in 1..Len(others) /\ i = 1 + j /\ j \in 1..m - n - 1
        BY <1>3, <1>4, <3>1, <3>3
      <4>2. n + 1 + j = n + i
        BY <4>1
      <4>3. lines[i] = written[n + i]
        BY <1>3, <3>1
      <4>4. others[j] = written[n + 1 + j]
        BY <1>4, <4>1
      <4>5. both[1 + j] = others[j]
        BY <2>2, <4>1
      <4> QED BY <4>1, <4>2, <4>3, <4>4, <4>5
    <3> QED BY <3>2, <3>3
  <2>5. lines = both
    BY <1>3, <2>2, <2>3, <2>4, SameItems
  <2> QED BY <2>5 DEF both
<1> HIDE DEF one, others, lines, text
<1>6. FileOf(one \o others) = FileOf(one) \o FileOf(others)
  BY <1>2, <1>4, FileOfConcat DEF Line
<1>7. FileOf(one) = Tokens(text)
  BY <1>2, FileOfOne DEF one, Line
<1>8. FileOf(others) \in Seq(Token)
  BY <1>4, FileOfType DEF Line
<1> QED BY <1>2, <1>5, <1>6, <1>7, <1>8 DEF lines, others, text, Line

\* Lines end with a newline.
LEMMA LastIsNewLine ==
  ASSUME TypeOK, NEW k \in 0..Len(written), FileUpTo(k) # <<>>
  PROVE  FileUpTo(k)[Len(FileUpTo(k))] = NewLine
<1> DEFINE n == k - 1
           base == FileUpTo(n)
           tokens == Tokens(written[n + 1])
<1>1. k # 0 /\ Len(written) \in Nat
  <2> SUFFICES ASSUME k = 0 PROVE FALSE
    BY LinesUpTo
  <2>1. SubSeq(written, 1, k) = <<>>
    BY WrittenText
  <2> QED BY <2>1, FileOfEmpty DEF FileUpTo
<1>2. n \in 0..Len(written) - 1 /\ n \in 0..Len(written) /\ n + 1 = k
  BY <1>1
<1> HIDE DEF n
<1>3. /\ tokens \in Seq(Token) /\ Len(tokens) \in Nat \ {0} /\ tokens[Len(tokens)] = NewLine
      /\ FileUpTo(n + 1) = base \o tokens
  BY <1>2, LineBehind
<1>4. base \in Seq(Token)
  BY <1>2, LinesUpTo
<1> HIDE DEF base, tokens
<1>5. Len(base \o tokens) = Len(base) + Len(tokens)
      /\ \A i \in 1..Len(tokens) : (base \o tokens)[Len(base) + i] = tokens[i]
  BY <1>3, <1>4, ConcatItems
<1>6. Len(tokens) \in 1..Len(tokens)
  BY <1>3
<1> QED BY <1>2, <1>3, <1>5, <1>6

\* The first line of tokens that begin with one.
LEMMA FirstNewLineOfLine ==
  ASSUME NEW text \in Seq(Piece), NEW rest \in Seq(Token),
         NEW n \in 1..Len(Tokens(text) \o rest), (Tokens(text) \o rest)[n] = NewLine,
         \A k \in 1..n - 1 : (Tokens(text) \o rest)[k] # NewLine
  PROVE  /\ SubSeq(Tokens(text) \o rest, 1, n - 1) = text
         /\ SubSeq(Tokens(text) \o rest, n + 1, Len(Tokens(text) \o rest)) = rest
<1> DEFINE tokens == Tokens(text)
           all == tokens \o rest
<1>1. /\ tokens \in Seq(Token) /\ Len(tokens) = Len(text) + 1 /\ Len(text) \in Nat
      /\ tokens[Len(text) + 1] = NewLine
      /\ \A k \in 1..Len(text) : tokens[k] = text[k] /\ text[k] # NewLine
  BY TokensOfLine
<1> HIDE DEF tokens
<1>2. /\ all \in Seq(Token) /\ Len(all) = Len(tokens) + Len(rest) /\ Len(rest) \in Nat
      /\ \A k \in 1..Len(tokens) : all[k] = tokens[k]
  <2>1. tokens \in Seq(Token) /\ rest \in Seq(Token)
    BY <1>1
  <2>2. Len(rest) \in Nat
    OBVIOUS
  <2> QED BY <2>1, <2>2, ConcatItems
<1>3. SubSeq(all, 1, Len(tokens)) = tokens /\ SubSeq(all, Len(tokens) + 1, Len(all)) = rest
  BY <1>1, ConcatParts
<1>4. n \in 1..Len(all) /\ all[n] = NewLine /\ \A k \in 1..n - 1 : all[k] # NewLine
  BY DEF tokens
<1> HIDE DEF all
<1>5. n = Len(tokens)
  <2>1. n <= Len(text) => FALSE
    <3> SUFFICES ASSUME n <= Len(text) PROVE FALSE
      OBVIOUS
    <3>1. n \in 1..Len(text) /\ n \in 1..Len(tokens)
      BY <1>1
    <3>2. all[n] = tokens[n] /\ tokens[n] = text[n] /\ text[n] # NewLine
      BY <1>1, <1>2, <3>1
    <3> QED BY <1>4, <3>2
  <2>2. n > Len(tokens) => FALSE
    <3> SUFFICES ASSUME n > Len(tokens) PROVE FALSE
      OBVIOUS
    <3>1. Len(tokens) \in 1..n - 1 /\ Len(tokens) \in 1..Len(tokens)
      BY <1>1
    <3>2. all[Len(tokens)] = NewLine
      BY <1>1, <1>2, <3>1
    <3> QED BY <1>4, <3>1, <3>2
  <2> QED BY <1>1, <1>2, <1>4, <2>1, <2>2
<1>6. SubSeq(all, 1, n - 1) = text
  <2>1. n - 1 \in 0..Len(all) /\ n - 1 = Len(text)
    BY <1>1, <1>2, <1>5
  <2>2. /\ SubSeq(all, 1, n - 1) \in Seq(Token) /\ Len(SubSeq(all, 1, n - 1)) = Len(text)
        /\ \A k \in 1..Len(text) : SubSeq(all, 1, n - 1)[k] = all[k]
    BY <1>2, <2>1, PrefixItems
  <2>3. \A k \in 1..Len(text) : all[k] = text[k]
    BY <1>1, <1>2
  <2>4. text \in Seq(Token)
    BY TextOfText
  <2> DEFINE first == SubSeq(all, 1, n - 1)
  <2>5. first \in Seq(Token) /\ Len(first) = Len(text) /\ \A k \in 1..Len(text) : first[k] = text[k]
    BY <2>2, <2>3
  <2> HIDE DEF first
  <2>6. first = text
    BY <2>4, <2>5, SameItems
  <2> QED BY <2>6 DEF first
<1> QED BY <1>3, <1>5, <1>6 DEF all, tokens
\* Writes that are not cut leave all of a text, or nothing of it.
LEMMA WholeFailure ==
  ASSUME Whole, NEW tokens, NEW n \in FailedAfter(tokens)
  PROVE  n = 0
BY DEF Whole, FailedAfter

LEMMA StepWholeFile ==
  ASSUME Whole, TypeInv, WholeFile, [Next]_vars
  PROVE  WholeFile'
<1>1. /\ TypeOK /\ writer \in WriterType /\ file \in Seq(Token) /\ Len(written) \in Nat
      /\ written \in Seq(Lines) /\ writer.held \in Seq(Token) /\ writer.pending = <<>>
  BY WriterTypes DEF TypeInv, WholeFile
<1>2. PICK k \in 0..Len(written) :
        /\ file = FileUpTo(k)
        /\ writer.held # <<>> => k < Len(written) /\ writer.held = Tokens(written[k + 1])
        /\ writer.opened /\ ~writer.bad => k = Len(written) /\ writer.held = <<>>
  BY DEF WholeFile
<1>3. CASE OpenWriter
  <2>1. /\ writer'.pending = <<>> /\ writer'.held = <<>> /\ file' = <<>> /\ written' = <<>>
    BY <1>3 DEF OpenWriter
  <2>2. Len(written') = 0 /\ 0 \in 0..Len(written') /\ SubSeq(written', 1, 0) = <<>>
    BY <2>1
  <2>3. file' = FileOf(SubSeq(written', 1, 0))
    BY <2>1, <2>2, FileOfEmpty
  <2> QED BY <2>1, <2>2, <2>3 DEF WholeFile, FileUpTo
<1>4. CASE Write
  <2>1. PICK text \in Lines :
         /\ written' = Append(written, text)
         /\ \/ /\ writer.bad
               /\ writer' = [writer EXCEPT !.position = @ + 1]
               /\ UNCHANGED file
            \/ ~writer.bad /\ Flush(Tokens(text))
    BY <1>4 DEF Write, Whole
  <2> DEFINE tokens == Tokens(text)
  <2>2. /\ Len(written') = Len(written) + 1 /\ written'[Len(written')] = text
        /\ FileOf(written') = FileOf(written) \o tokens
        /\ \A i \in 0..Len(written) : SubSeq(written', 1, i) = SubSeq(written, 1, i)
        /\ \A i \in 0..Len(written) - 1 : written'[i + 1] = written[i + 1]
    BY <1>1, <2>1, OneLineMore
  <2>3. k \in 0..Len(written') /\ FileOf(SubSeq(written', 1, k)) = file
    <3>1. k \in 0..Len(written')
      BY <1>1, <2>2
    <3>2. SubSeq(written', 1, k) = SubSeq(written, 1, k)
      BY <2>2
    <3>3. FileOf(SubSeq(written, 1, k)) = file
      BY <1>2 DEF FileUpTo
    <3> QED BY <3>1, <3>2, <3>3
  <2>4. CASE writer.bad /\ writer' = [writer EXCEPT !.position = @ + 1] /\ UNCHANGED file
    <3>1. writer'.pending = <<>> /\ writer'.held = writer.held /\ writer'.bad
      BY <1>1, <2>4 DEF WriterType
    <3>2. writer'.held # <<>> => k < Len(written') /\ writer'.held = Tokens(written'[k + 1])
      <4> SUFFICES ASSUME writer.held # <<>>
                   PROVE  k < Len(written') /\ writer'.held = Tokens(written'[k + 1])
        BY <3>1
      <4>1. k \in 0..Len(written) - 1 /\ k < Len(written')
        BY <1>1, <1>2, <2>2
      <4>2. written'[k + 1] = written[k + 1]
        BY <2>2, <4>1
      <4> QED BY <1>2, <3>1, <4>1, <4>2
    <3> QED BY <2>3, <2>4, <3>1, <3>2 DEF WholeFile, FileUpTo
  <2>5. CASE ~writer.bad /\ file' = file \o tokens /\ writer' = [writer EXCEPT !.position = @ + 1]
    <3>1. k = Len(written) /\ writer.held = <<>>
      BY <1>2, <1>4, <2>5 DEF Write
    <3>2. /\ writer'.pending = <<>> /\ writer'.held = <<>>
      BY <1>1, <2>5, <3>1 DEF WriterType
    <3>3. file = FileOf(written)
      BY <1>1, <1>2, <3>1, LinesUpTo
    <3>4. file' = FileOf(written')
      BY <2>2, <2>5, <3>3
    <3>5. SubSeq(written', 1, Len(written')) = written' /\ Len(written') \in 0..Len(written')
      <4>1. written' \in Seq(Lines)
        BY <1>1, <2>1, AppendItems
      <4> QED BY <4>1
    <3>6. file' = FileOf(SubSeq(written', 1, Len(written')))
      BY <3>4, <3>5
    <3> QED BY <3>2, <3>5, <3>6 DEF WholeFile, FileUpTo
  <2>6. CASE ~writer.bad /\ \E n \in FailedAfter(tokens) :
               /\ file' = file \o SubSeq(tokens, 1, n)
               /\ writer' = [writer EXCEPT !.position = @ + 1, !.bad = TRUE, !.held = tokens]
    <3>1. PICK n \in FailedAfter(tokens) :
               /\ file' = file \o SubSeq(tokens, 1, n)
               /\ writer' = [writer EXCEPT !.position = @ + 1, !.bad = TRUE, !.held = tokens]
      BY <2>6
    <3>2. n = 0
      BY WholeFailure
    <3>3. file' = file
      <4>1. tokens \in Seq(Token)
        BY LineTypes
      <4> HIDE DEF tokens
      <4>2. file \o SubSeq(tokens, 1, 0) = file
        BY <1>1, <4>1, NoneOfLine
      <4> QED BY <3>1, <3>2, <4>2
    <3>4. writer'.pending = <<>> /\ writer'.held = tokens /\ writer'.bad
      BY <1>1, <3>1 DEF WriterType
    <3>5. k = Len(written)
      BY <1>2, <1>4, <2>6 DEF Write
    <3>6. k < Len(written') /\ k + 1 = Len(written')
      BY <1>1, <2>2, <3>5
    <3>7. tokens = Tokens(written'[k + 1])
      BY <2>2, <3>6
    <3> HIDE DEF tokens
    <3> QED BY <2>3, <3>3, <3>4, <3>6, <3>7 DEF WholeFile, FileUpTo
  <2> QED BY <2>1, <2>4, <2>5, <2>6 DEF Flush
<1>5. ~WriteThrough /\ ~WriteThroughFails
  BY <1>1 DEF WriteThrough, WriteThroughFails
<1>6. CASE CloseWriter
  <2> DEFINE held == writer.held
  <2>1. /\ writer' = [writer EXCEPT !.opened = FALSE, !.held = <<>>] /\ written' = written
    BY <1>6 DEF CloseWriter
  <2>2. ~writer'.opened /\ writer'.pending = <<>> /\ writer'.held = <<>>
    BY <1>1, <2>1 DEF WriterType
  <2>3. PICK j \in FailedAfter(held) \cup {Len(held)} : file' = file \o SubSeq(held, 1, j)
    BY <1>6 DEF CloseWriter
  <2>4. held \in Seq(Token) /\ SubSeq(held, 1, Len(held)) = held
    BY <1>1
  <2> HIDE DEF held
  <2>5. CASE j = 0 \/ held = <<>>
    <3>1. j = 0
      <4>1. j \in 0..Len(held)
        BY <2>3, <2>4, FailedAfterPart
      <4>2. held = <<>> => Len(held) = 0
        OBVIOUS
      <4> QED BY <2>5, <4>1, <4>2
    <3>2. file \o SubSeq(held, 1, 0) = file
      BY <1>1, <2>4, NoneOfLine
    <3>3. file' = file
      BY <2>3, <3>1, <3>2
    <3> QED BY <1>2, <2>1, <2>2, <3>3 DEF WholeFile, FileUpTo
  <2>6. CASE j # 0 /\ held # <<>>
    <3>1. j = Len(held)
      BY <2>3, <2>6, WholeFailure
    <3>2. k \in 0..Len(written) - 1 /\ held = Tokens(written[k + 1]) /\ k + 1 \in 0..Len(written)
      BY <1>1, <1>2, <2>6 DEF held
    <3>3. FileUpTo(k + 1) = FileUpTo(k) \o Tokens(written[k + 1])
      BY <1>1, <3>2, LineBehind
    <3>4. file' = FileUpTo(k + 1)
      BY <1>2, <2>3, <2>4, <3>1, <3>2, <3>3
    <3>5. file' = FileOf(SubSeq(written', 1, k + 1)) /\ k + 1 \in 0..Len(written')
      BY <2>1, <3>2, <3>4 DEF FileUpTo
    <3> QED BY <2>2, <3>5 DEF WholeFile, FileUpTo
  <2> QED BY <2>5, <2>6
<1>7. CASE WriterDies
  <2>1. /\ writer' = [writer EXCEPT !.opened = FALSE, !.pending = <<>>, !.held = <<>>]
        /\ file' = file /\ written' = written
    BY <1>7 DEF WriterDies
  <2>2. ~writer'.opened /\ writer'.pending = <<>> /\ writer'.held = <<>>
    BY <1>1, <2>1 DEF WriterType
  <2> QED BY <1>2, <2>1, <2>2 DEF WholeFile, FileUpTo
<1>8. CASE UNCHANGED writerVars
  <2>1. file' = file /\ writer' = writer /\ written' = written
    BY <1>8 DEF writerVars
  <2> QED BY <1>1, <1>2, <2>1 DEF WholeFile, FileUpTo
<1>9. OpenReader \/ CloseReader \/ Poll \/ UNCHANGED vars => UNCHANGED writerVars
  BY DEF OpenReader, CloseReader, Poll, TryRead, TakeLine, Underflow, ReachEnd, vars, writerVars
<1> QED BY <1>3, <1>4, <1>5, <1>6, <1>7, <1>8, <1>9 DEF Next, Writer
\* The read-ahead of a reader of whole lines, and the end of its file.
LEMMA LooseAhead ==
  ASSUME TypeInv, NoLooseText, ~Contains(ifstream.ahead, NewLine)
  PROVE  ifstream.ahead = <<>>
<1> DEFINE ahead == ifstream.ahead
<1>1. ahead \in Seq(Token) /\ (ahead # <<>> => ahead[Len(ahead)] = NewLine)
  BY StreamTypes DEF TypeInv, NoLooseText
<1>2. \A i \in 1..Len(ahead) : ahead[i] # NewLine
  BY <1>1 DEF Contains
<1> HIDE DEF ahead
<1>3. ahead # <<>> => Len(ahead) \in 1..Len(ahead)
  BY <1>1
<1>4. ahead = <<>>
  BY <1>1, <1>2, <1>3
<1> QED BY <1>4 DEF ahead

\* Each poll of a reader of whole lines.
LEMMA WholePoll ==
  ASSUME TypeInv, NoLooseText, Poll
  PROVE  /\ reader.opened /\ ~reader.ended /\ ~ifstream.eof
         /\ UNCHANGED writerVars /\ UNCHANGED opens
         /\ \/ /\ UNCHANGED <<got, reader, ifstream>> /\ line' = << <<>> >>
            \/ TakeLine /\ line = << <<>> >>
            \/ Underflow /\ line' = << <<>> >> /\ ifstream.ahead = <<>>
            \/ /\ ReachEnd /\ NoLine /\ ifstream.ahead = <<>> /\ UNCHANGED got
               /\ ifstream.offset >= Len(file)
<1>1. /\ TypeOK /\ line \in {<<>>, << <<>> >>} /\ (ifstream.eof => reader.ended)
      /\ (line # <<>> => reader.opened /\ ~reader.ended) /\ <<>> \o <<>> = <<>>
  BY DEF TypeInv, NoLooseText, ReaderGoesOn
<1>2. line # <<>> => line = << <<>> >> /\ line[1] = <<>>
  BY <1>1
<1>3. CASE TryRead
  BY <1>1, <1>3 DEF TryRead
<1>4. CASE TakeLine
  BY <1>1, <1>4 DEF TakeLine
<1>5. CASE Underflow
  BY <1>1, <1>2, <1>5, LooseAhead DEF Underflow
<1>6. CASE ReachEnd
  <2>1. ifstream.ahead = <<>> /\ line # <<>> /\ ifstream.offset >= Len(file)
    BY <1>6, LooseAhead DEF ReachEnd
  <2>2. line[1] \o ifstream.ahead = <<>>
    BY <1>1, <1>2, <2>1
  <2>3. NoLine
    BY <1>6, <2>2 DEF ReachEnd
  <2> QED BY <1>1, <1>6, <2>1, <2>3 DEF ReachEnd, NoLine
<1> QED BY <1>3, <1>4, <1>5, <1>6 DEF Poll

LEMMA StepNoLooseText ==
  ASSUME TypeInv, WholeFile, NoLooseText, [Next]_vars
  PROVE  NoLooseText'
<1>1. /\ TypeOK /\ ifstream \in IfstreamType /\ reader \in ReaderType /\ file \in Seq(Token)
      /\ ifstream.ahead \in Seq(Token)
  BY StreamTypes DEF TypeInv, TypeOK, IfstreamType, ReaderType
<1>2. CASE Writer \/ UNCHANGED vars
  <2>1. UNCHANGED <<reader, ifstream, line>>
    BY <1>2 DEF Writer, OpenWriter, Write, WriteThrough, WriteThroughFails, CloseWriter, WriterDies,
                readerVars, vars
  <2> QED BY <2>1 DEF NoLooseText
<1>3. CASE OpenReader \/ CloseReader
  <2>1. line' = <<>> /\ ifstream' = NewStream
    BY <1>3 DEF OpenReader, CloseReader
  <2> QED BY <2>1 DEF NoLooseText, NewStream
<1>4. CASE Poll
  <2>1. CASE UNCHANGED <<reader, ifstream>> /\ line' = << <<>> >>
    BY <2>1 DEF NoLooseText
  <2>2. CASE TakeLine /\ line = << <<>> >>
    <3>1. PICK n \in 1..Len(ifstream.ahead) :
            /\ ifstream.ahead[n] = NewLine
            /\ Deliver(line[1] \o SubSeq(ifstream.ahead, 1, n - 1))
            /\ ifstream' = [ifstream EXCEPT !.ahead = SubSeq(@, n + 1, Len(@))]
      BY <1>1, <2>2, TakesOneLine
    <3> DEFINE ahead == ifstream.ahead
               rest == SubSeq(ahead, n + 1, Len(ahead))
    <3>2. ifstream'.ahead = rest /\ ifstream'.eof = ifstream.eof
      BY <1>1, <3>1 DEF IfstreamType
    <3>3. reader'.ended = reader.ended /\ line' = <<>>
      BY <1>1, <3>1 DEF Deliver, ReaderType
    <3>4. rest # <<>> => rest[Len(rest)] = NewLine
      <4>1. ahead \in Seq(Token) /\ n \in 0..Len(ahead) /\ n \in 1..Len(ahead)
        BY <1>1
      <4>2. ahead[Len(ahead)] = NewLine
        BY <3>1 DEF NoLooseText
      <4> HIDE DEF ahead
      <4>3. /\ rest \in Seq(Token) /\ Len(rest) = Len(ahead) - n
            /\ \A i \in 1..Len(ahead) - n : rest[i] = ahead[n + i]
        BY <4>1, SuffixItems
      <4> HIDE DEF rest
      <4> SUFFICES ASSUME rest # <<>> PROVE rest[Len(rest)] = NewLine
        OBVIOUS
      <4>4. Len(rest) \in 1..Len(ahead) - n /\ n + Len(rest) = Len(ahead)
        BY <4>1, <4>3
      <4> QED BY <4>2, <4>3, <4>4
    <3> HIDE DEF rest
    <3> QED BY <3>2, <3>3, <3>4 DEF NoLooseText
  <2>3. CASE Underflow /\ line' = << <<>> >>
    <3> DEFINE n == ifstream.offset
               rest == SubSeq(file, n + 1, Len(file))
    <3>1. ifstream'.ahead = rest /\ ifstream'.eof = ifstream.eof /\ reader' = reader /\ n < Len(file)
      BY <1>1, <2>3 DEF Underflow, IfstreamType
    <3>2. n \in 0..Len(file) /\ Len(file) \in Nat /\ n \in Nat
      BY <1>1, <3>1 DEF IfstreamType
    <3>3. file # <<>> => file[Len(file)] = NewLine
      <4>1. PICK k \in 0..Len(written) : file = FileUpTo(k)
        BY DEF WholeFile
      <4> QED BY <1>1, <4>1, LastIsNewLine
    <3> HIDE DEF n
    <3>4. /\ rest \in Seq(Token) /\ Len(rest) = Len(file) - n
          /\ \A i \in 1..Len(file) - n : rest[i] = file[n + i]
      BY <1>1, <3>2, SuffixItems
    <3>5. rest # <<>> => rest[Len(rest)] = NewLine
      <4> HIDE DEF rest
      <4>1. Len(rest) \in 1..Len(file) - n /\ n + Len(rest) = Len(file) /\ Len(file) # 0
        BY <3>1, <3>2, <3>4
      <4>2. file # <<>>
        BY <4>1
      <4> QED BY <3>3, <3>4, <4>1, <4>2
    <3> HIDE DEF rest
    <3> QED BY <2>3, <3>1, <3>5 DEF NoLooseText
  <2>4. CASE NoLine
    <3>1. ifstream'.ahead = ifstream.ahead /\ line' = <<>>
      BY <1>1, <2>4 DEF NoLine, IfstreamType
    <3>2. ifstream'.eof => reader'.ended
      BY <1>1, <2>4 DEF NoLine, IfstreamType, ReaderType
    <3> QED BY <3>1, <3>2 DEF NoLooseText
  <2> QED BY <1>4, <2>1, <2>2, <2>3, <2>4, WholePoll
<1> QED BY <1>2, <1>3, <1>4 DEF Next

LEMMA StepNoneBeforeFile ==
  ASSUME TypeInv, NoneBeforeFile, NoLooseText, [Next]_vars
  PROVE  NoneBeforeFile'
<1>1. /\ TypeOK /\ reader \in ReaderType
      /\ opens \in [writer : 0..MaxTruncations, reader : 0..MaxOpens, seen : 0..MaxTruncations]
  BY DEF TypeInv, TypeOK, ReaderType
<1>2. CASE OpenWriter
  <2>1. opens'.writer = opens.writer + 1 /\ opens.writer \in Nat
    BY <1>1, <1>2 DEF OpenWriter
  <2> QED BY <2>1 DEF NoneBeforeFile
<1>3. CASE (Writer /\ ~OpenWriter) \/ UNCHANGED vars
  <2>1. UNCHANGED <<reader, got, opens>>
    BY <1>3 DEF Writer, Write, WriteThrough, WriteThroughFails, CloseWriter, WriterDies,
                readerVars, vars
  <2> QED BY <2>1 DEF NoneBeforeFile
<1>4. CASE OpenReader
  <2>1. opens'.writer = opens.writer /\ opens.writer \in Nat
    BY <1>1, <1>4 DEF OpenReader
  <2>2. CASE opens.writer > 0
    BY <2>1, <2>2 DEF NoneBeforeFile
  <2>3. CASE ~(opens.writer > 0)
    <3>1. reader' = [reader EXCEPT !.opened = FALSE] /\ got' = got
      BY <1>4, <2>3 DEF OpenReader
    <3>2. ~reader'.opened
      BY <1>1, <3>1 DEF ReaderType
    <3> QED BY <2>1, <2>3, <3>1, <3>2 DEF NoneBeforeFile
  <2> QED BY <2>2, <2>3
<1>5. CASE CloseReader
  <2>1. ~reader'.opened /\ got' = got /\ opens' = opens
    BY <1>1, <1>5 DEF CloseReader, ReaderType
  <2> QED BY <2>1 DEF NoneBeforeFile
<1>6. CASE Poll
  <2>1. reader.opened /\ opens' = opens
    BY <1>6, WholePoll
  <2> QED BY <2>1 DEF NoneBeforeFile
<1> QED BY <1>2, <1>3, <1>4, <1>5, <1>6 DEF Next
\* A writer that goes on leaves what was read of its file.
LEMMA WholeReadGrows ==
  ASSUME TypeInv, WholeRead, FileGrows,
         written' = written \/ \E text \in Lines : written' = Append(written, text)
  PROVE  WholeRead'
<1> SUFFICES ASSUME SameFile'
             PROVE  /\ Len(got') <= Len(written') /\ got' = SubSeq(written', 1, Len(got'))
                    /\ reader'.opened =>
                         /\ ifstream'.offset <= Len(file')
                         /\ \E m \in Len(got')..Len(written') :
                              /\ ifstream'.ahead = FileOf(SubSeq(written', Len(got') + 1, m))
                              /\ SubSeq(file', 1, ifstream'.offset) = FileOf(SubSeq(written', 1, m))
  BY DEF WholeRead, FileUpTo
<1>1. /\ TypeOK /\ file \in Seq(Token) /\ Len(written) \in Nat /\ ifstream.offset \in Nat
      /\ UNCHANGED <<reader, ifstream, got, opens>>
  BY WriterTypes, StreamTypes DEF TypeInv, FileGrows, readerVars
<1>2. Len(got) \in Nat /\ Len(file) \in Nat
  <2>1. got \in Seq(Seq(Piece))
    BY <1>1 DEF TypeOK
  <2> QED BY <1>1, <2>1
<1>3. SameFile /\ Len(got) <= Len(written) /\ got = SubSeq(written, 1, Len(got))
  BY <1>1 DEF WholeRead, SameFile
<1>4. /\ Len(written) <= Len(written') /\ Len(written') \in Nat
      /\ \A m \in 0..Len(written) : SubSeq(written', 1, m) = SubSeq(written, 1, m)
  <2>1. CASE written' = written
    BY <1>1, <2>1
  <2>2. CASE \E text \in Lines : written' = Append(written, text)
    BY <1>1, <2>2, OneLineMore
  <2> QED BY <2>1, <2>2
<1>5. \A n, m \in Nat : n <= m /\ m <= Len(written) =>
        SubSeq(written', n + 1, m) = SubSeq(written, n + 1, m)
  <2> DEFINE Line == Seq(Piece)
  <2>1. written \in Seq(Line) /\ written' \in Seq(Line)
    <3>1. Lines \subseteq Line
      BY FileLineStreamsAssumption
    <3>2. written \in Seq(Lines) /\ written' \in Seq(Lines)
      BY WriterTypes, <1>1 DEF FileGrows
    <3> HIDE DEF Line
    <3> QED BY <3>1, <3>2
  <2> HIDE DEF Line
  <2> TAKE n, m \in Nat
  <2> SUFFICES ASSUME n <= m /\ m <= Len(written)
               PROVE  SubSeq(written', n + 1, m) = SubSeq(written, n + 1, m)
    OBVIOUS
  <2> DEFINE a == SubSeq(written', 1, m)
             b == SubSeq(written, 1, m)
  <2>2. m \in 0..Len(written) /\ m \in 0..Len(written')
    BY <1>1, <1>4
  <2>3. a = b
    BY <1>4, <2>2
  <2>4. SubSeq(written', n + 1, m) = SubSeq(a, n + 1, m)
    BY <2>1, <2>2
  <2>5. SubSeq(written, n + 1, m) = SubSeq(b, n + 1, m)
    BY <2>1, <2>2
  <2> QED BY <2>3, <2>4, <2>5
<1>6. Len(got') <= Len(written') /\ got' = SubSeq(written', 1, Len(got'))
  <2>1. Len(got) <= Len(written')
    BY <1>1, <1>2, <1>3, <1>4
  <2>2. Len(got) \in 0..Len(written)
    BY <1>1, <1>2, <1>3
  <2>3. SubSeq(written', 1, Len(got)) = SubSeq(written, 1, Len(got))
    BY <1>4, <2>2
  <2> QED BY <1>1, <1>3, <2>1, <2>3
<1>7. ASSUME reader.opened
      PROVE  /\ ifstream.offset <= Len(file')
             /\ \E m \in Len(got)..Len(written') :
                  /\ ifstream.ahead = FileOf(SubSeq(written', Len(got) + 1, m))
                  /\ SubSeq(file', 1, ifstream.offset) = FileOf(SubSeq(written', 1, m))
  <2>1. ifstream.offset <= Len(file)
    BY <1>3, <1>7 DEF WholeRead
  <2>2. PICK m \in Len(got)..Len(written) :
          /\ ifstream.ahead = FileOf(SubSeq(written, Len(got) + 1, m))
          /\ SubSeq(file, 1, ifstream.offset) = FileOf(SubSeq(written, 1, m))
    BY <1>3, <1>7 DEF WholeRead, FileUpTo
  <2>3. m \in Nat /\ Len(got) <= m /\ m <= Len(written) /\ m \in Len(got)..Len(written')
        /\ m \in 0..Len(written)
    BY <1>1, <1>2, <1>4, <2>2
  <2>4. SubSeq(written', Len(got) + 1, m) = SubSeq(written, Len(got) + 1, m)
    BY <1>2, <1>5, <2>3
  <2>5. SubSeq(written', 1, m) = SubSeq(written, 1, m)
    BY <1>4, <2>3
  <2>6. PICK added \in Seq(Token) : file' = file \o added
    BY DEF FileGrows
  <2>7. Len(file') = Len(file) + Len(added) /\ Len(added) \in Nat
    BY <1>1, <2>6, ConcatItems
  <2>8. ifstream.offset \in 0..Len(file) /\ ifstream.offset <= Len(file')
    BY <1>1, <1>2, <2>1, <2>7
  <2>9. SubSeq(file', 1, ifstream.offset) = SubSeq(file, 1, ifstream.offset)
    BY <1>1, <2>6, <2>8, ConcatBeginning
  <2>10. /\ ifstream.ahead = FileOf(SubSeq(written', Len(got) + 1, m))
         /\ SubSeq(file', 1, ifstream.offset) = FileOf(SubSeq(written', 1, m))
    BY <2>2, <2>4, <2>5, <2>9
  <2> QED BY <2>3, <2>8, <2>10
<1> QED BY <1>1, <1>6, <1>7

\* getline on a read-ahead of lines returns the first one of them.
LEMMA WholeReadTakes ==
  ASSUME TypeInv, WholeRead, SameFile, TakeLine, line = << <<>> >>
  PROVE  WholeRead'
<1> DEFINE g == Len(got)
           ahead == ifstream.ahead
           text == written[g + 1]
<1>1. /\ TypeOK /\ ifstream \in IfstreamType /\ reader \in ReaderType
      /\ reader.opened /\ ahead \in Seq(Token) /\ Len(written) \in Nat /\ written \in Seq(Lines)
  BY StreamTypes, WriterTypes DEF TypeInv, TypeOK, IfstreamType, ReaderType, ReaderGoesOn, TakeLine
<1>2. got \in Seq(Seq(Piece)) /\ g \in Nat /\ g <= Len(written) /\ got = SubSeq(written, 1, g)
  <2>1. got \in Seq(Seq(Piece))
    BY <1>1 DEF TypeOK
  <2>2. g \in Nat
    BY <2>1
  <2> QED BY <2>1, <2>2 DEF WholeRead
<1>3. PICK m \in g..Len(written) :
        /\ ahead = FileOf(SubSeq(written, g + 1, m))
        /\ SubSeq(file, 1, ifstream.offset) = FileUpTo(m)
  BY <1>1 DEF WholeRead
<1>4. /\ ifstream.offset <= Len(file) /\ UNCHANGED <<file, written>>
      /\ SameFile' /\ m \in 0..Len(written) /\ m \in Nat /\ g <= m
  BY <1>1, <1>2 DEF WholeRead, SameFile, TakeLine, writerVars
<1>5. PICK n \in 1..Len(ahead) :
         /\ ahead[n] = NewLine
         /\ \A k \in 1..n - 1 : ahead[k] # NewLine
         /\ Deliver(line[1] \o SubSeq(ahead, 1, n - 1))
         /\ ifstream' = [ifstream EXCEPT !.ahead = SubSeq(@, n + 1, Len(@))]
  BY <1>1, TakesOneLine
<1>6. g < m
  <2> SUFFICES ASSUME g = m PROVE FALSE
    <3> HIDE DEF g
    <3> QED BY <1>2, <1>4
  <2>1. ahead = <<>>
    BY <1>1, <1>2, <1>3, <1>4, LinesBetween
  <2>2. Len(ahead) = 0
    BY <2>1
  <2> QED BY <1>5, <2>2
<1> DEFINE rest == FileOf(SubSeq(written, g + 2, m))
<1>7. text \in Seq(Piece) /\ rest \in Seq(Token) /\ ahead = Tokens(text) \o rest
  <2> HIDE DEF g
  <2> QED BY <1>1, <1>2, <1>3, <1>4, <1>6, FirstLine
<1> HIDE DEF rest, text, ahead
<1>8. SubSeq(ahead, 1, n - 1) = text /\ SubSeq(ahead, n + 1, Len(ahead)) = rest
  BY <1>5, <1>7, FirstNewLineOfLine
<1>9. line[1] \o SubSeq(ahead, 1, n - 1) = text
  <2>1. line[1] = <<>>
    OBVIOUS
  <2>2. <<>> \o text = text
    BY <1>7
  <2> QED BY <1>8, <2>1, <2>2
<1>10. got' = Append(got, text) /\ reader'.opened
  BY <1>1, <1>5, <1>9 DEF Deliver, ReaderType
<1>11. ifstream'.ahead = rest /\ ifstream'.offset = ifstream.offset
  BY <1>1, <1>5, <1>8 DEF IfstreamType, ahead
<1>12. Len(got') = g + 1 /\ got' = SubSeq(written, 1, g + 1)
  <2> DEFINE Line == Seq(Piece)
  <2>1. written \in Seq(Line) /\ got \in Seq(Line) /\ text \in Line
    BY <1>1, <1>2, <1>7, WrittenText
  <2> HIDE DEF Line
  <2>2. /\ got' \in Seq(Line) /\ Len(got') = g + 1 /\ got'[g + 1] = text
        /\ \A i \in 1..g : got'[i] = got[i]
    BY <1>10, <2>1, AppendItems
  <2> HIDE DEF g
  <2>3. g + 1 \in 0..Len(written) /\ g \in 0..Len(written)
    BY <1>1, <1>2, <1>4, <1>6
  <2>4. \A i \in 1..g : got[i] = written[i]
    BY <1>2, <2>1, <2>3, PrefixItems
  <2> DEFINE first == SubSeq(written, 1, g + 1)
  <2>5. first \in Seq(Line) /\ Len(first) = g + 1 /\ \A i \in 1..g + 1 : first[i] = written[i]
    BY <2>1, <2>3, PrefixItems
  <2> HIDE DEF first
  <2>6. \A i \in 1..g + 1 : got'[i] = first[i]
    <3>1. TAKE i \in 1..g + 1
    <3>2. CASE i = g + 1
      BY <2>2, <2>5, <3>2 DEF text
    <3>3. CASE i # g + 1
      <4>1. i \in 1..g
        BY <1>2, <3>3
      <4> QED BY <2>2, <2>4, <2>5, <4>1
    <3> QED BY <3>2, <3>3
  <2>7. got' = first
    BY <2>2, <2>5, <2>6, SameItems
  <2> QED BY <2>2, <2>7 DEF first
<1>13. /\ Len(got') <= Len(written') /\ got' = SubSeq(written', 1, Len(got'))
       /\ m \in Len(got')..Len(written')
  <2> HIDE DEF g
  <2>1. g + 1 <= m /\ g + 1 <= Len(written) /\ m \in g + 1..Len(written)
    BY <1>1, <1>2, <1>4, <1>6
  <2> QED BY <1>4, <1>12, <2>1
<1>14. rest = FileOf(SubSeq(written', Len(got') + 1, m))
  <2>1. Len(got') + 1 = g + 2
    BY <1>2, <1>12
  <2> QED BY <1>4, <2>1 DEF rest
<1>15. SubSeq(file', 1, ifstream'.offset) = FileOf(SubSeq(written', 1, m))
  BY <1>3, <1>4, <1>11 DEF FileUpTo
<1>16. ifstream'.offset <= Len(file')
  BY <1>4, <1>11
<1> QED BY <1>11, <1>13, <1>14, <1>15, <1>16 DEF WholeRead, FileUpTo

\* A refill of an empty read-ahead takes the lines the file has more.
LEMMA WholeReadRefills ==
  ASSUME TypeInv, WholeFile, WholeRead, SameFile, Underflow, ifstream.ahead = <<>>,
         reader.opened
  PROVE  WholeRead'
<1> DEFINE g == Len(got)
           n == ifstream.offset
           behind == SubSeq(file, n + 1, Len(file))
           before == SubSeq(file, 1, n)
<1>1. /\ TypeOK /\ ifstream \in IfstreamType /\ file \in Seq(Token) /\ Len(written) \in Nat
      /\ n \in Nat /\ written \in Seq(Lines)
  BY StreamTypes, WriterTypes DEF TypeInv, TypeOK, IfstreamType
<1>2. g \in Nat /\ g <= Len(written) /\ got = SubSeq(written, 1, g) /\ n <= Len(file)
      /\ Len(file) \in Nat
  <2>1. got \in Seq(Seq(Piece))
    BY <1>1 DEF TypeOK
  <2>2. g \in Nat
    BY <2>1
  <2> QED BY <1>1, <2>2 DEF WholeRead
<1>3. /\ UNCHANGED <<file, written, got, reader>> /\ SameFile'
      /\ ifstream'.offset = Len(file) /\ ifstream'.ahead = behind
  BY <1>1 DEF Underflow, writerVars, IfstreamType, SameFile
<1>4. PICK m \in g..Len(written) :
        ifstream.ahead = FileOf(SubSeq(written, g + 1, m)) /\ before = FileUpTo(m)
  BY DEF WholeRead
<1>5. PICK k \in 0..Len(written) : file = FileUpTo(k)
  BY DEF WholeFile
<1> HIDE DEF g, n
<1>6. /\ n \in 0..Len(file) /\ m \in 0..Len(written) /\ m \in Nat /\ g <= m
      /\ k \in Nat
  BY <1>1, <1>2, <1>4
<1>7. /\ before \in Seq(Token) /\ Len(before) = n /\ behind \in Seq(Token)
      /\ file = before \o behind /\ SubSeq(file, 1, Len(file)) = file
  <2>1. SubSeq(file, 1, Len(file)) = file
    BY <1>1
  <2>2. /\ before \in Seq(Token) /\ Len(before) = n /\ behind \in Seq(Token)
        /\ file = before \o behind
    BY <1>1, <1>6, CutAnywhere
  <2> QED BY <2>1, <2>2
<1> HIDE DEF before, behind
\* No line of the read-ahead is without tokens.
<1>8. g = m
  <2> SUFFICES ASSUME g < m PROVE FALSE
    BY <1>2, <1>6
  <2> DEFINE tokens == Tokens(written[g + 1])
             rest == FileOf(SubSeq(written, g + 2, m))
  <2>1. written[g + 1] \in Seq(Piece) /\ rest \in Seq(Token)
        /\ FileOf(SubSeq(written, g + 1, m)) = tokens \o rest
    BY <1>1, <1>2, <1>6, FirstLine
  <2>2. tokens \in Seq(Token) /\ tokens # <<>>
    BY <2>1, TokensOfLine
  <2> HIDE DEF tokens, rest
  <2>3. tokens \o rest = <<>>
    BY <1>4, <2>1
  <2> QED BY <2>1, <2>2, <2>3, ConcatIsEmpty
\* The file does not end before what was read of it.
<1>9. m <= k
  <2> SUFFICES ASSUME k < m PROVE FALSE
    BY <1>6
  <2> DEFINE tokens == Tokens(written[k + 1])
             rest == FileOf(SubSeq(written, k + 2, m))
             more == tokens \o rest
  <2>1. written[k + 1] \in Seq(Piece) /\ rest \in Seq(Token)
        /\ FileOf(SubSeq(written, k + 1, m)) = more
    BY <1>1, <1>6, FirstLine
  <2>2. tokens \in Seq(Token) /\ Len(tokens) \in Nat /\ Len(tokens) > 0
    <3>1. tokens \in Seq(Token) /\ Len(tokens) = Len(written[k + 1]) + 1
      BY <2>1, TokensOfLine
    <3>2. Len(written[k + 1]) \in Nat
      BY <2>1
    <3> QED BY <3>1, <3>2
  <2>3. FileUpTo(m) = FileUpTo(k) \o FileOf(SubSeq(written, k + 1, m))
    <3>1. k <= m
      BY <1>6
    <3> QED BY <1>1, <1>6, <3>1, LinesBetween
  <2> HIDE DEF tokens, rest
  <2>4. more \in Seq(Token) /\ Len(more) = Len(tokens) + Len(rest) /\ Len(rest) \in Nat
    BY <2>1, <2>2, ConcatItems
  <2> HIDE DEF more
  <2>5. before = file \o more
    BY <1>4, <1>5, <2>1, <2>3
  <2>6. Len(before) = Len(file) + Len(more)
    BY <1>1, <2>4, <2>5, ConcatItems
  <2> QED BY <1>2, <1>7, <2>2, <2>4, <2>6
<1>10. behind = FileOf(SubSeq(written, m + 1, k))
  <2> DEFINE more == FileOf(SubSeq(written, m + 1, k))
  <2>1. FileUpTo(k) = FileUpTo(m) \o more /\ more \in Seq(Token)
    BY <1>1, <1>6, <1>9, LinesBetween
  <2> HIDE DEF more
  <2>2. before \o behind = before \o more
    BY <1>4, <1>5, <1>7, <2>1
  <2>3. SubSeq(before \o behind, Len(before) + 1, Len(before \o behind)) = behind
    BY <1>7, ConcatParts
  <2>4. SubSeq(before \o more, Len(before) + 1, Len(before \o more)) = more
    BY <1>7, <2>1, ConcatParts
  <2> QED BY <2>2, <2>3, <2>4 DEF more
<1>11. Len(got') <= Len(written') /\ got' = SubSeq(written', 1, Len(got'))
  BY <1>2, <1>3 DEF g
<1>12. k \in Len(got')..Len(written')
  <2>1. k \in g..Len(written)
    BY <1>1, <1>2, <1>5, <1>6, <1>8, <1>9
  <2> QED BY <1>3, <2>1 DEF g
<1>13. ifstream'.ahead = FileOf(SubSeq(written', Len(got') + 1, k))
  BY <1>3, <1>8, <1>10 DEF g
<1>14. SubSeq(file', 1, ifstream'.offset) = FileOf(SubSeq(written', 1, k))
  BY <1>3, <1>5, <1>7 DEF FileUpTo
<1>15. ifstream'.offset <= Len(file')
  BY <1>2, <1>3
<1> QED BY <1>11, <1>12, <1>13, <1>14, <1>15 DEF WholeRead, FileUpTo
LEMMA StepWholeRead ==
  ASSUME TypeInv, WholeFile, WholeRead, NoLooseText, NoneBeforeFile, [Next]_vars
  PROVE  WholeRead'
<1>1. /\ TypeOK /\ ifstream \in IfstreamType /\ reader \in ReaderType
      /\ opens \in [writer : 0..MaxTruncations, reader : 0..MaxOpens, seen : 0..MaxTruncations]
      /\ opens.seen <= opens.writer /\ opens.writer \in Nat /\ Len(written) \in Nat
      /\ written \in Seq(Lines) /\ file \in Seq(Token)
  BY WriterTypes DEF TypeInv, TypeOK, IfstreamType, ReaderType, ReaderGoesOn
<1>2. CASE OpenWriter
  <2>1. opens'.writer = opens.writer + 1 /\ opens'.seen = opens.seen /\ opens.seen \in Nat
    BY <1>1, <1>2 DEF OpenWriter
  <2> QED BY <1>1, <2>1 DEF WholeRead, SameFile
<1>3. CASE Writer /\ ~OpenWriter
  <2>1. FileGrows
    BY <1>1, <1>3, WriterGrows
  <2>2. written' = written \/ \E text \in Lines : written' = Append(written, text)
    BY <1>3 DEF Writer, Write, WriteThrough, WriteThroughFails, CloseWriter, WriterDies
  <2> QED BY <2>1, <2>2, WholeReadGrows
<1>4. CASE OpenReader
  <2>1. /\ ifstream' = NewStream /\ file' = file /\ written' = written
    BY <1>4 DEF OpenReader, writerVars
  <2>2. got' = <<>> /\ (opens.writer = 0 => ~reader'.opened)
    <3>1. CASE opens.writer > 0
      BY <1>4, <3>1 DEF OpenReader
    <3>2. CASE ~(opens.writer > 0)
      <4>1. reader' = [reader EXCEPT !.opened = FALSE] /\ got' = got
        BY <1>4, <3>2 DEF OpenReader
      <4>2. opens.writer = 0
        BY <1>1, <3>2
      <4> QED BY <1>1, <4>1, <4>2 DEF NoneBeforeFile, ReaderType
    <3> QED BY <3>1, <3>2
  <2>3. Len(got') = 0 /\ Len(written') \in Nat /\ got' = SubSeq(written', 1, Len(got'))
    BY <1>1, <2>1, <2>2
  <2>4. ifstream'.offset = 0 /\ ifstream'.ahead = <<>> /\ Len(file') \in Nat
    BY <1>1, <2>1 DEF NewStream
  <2>5. 0 \in Len(got')..Len(written')
    BY <2>3
  <2>6. ifstream'.ahead = FileOf(SubSeq(written', Len(got') + 1, 0))
    <3>1. SubSeq(written', Len(got') + 1, 0) = <<>>
      BY <1>1, <2>1, <2>3
    <3> QED BY <2>4, <3>1, FileOfEmpty
  <2>7. SubSeq(file', 1, ifstream'.offset) = FileOf(SubSeq(written', 1, 0))
    <3>1. SubSeq(written', 1, 0) = <<>> /\ SubSeq(file', 1, ifstream'.offset) = <<>>
      BY <1>1, <2>1, <2>4
    <3> QED BY <3>1, FileOfEmpty
  <2> QED BY <2>3, <2>4, <2>5, <2>6, <2>7 DEF WholeRead, FileUpTo
<1>5. CASE CloseReader
  <2>1. /\ ~reader'.opened /\ UNCHANGED <<got, written, opens>>
    BY <1>1, <1>5 DEF CloseReader, ReaderType, writerVars
  <2> QED BY <2>1 DEF WholeRead, SameFile
<1>6. CASE Poll
  <2>1. UNCHANGED <<file, written, opens>> /\ reader.opened
    BY <1>6, WholePoll DEF writerVars
  <2>2. CASE ~SameFile
    BY <2>1, <2>2 DEF WholeRead, SameFile
  <2>3. CASE TakeLine /\ line = << <<>> >> /\ SameFile
    BY <2>3, WholeReadTakes
  <2>4. CASE Underflow /\ ifstream.ahead = <<>> /\ SameFile
    BY <2>1, <2>4, WholeReadRefills
  <2>5. CASE /\ UNCHANGED got /\ ifstream'.ahead = ifstream.ahead
             /\ ifstream'.offset = ifstream.offset
    BY <2>1, <2>5 DEF WholeRead, SameFile, FileUpTo
  <2>6. NoLine => ifstream'.ahead = ifstream.ahead /\ ifstream'.offset = ifstream.offset
    BY <1>1 DEF NoLine, IfstreamType
  <2> QED BY <1>6, <2>2, <2>3, <2>4, <2>5, <2>6, WholePoll
<1>7. CASE UNCHANGED vars
  BY <1>7 DEF vars, WholeRead, SameFile, FileUpTo
<1> QED BY <1>2, <1>3, <1>4, <1>5, <1>6, <1>7 DEF Next

LEMMA InitWholeInv == Init => WholeInv
<1> SUFFICES ASSUME Init
             PROVE  TextInv /\ WholeFile /\ WholeRead /\ NoLooseText /\ NoneBeforeFile
  BY DEF WholeInv
<1>1. TextInv
  BY InitTextInv
<1>2. /\ file = <<>> /\ written = <<>> /\ got = <<>> /\ line = <<>> /\ ~reader.opened
      /\ writer.pending = <<>> /\ writer.held = <<>> /\ ~writer.opened
      /\ ifstream.ahead = <<>> /\ ~ifstream.eof
  BY DEF Init, NewStream
<1>3. WholeFile
  <2>1. 0 \in 0..Len(written) /\ SubSeq(written, 1, 0) = <<>>
    BY <1>2
  <2> QED BY <1>2, <2>1, FileOfEmpty DEF WholeFile, FileUpTo
<1>4. WholeRead
  <2>1. SubSeq(written, 1, Len(got)) = <<>> /\ Len(got) <= Len(written)
    BY <1>2
  <2> QED BY <1>2, <2>1 DEF WholeRead
<1> QED BY <1>1, <1>2, <1>3, <1>4 DEF NoLooseText, NoneBeforeFile

LEMMA StepWholeInv ==
  ASSUME Whole
  PROVE  WholeInv /\ [Next]_vars => WholeInv'
<1> SUFFICES ASSUME WholeInv, [Next]_vars PROVE WholeInv'
  OBVIOUS
<1>1. TextInv /\ TypeInv /\ WholeFile /\ WholeRead /\ NoLooseText /\ NoneBeforeFile
  BY DEF WholeInv, TextInv
<1>2. TextInv'
  BY <1>1, StepTextInv
<1>3. WholeFile'
  BY <1>1, StepWholeFile
<1>4. WholeRead'
  BY <1>1, StepWholeRead
<1>5. NoLooseText' /\ NoneBeforeFile'
  BY <1>1, StepNoLooseText, StepNoneBeforeFile
<1> QED BY <1>2, <1>3, <1>4, <1>5 DEF WholeInv

LEMMA ReadIsWhole == WholeInv => WholeLines
<1> SUFFICES ASSUME WholeInv, SameFile PROVE IsPrefix(got, written)
  BY DEF WholeLines
<1>1. Len(got) <= Len(written) /\ got = SubSeq(written, 1, Len(got))
  BY DEF WholeInv, WholeRead
<1> QED BY <1>1 DEF IsPrefix

(* Where no line is longer than the writer's buffer and a write that fails *)
(* leaves nothing (Whole), and the file is the one that was opened, the    *)
(* lines a stream of either class (file.tpp, live_file.tpp) returned are   *)
(* the first ones that were written, whole and in order, whenever it       *)
(* polls, the writer fails or dies, and either end is opened again.        *)
THEOREM FileLineStreamsWholeLines ==
  ASSUME Whole
  PROVE  Spec => []WholeLines
<1>1. WholeInv /\ [Next]_vars => WholeInv'
  BY StepWholeInv
<1> QED BY <1>1, InitWholeInv, ReadIsWhole, PTL DEF Spec
-----------------------------------------------------------------------------
(* The end of a stream.                                                    *)

\* Every reader is live, and goes on after the first poll that gave nothing.
Patient == "file" \notin Readers /\ MaxEmptyPolls > 0

\* What a step to the end leaves to show.
AtEnd ==
  /\ ifstream'.ahead = <<>> /\ ifstream'.offset >= Len(file')
  /\ SameFile => FlattenSeq(got') = TextOf(file')

\* A getline that finds nothing has come to the end of the file.
LEMMA NothingAtEnd ==
  ASSUME TextInv, ReachEnd, line[1] \o ifstream.ahead = <<>>
  PROVE  AtEnd
<1> DEFINE n == ifstream.offset
<1>1. /\ TypeOK /\ ifstream \in IfstreamType /\ ifstream.ahead \in Seq(Token)
      /\ file \in Seq(Token) /\ Len(file) \in Nat /\ n \in Nat
      /\ line # <<>> /\ line[1] \in Seq(Piece) /\ reader.opened /\ n >= Len(file)
  BY StreamTypes DEF TextInv, TypeInv, TypeOK, IfstreamType, ReaderGoesOn, ReachEnd
<1>2. ifstream.ahead \in Seq(Piece)
  BY <1>1, AheadIsText DEF ReachEnd
<1>3. line[1] = <<>> /\ ifstream.ahead = <<>>
  BY <1>1, <1>2, ConcatIsEmpty
<1>4. NoLine /\ UNCHANGED writerVars
  BY DEF ReachEnd
<1>5. ifstream'.ahead = <<>> /\ ifstream'.offset = n /\ got' = got /\ file' = file
  BY <1>1, <1>3, <1>4 DEF NoLine, IfstreamType, writerVars
<1>6. ASSUME SameFile PROVE FlattenSeq(got) = TextOf(file)
  <2>1. n <= Len(file) /\ TextRead = TextOf(SubSeq(file, 1, n))
    BY <1>1, <1>6 DEF TextInv, ReadSoFar
  <2> HIDE DEF n
  <2>2. n = Len(file)
    BY <1>1, <2>1
  <2>3. SubSeq(file, 1, Len(file)) = file
    BY <1>1
  <2>4. TextRead = TextOf(file)
    BY <2>1, <2>2, <2>3
  <2>5. FlattenSeq(line) = <<>> /\ TextOf(ifstream.ahead) = <<>>
    BY <1>1, <1>3, TextReadParts, TextOfEmpty
  <2> DEFINE G == FlattenSeq(got)
  <2>6. TextRead = G \o <<>> \o <<>>
    BY <2>5 DEF TextRead
  <2>7. G \in Seq(Piece)
    BY <1>1, TextReadParts
  <2> HIDE DEF G
  <2>8. G \o <<>> = G
    BY <2>7, ConcatEmpty
  <2> QED BY <2>4, <2>6, <2>8 DEF G
<1> QED BY <1>1, <1>5, <1>6 DEF AtEnd

\* No other step ends a stream, unless a getline finds eofbit set.
LEMMA EndsThere ==
  ASSUME TextInv, [Next]_vars, reader'.ended, ~reader.ended
  PROVE  AtEnd \/ (TryRead /\ ifstream.eof)
<1>1. TypeOK /\ reader \in ReaderType
  BY DEF TextInv, TypeInv, TypeOK, ReaderType
<1>2. ~(reader' = reader)
  OBVIOUS
<1>3. ASSUME NEW text, Deliver(text) PROVE FALSE
  <2>1. reader'.ended = reader.ended
    BY <1>1, <1>3 DEF Deliver, ReaderType
  <2> QED BY <2>1
<1>4. ~Writer /\ ~UNCHANGED vars
  BY <1>2 DEF Writer, OpenWriter, Write, WriteThrough, WriteThroughFails, CloseWriter, WriterDies,
              readerVars, vars
<1>5. ~OpenReader
  <2> SUFFICES ASSUME OpenReader PROVE FALSE
    OBVIOUS
  <2>1. CASE opens.writer > 0
    <3>1. \E class \in Readers :
               reader' = [class |-> class, opened |-> TRUE, ended |-> FALSE, position |-> 0,
                          emptyPolls |-> 0]
      BY <2>1 DEF OpenReader
    <3> QED BY <3>1
  <2>2. CASE ~(opens.writer > 0)
    <3>1. reader' = [reader EXCEPT !.opened = FALSE]
      BY <2>2 DEF OpenReader
    <3> QED BY <1>1, <3>1 DEF ReaderType
  <2> QED BY <2>1, <2>2
<1>6. ~CloseReader
  BY <1>1 DEF CloseReader, ReaderType
<1>7. CASE TryRead
  BY <1>2, <1>7 DEF TryRead
<1>8. ~TakeLine
  BY <1>1, <1>3, TakesOneLine
<1>9. ~Underflow
  BY <1>2 DEF Underflow
<1>10. CASE ReachEnd
  <2>1. line[1] \o ifstream.ahead = <<>>
    BY <1>3, <1>10 DEF ReachEnd
  <2> QED BY <1>10, <2>1, NothingAtEnd
<1> QED BY <1>4, <1>5, <1>6, <1>7, <1>8, <1>9, <1>10 DEF Next, Poll

LEMMA WholeEnds ==
  WholeInv /\ [Next]_vars => [reader'.ended /\ ~reader.ended => AtEnd]_vars
<1> SUFFICES ASSUME WholeInv, [Next]_vars, reader'.ended, ~reader.ended PROVE AtEnd
  OBVIOUS
<1>1. TextInv /\ (ifstream.eof => reader.ended)
  BY DEF WholeInv, NoLooseText
<1> QED BY <1>1, EndsThere

LEMMA LiveEnds ==
  ASSUME Patient
  PROVE  LiveInv /\ [Next]_vars => [reader'.ended /\ ~reader.ended => AtEnd]_vars
<1> SUFFICES ASSUME LiveInv, [Next]_vars, reader'.ended, ~reader.ended PROVE AtEnd
  OBVIOUS
<1>1. /\ TextInv /\ reader \in ReaderType /\ MaxEmptyPolls \in Nat /\ MaxEmptyPolls > 0
      /\ reader.opened => reader.class = "live"
      /\ reader.opened /\ ifstream.eof => reader.emptyPolls = 0
  BY FileLineStreamsAssumption DEF LiveInv, TextInv, TypeInv, TypeOK, ReaderType, Patient
<1>2. ~(TryRead /\ ifstream.eof)
  <2> SUFFICES ASSUME TryRead, ifstream.eof PROVE FALSE
    OBVIOUS
  <2>1. NoLine /\ reader.class = "live" /\ reader.emptyPolls = 0
    BY <1>1 DEF TryRead
  <2>2. reader'.ended = (reader.emptyPolls + 1 > MaxEmptyPolls)
    BY <1>1, <2>1 DEF NoLine, ReaderType
  <2>3. ~(reader.emptyPolls + 1 > MaxEmptyPolls)
    BY <1>1, <2>1
  <2> QED BY <2>2, <2>3
<1> QED BY <1>1, <1>2, EndsThere

LEMMA InitLiveInv == Init => LiveInv
<1> SUFFICES ASSUME Init PROVE LiveInv
  OBVIOUS
<1>1. TextInv /\ ~reader.opened
  BY InitTextInv DEF Init
<1> QED BY <1>1 DEF LiveInv

LEMMA StepLiveInv ==
  ASSUME Patient
  PROVE  LiveInv /\ [Next]_vars => LiveInv'
<1> DEFINE Live == reader.opened => reader.class = "live"
           Polled == reader.opened /\ ifstream.eof => reader.emptyPolls = 0
<1> SUFFICES ASSUME LiveInv, [Next]_vars PROVE Live' /\ Polled'
  BY StepTextInv DEF LiveInv
<1>1. /\ TypeInv /\ TypeOK /\ ReaderGoesOn /\ reader \in ReaderType /\ ifstream \in IfstreamType
      /\ Live /\ Polled
  BY DEF LiveInv, TextInv, TypeInv, TypeOK, ReaderType, IfstreamType
<1>2. CASE UNCHANGED <<reader, ifstream>>
  BY <1>1, <1>2
<1>3. Writer \/ UNCHANGED vars => UNCHANGED <<reader, ifstream>>
  BY DEF Writer, OpenWriter, Write, WriteThrough, WriteThroughFails, CloseWriter, WriterDies,
         readerVars, vars
<1>4. CASE OpenReader
  <2>1. ~ifstream'.eof
    BY <1>4 DEF OpenReader, NewStream
  <2>2. Live'
    <3>1. CASE opens.writer > 0
      <4>1. PICK class \in Readers :
               reader' = [class |-> class, opened |-> TRUE, ended |-> FALSE, position |-> 0,
                          emptyPolls |-> 0]
        BY <1>4, <3>1 DEF OpenReader
      <4>2. class = "live"
        BY FileLineStreamsAssumption DEF Patient
      <4> QED BY <4>1, <4>2
    <3>2. CASE ~(opens.writer > 0)
      <4>1. reader' = [reader EXCEPT !.opened = FALSE]
        BY <1>4, <3>2 DEF OpenReader
      <4> QED BY <1>1, <4>1 DEF ReaderType
    <3> QED BY <3>1, <3>2
  <2> QED BY <2>1, <2>2
<1>5. CASE CloseReader
  <2>1. ~reader'.opened
    BY <1>1, <1>5 DEF CloseReader, ReaderType
  <2> QED BY <2>1
<1>6. ASSUME NEW text, Deliver(text) PROVE Live' /\ Polled'
  <2>1. reader'.opened = reader.opened /\ reader'.class = reader.class /\ reader'.emptyPolls = 0
    BY <1>1, <1>6 DEF Deliver, ReaderType
  <2> QED BY <1>1, <2>1
<1>7. ASSUME NoLine, reader.opened PROVE Live' /\ Polled'
  <2>1. reader.class = "live"
    BY <1>1, <1>7
  <2>2. /\ reader' = [reader EXCEPT !.emptyPolls = @ + 1,
                                    !.ended = reader.emptyPolls + 1 > MaxEmptyPolls]
        /\ ifstream' = [ifstream EXCEPT !.eof = FALSE]
    BY <1>7, <2>1 DEF NoLine
  <2>3. reader'.class = reader.class
    BY <1>1, <2>2 DEF ReaderType
  <2>4. ifstream'.eof = FALSE
    BY <1>1, <2>2 DEF IfstreamType
  <2> QED BY <2>1, <2>3, <2>4
<1>8. CASE TryRead
  BY <1>2, <1>7, <1>8 DEF TryRead
<1>9. CASE TakeLine
  BY <1>1, <1>6, <1>9, TakesOneLine
<1>10. CASE Underflow
  <2>1. reader' = reader /\ ifstream'.eof = ifstream.eof
    BY <1>1, <1>10 DEF Underflow, IfstreamType
  <2> QED BY <1>1, <2>1
<1>11. CASE ReachEnd
  <2>1. reader.opened
    BY <1>1, <1>11 DEF ReachEnd, ReaderGoesOn
  <2> QED BY <1>6, <1>7, <1>11, <2>1 DEF ReachEnd
<1> QED BY <1>2, <1>3, <1>4, <1>5, <1>8, <1>9, <1>10, <1>11 DEF Next, Poll

(* Where the lines are whole, and also where a line reaches the file bit   *)
(* by bit if every reader is live and waits at least once: a stream ends   *)
(* only at the end that its file then has, and has returned all its text.  *)
(* The other readers (try_read of file.tpp) end on a line they found half  *)
(* written; a live one that never waits does so too.                       *)
THEOREM FileLineStreamsEndsAtEndOfFile ==
  ASSUME Whole \/ Patient
  PROVE  Spec => EndsAtEndOfFile
<1>1. CASE Whole
  <2>1. WholeInv /\ [Next]_vars => WholeInv'
    BY <1>1, StepWholeInv
  <2>2. Spec => [][reader'.ended /\ ~reader.ended => AtEnd]_vars
    BY <2>1, InitWholeInv, WholeEnds, PTL DEF Spec
  <2> QED BY <2>2 DEF EndsAtEndOfFile, AtEnd
<1>2. CASE Patient
  <2>1. LiveInv /\ [Next]_vars => LiveInv'
    BY <1>2, StepLiveInv
  <2>2. LiveInv /\ [Next]_vars => [reader'.ended /\ ~reader.ended => AtEnd]_vars
    BY <1>2, LiveEnds
  <2>3. Spec => [][reader'.ended /\ ~reader.ended => AtEnd]_vars
    BY <2>1, <2>2, InitLiveInv, PTL DEF Spec
  <2> QED BY <2>3 DEF EndsAtEndOfFile, AtEnd
<1> QED BY <1>1, <1>2
=============================================================================
