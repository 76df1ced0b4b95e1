---------------------------- MODULE FileLineStreams ----------------------------
(***************************************************************************)
(* A process appends lines to a file with FileLineWriteOnlyStream while    *)
(* another reads it, with FileLineReadOnlyStream (file.tpp, "file") or     *)
(* with LiveFileLineReadOnlyStream (live_file.tpp, "live").                *)
(*                                                                         *)
(* A line is a sequence of pieces of text, a file a sequence of pieces and *)
(* newlines.  A line of Torn does not fit in the writer's buffer: its text *)
(* reaches the file before its newline does, in any number of writes.      *)
(* Writing to the file may fail, which sets badbit: the ofstream takes     *)
(* nothing more then, and keeps what is in its buffer for the close.       *)
(* The reader's ifstream is external: it reads ahead into a buffer, and    *)
(* std::getline runs until a newline or the end of the file as it is then. *)
(***************************************************************************)
EXTENDS Integers, SequencesExt

CONSTANTS
  Piece,            \* what a line's text is made of
  Lines,            \* the lines that may be written, sequences of pieces
  Torn,             \* those of them that reach the file bit by bit
  Faults,           \* what may reach the file of a text that fails to be
                    \* written: "nothing", a "part"
  Readers,          \* the classes of streams it may be read with
  MaxEmptyPolls,    \* the constructor's max_empty_polls
  MaxWrites,        \* bound on the lines written
  MaxTruncations,   \* bound on the times the writer opens the file
  MaxOpens          \* bound on the times the reader opens it

NewLine == "\n"

ASSUME FileLineStreamsAssumption ==
  /\ Lines \subseteq Seq(Piece)
  /\ Torn \subseteq Lines
  /\ Faults \subseteq {"nothing", "part"}
  /\ NewLine \notin Piece
  /\ Readers \subseteq {"file", "live"}
  /\ {MaxEmptyPolls, MaxWrites, MaxTruncations, MaxOpens} \subseteq Nat

VARIABLES
  file,       \* the content of the file
  writer,     \* the writer's stream; pending is what is on its way to the
              \* file, held what a failed flush has left in its buffer
  written,    \* the lines written since the file was truncated
  reader,     \* the members of the reader's stream
  ifstream,   \* its std::ifstream: offset in the file, read-ahead, eofbit
  line,       \* <<>> or <<text>>: the local of a call that is in getline
  got,        \* the lines the reader returned since it was opened
  opens       \* how often each end was opened, and how often the writer had
              \* been when the reader last was

vars == <<file, writer, written, reader, ifstream, line, got, opens>>

Token == Piece \cup {NewLine}
Text(token) == token # NewLine
Tokens(text) == Append(text, NewLine)

NewStream == [offset |-> 0, ahead |-> <<>>, eof |-> FALSE]

Init == /\ file = <<>>
        /\ writer = [opened |-> FALSE, position |-> 0, pending |-> <<>>, bad |-> FALSE,
                     held |-> <<>>]
        /\ written = <<>>
        /\ reader = [class |-> "file", opened |-> FALSE, ended |-> FALSE, position |-> 0,
                     emptyPolls |-> 0]
        /\ ifstream = NewStream
        /\ line = <<>>
        /\ got = <<>>
        /\ opens = [writer |-> 0, reader |-> 0, seen |-> 0]

-----------------------------------------------------------------------------
(* The writer.                                                             *)

readerVars == <<reader, ifstream, line, got>>

OpenWriter ==
  /\ writer.pending = <<>>
  /\ opens.writer < MaxTruncations
  /\ opens' = [opens EXCEPT !.writer = @ + 1]
  /\ writer' = [opened |-> TRUE, position |-> 0, pending |-> <<>>, bad |-> FALSE, held |-> <<>>]
  /\ file' = <<>>
  /\ written' = <<>>
  /\ UNCHANGED readerVars

\* How many tokens of a text reach the file when writing it fails.
FailedAfter(tokens) ==
  IF "part" \in Faults THEN 0..Len(tokens) - 1
  ELSE IF "nothing" \in Faults THEN {0} ELSE {}

\* The flush of a line that fits the buffer: it is written in one piece, or the
\* buffer keeps it.
Flush(tokens) ==
  \/ /\ file' = file \o tokens
     /\ writer' = [writer EXCEPT !.position = @ + 1]
  \/ \E n \in FailedAfter(tokens) :
       /\ file' = file \o SubSeq(tokens, 1, n)
       /\ writer' = [writer EXCEPT !.position = @ + 1, !.bad = TRUE, !.held = tokens]

\* Mutated form of Write: badbit is cleared before every line.
WriteCleared ==
  /\ writer.opened /\ writer.pending = <<>>
  /\ Len(written) < MaxWrites
  /\ \E text \in Lines :
       /\ written' = Append(written, text)
       /\ IF text \in Torn
          THEN /\ writer' = [writer EXCEPT !.pending = Tokens(text), !.bad = FALSE]
               /\ UNCHANGED file
          ELSE Flush(Tokens(text))
  /\ UNCHANGED <<readerVars, opens>>

\* The state of the stream is not looked at: a line it does not take is counted.
Write ==
  /\ writer.opened /\ writer.pending = <<>>
  /\ Len(written) < MaxWrites
  /\ \E text \in Lines :
       /\ written' = Append(written, text)
       /\ \/ /\ writer.bad
             /\ writer' = [writer EXCEPT !.position = @ + 1]
             /\ UNCHANGED file
          \/ /\ ~writer.bad /\ text \in Torn
             /\ writer' = [writer EXCEPT !.pending = Tokens(text)]
             /\ UNCHANGED file
          \/ /\ ~writer.bad /\ text \notin Torn
             /\ Flush(Tokens(text))
  /\ UNCHANGED <<readerVars, opens>>

WriteThrough ==
  /\ writer.pending # <<>>
  /\ \E n \in 1..Len(writer.pending) :
       /\ file' = file \o SubSeq(writer.pending, 1, n)
       /\ writer' = [writer EXCEPT
            !.pending = SubSeq(@, n + 1, Len(@)),
            !.position = IF n = Len(writer.pending) THEN @ + 1 ELSE @]
  /\ UNCHANGED <<written, readerVars, opens>>

\* The text of a long line does not pass through the buffer and is lost; the
\* newline behind it would be kept.
WriteThroughFails ==
  /\ writer.pending # <<>>
  /\ Faults # {}
  /\ writer' = [writer EXCEPT
       !.pending = <<>>, !.position = @ + 1, !.bad = TRUE,
       !.held = IF writer.pending = <<NewLine>> THEN writer.pending ELSE <<>>]
  /\ UNCHANGED <<file, written, readerVars, opens>>

\* The close of the ofstream writes what the buffer keeps, if it can by then.
CloseWriter ==
  /\ writer.opened /\ writer.pending = <<>>
  /\ \E n \in FailedAfter(writer.held) \cup {Len(writer.held)} :
       file' = file \o SubSeq(writer.held, 1, n)
  /\ writer' = [writer EXCEPT !.opened = FALSE, !.held = <<>>]
  /\ UNCHANGED <<written, readerVars, opens>>

\* The writing process dies: what its buffer held never reaches the file.
WriterDies ==
  /\ writer.opened /\ writer.pending \o writer.held # <<>>
  /\ writer' = [writer EXCEPT !.opened = FALSE, !.pending = <<>>, !.held = <<>>]
  /\ UNCHANGED <<file, written, readerVars, opens>>

-----------------------------------------------------------------------------
(* The reader.                                                             *)

writerVars == <<file, writer, written>>

\* Before the writer created it there is no file: open throws, and a stream
\* that was open is closed by then.
OpenReader ==
  /\ line = <<>>
  /\ opens.reader < MaxOpens
  /\ opens' = [opens EXCEPT !.reader = @ + 1, !.seen = opens.writer]
  /\ IF opens.writer > 0
     THEN /\ \E class \in Readers :
               reader' = [class |-> class, opened |-> TRUE, ended |-> FALSE, position |-> 0,
                          emptyPolls |-> 0]
          /\ got' = <<>>
     ELSE /\ reader' = [reader EXCEPT !.opened = FALSE]
          /\ UNCHANGED got
  /\ ifstream' = NewStream
  /\ UNCHANGED <<writerVars, line>>

CloseReader ==
  /\ line = <<>>
  /\ reader.opened
  /\ reader' = [reader EXCEPT !.opened = FALSE]
  /\ ifstream' = NewStream
  /\ UNCHANGED <<writerVars, line, got, opens>>

\* Mutated forms of Deliver: an empty line is skipped; it is taken for the end.
DeliverUnlessEmpty(text) ==
  /\ reader' = [reader EXCEPT !.position = @ + 1, !.emptyPolls = 0]
  /\ got' = IF text = <<>> THEN got ELSE Append(got, text)
  /\ line' = <<>>

DeliverEndingOnEmpty(text) ==
  /\ reader' = [reader EXCEPT !.position = @ + 1, !.emptyPolls = 0, !.ended = text = <<>>]
  /\ got' = Append(got, text)
  /\ line' = <<>>

\* getline gave a line.
Deliver(text) ==
  /\ reader' = [reader EXCEPT !.position = @ + 1, !.emptyPolls = 0]
  /\ got' = Append(got, text)
  /\ line' = <<>>

\* Mutated forms of NoLine: a return before the poll is counted and the stream
\* cleared; a stream that is not cleared; a count compared before it is raised.
NoLineIgnored ==
  /\ ifstream' = [ifstream EXCEPT !.eof = TRUE]
  /\ line' = <<>>
  /\ UNCHANGED <<reader, got>>

NoLineNotCleared ==
  /\ reader' = [reader EXCEPT !.emptyPolls = @ + 1,
                              !.ended = reader.emptyPolls + 1 > MaxEmptyPolls]
  /\ ifstream' = [ifstream EXCEPT !.eof = TRUE]
  /\ line' = <<>>
  /\ UNCHANGED got

NoLineComparedFirst ==
  /\ reader' = [reader EXCEPT !.emptyPolls = @ + 1,
                              !.ended = reader.emptyPolls > MaxEmptyPolls]
  /\ ifstream' = [ifstream EXCEPT !.eof = FALSE]
  /\ line' = <<>>
  /\ UNCHANGED got

\* getline gave none: the end for one reader, an empty poll for the live one,
\* which waits and gives up after max_empty_polls of them in a row.
NoLine ==
  /\ IF reader.class = "live"
     THEN /\ reader' = [reader EXCEPT !.emptyPolls = @ + 1,
                                      !.ended = reader.emptyPolls + 1 > MaxEmptyPolls]
          /\ ifstream' = [ifstream EXCEPT !.eof = FALSE]
     ELSE /\ reader' = [reader EXCEPT !.ended = TRUE]
          /\ ifstream' = [ifstream EXCEPT !.eof = TRUE]
  /\ line' = <<>>
  /\ UNCHANGED got

\* A stream that is closed or ended gives nothing and is not touched.
TryRead ==
  /\ line = <<>>
  /\ reader.opened /\ ~reader.ended
  /\ IF ifstream.eof
     THEN NoLine
     ELSE /\ line' = << <<>> >>
          /\ UNCHANGED <<reader, ifstream, got>>
  /\ UNCHANGED <<writerVars, opens>>

\* getline takes what is in the buffer, up to the first newline.
TakeLine ==
  /\ line # <<>>
  /\ Contains(ifstream.ahead, NewLine)
  /\ LET end == SelectInSeq(ifstream.ahead, LAMBDA token : token = NewLine) IN
     /\ Deliver(line[1] \o SubSeq(ifstream.ahead, 1, end - 1))
     /\ ifstream' = [ifstream EXCEPT !.ahead = SubSeq(@, end + 1, Len(@))]
  /\ UNCHANGED <<writerVars, opens>>

\* The buffer has no newline: it is taken, and refilled with what the file has.
Underflow ==
  /\ line # <<>>
  /\ ~Contains(ifstream.ahead, NewLine)
  /\ ifstream.offset < Len(file)
  /\ line' = <<line[1] \o ifstream.ahead>>
  /\ ifstream' = [ifstream EXCEPT !.offset = Len(file),
                                  !.ahead = SubSeq(file, ifstream.offset + 1, Len(file))]
  /\ UNCHANGED <<writerVars, reader, got, opens>>

\* Mutated form of ReachEnd: text without a newline is thrown away.
ReachEndDiscarding ==
  /\ line # <<>>
  /\ ~Contains(ifstream.ahead, NewLine)
  /\ ifstream.offset >= Len(file)
  /\ reader' = [reader EXCEPT !.emptyPolls = @ + 1,
                              !.ended = reader.emptyPolls + 1 > MaxEmptyPolls]
  /\ ifstream' = [ifstream EXCEPT !.ahead = <<>>]
  /\ line' = <<>>
  /\ UNCHANGED <<writerVars, got, opens>>

\* There is nothing to refill it with.  Text without a newline is a line too;
\* eofbit then makes the next getline give up at once.
ReachEnd ==
  /\ line # <<>>
  /\ ~Contains(ifstream.ahead, NewLine)
  /\ ifstream.offset >= Len(file)
  /\ LET text == line[1] \o ifstream.ahead IN
     IF text = <<>>
     THEN NoLine
     ELSE /\ Deliver(text)
          /\ ifstream' = [ifstream EXCEPT !.ahead = <<>>, !.eof = TRUE]
  /\ UNCHANGED <<writerVars, opens>>

-----------------------------------------------------------------------------
Writer == \/ OpenWriter \/ Write \/ WriteThrough \/ WriteThroughFails
          \/ CloseWriter \/ WriterDies

Poll == TryRead \/ TakeLine \/ Underflow \/ ReachEnd

Next == Writer \/ OpenReader \/ CloseReader \/ Poll

Spec == Init /\ [][Next]_vars

\* The client reads until is_end_of_stream, as a consumer of a stream does.
FairSpec == Spec /\ WF_vars(Poll)

-----------------------------------------------------------------------------
(* Properties.                                                             *)

TypeOK ==
  /\ file \in Seq(Token)
  /\ writer \in [opened : BOOLEAN, position : Nat, pending : Seq(Token),
                 bad : BOOLEAN, held : Seq(Token)]
  /\ written \in Seq(Lines)
  /\ reader \in [class : {"file", "live"}, opened : BOOLEAN, ended : BOOLEAN,
                 position : Nat, emptyPolls : 0..MaxEmptyPolls + 1]
  /\ ifstream \in [offset : Nat, ahead : Seq(Token), eof : BOOLEAN]
  /\ line \in Seq(Seq(Piece)) /\ Len(line) <= 1
  /\ got \in Seq(Seq(Piece))
  /\ opens \in [writer : 0..MaxTruncations, reader : 0..MaxOpens, seen : 0..MaxTruncations]

\* The file is the one the reader opened, not truncated since.
SameFile == opens.seen = opens.writer

(* A line stream returns the lines that were written: each of them whole,  *)
(* once, and in the order they were written in.                            *)
WholeLines == SameFile => IsPrefix(got, written)

\* The text of a file, or of lines, without the places it is cut at.
TextOf(tokens) == FlattenSeq([k \in DOMAIN tokens |->
                                IF Text(tokens[k]) THEN <<tokens[k]>> ELSE <<>>])

(* The text returned is the text of the file from its beginning on, and    *)
(* the read-ahead continues it: however the lines are cut, nothing is      *)
(* lost, repeated or moved.                                                *)
TextInOrder ==
  reader.opened /\ SameFile =>
    IsPrefix(FlattenSeq(got) \o FlattenSeq(line) \o TextOf(ifstream.ahead), TextOf(file))

\* The content of a file that the lines were written to.
FileOf(lines) == FlattenSeq([i \in DOMAIN lines |-> Tokens(lines[i])])

(* Nothing is written behind a line that was lost: the file holds the      *)
(* lines up to it, then at most a beginning of it from the write and one   *)
(* from the close, although write has counted it and the lines after it.   *)
(* As long as the stream is good, the file has every line.                 *)
NothingBehindLostLine ==
  /\ \/ file = FileOf(written)
     \/ \E k \in 0..Len(written) - 1 :
          LET lost == Tokens(written[k + 1]) IN
          \E n \in 0..Len(lost) - 1, m \in 0..Len(lost) :
            file = FileOf(SubSeq(written, 1, k)) \o SubSeq(lost, 1, n) \o SubSeq(lost, 1, m)
  /\ writer.opened /\ ~writer.bad /\ writer.pending = <<>> =>
       file = FileOf(written) /\ writer.position = Len(written)

(* A stream ends only at the end the file then has, and, unless the file   *)
(* was truncated under it, has returned all the text in it by then.        *)
EndsAtEndOfFile ==
  [][reader'.ended /\ ~reader.ended =>
       /\ ifstream'.ahead = <<>> /\ ifstream'.offset >= Len(file')
       /\ SameFile => FlattenSeq(got') = TextOf(file')]_vars

(* A reader that keeps polling comes to an end once the writer is silent.  *)
PollingEnds == reader.opened ~> (reader.ended \/ ~reader.opened)
=============================================================================
