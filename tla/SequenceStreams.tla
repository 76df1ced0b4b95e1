---------------------------- MODULE SequenceStreams ----------------------------
(***************************************************************************)
(* A SequenceReadOnlyStream and a SequenceWriteOnlyStream (streams/detail/ *)
(* sequence.tpp) over the sequences of SequenceValues, whose owners go on  *)
(* calling operations on them.  The streams hold pointers to objects: both *)
(* may use the same one, and a write may leave the object it was given.    *)
(***************************************************************************)
EXTENDS Integers, SequencesExt

CONSTANTS
  Item,            \* the elements
  Func, Chosen,    \* for operations of SequenceValues that are not called here
  MaxObjects,      \* bound on the objects
  MaxLength        \* bound on the length of a value

ASSUME SequenceStreamsAssumption == {MaxObjects, MaxLength} \subseteq Nat

VARIABLES
  values, mutable,    \* those of SequenceValues
  reader,     \* the members of the reader; source 0 before it is made
  writer,     \* the members of the writer; target 0 before it is made
  got,        \* what the reader returned since it was made
  shifted,    \* an item was put before the reader's position meanwhile
  sent,       \* what was written since the writer was made
  given       \* the object the writer was made with, and its value then

\* The calls made here return within their step.
Values == INSTANCE SequenceValues WITH call <- "returned"

vars == <<values, mutable, reader, writer, got, shifted, sent, given>>

Init == /\ values = <<>> /\ mutable = <<>>
        /\ reader = [source |-> 0, position |-> 0, opened |-> FALSE]
        /\ writer = [target |-> 0, position |-> 0, opened |-> FALSE]
        /\ got = <<>> /\ shifted = FALSE
        /\ sent = <<>> /\ given = [object |-> 0, value |-> <<>>]

readerVars == <<reader, got>>
writerVars == <<writer, sent, given>>

\* There is room for one more item, in the object or in a copy of it.
Room(object) ==
  /\ Len(values[object]) < MaxLength
  /\ mutable[object] \/ Len(values) < MaxObjects

Call(op, object, args) == [op |-> op, object |-> object, args |-> args]

\* An insertion is made.  Into the reader's source, before the reader's
\* position, it moves the items that were read already.
Perform(c) ==
  /\ Room(c.object)
  /\ values' = Values!Outcome(c)
  /\ mutable' = IF mutable[c.object] THEN mutable ELSE Append(mutable, FALSE)
  /\ shifted' = \/ shifted
                \/ /\ c.object = reader.source /\ mutable[c.object]
                   /\ Values!InsertPosition(values[c.object], c) < reader.position

-----------------------------------------------------------------------------
(* The owners of the sequences.                                            *)

NewSequence ==
  /\ Len(values) < MaxObjects
  /\ values' = Append(values, <<>>)
  /\ \E class \in BOOLEAN : mutable' = Append(mutable, class)
  /\ UNCHANGED <<readerVars, shifted, writerVars>>

Insert ==
  /\ \E object \in DOMAIN values, item \in Item :
       \/ Perform(Call("append", object, <<item>>))
       \/ Perform(Call("prepend", object, <<item>>))
       \/ \E index \in 0..Len(values[object]) :
            Perform(Call("insert_at", object, <<item, index>>))
  /\ UNCHANGED <<readerVars, writerVars>>

-----------------------------------------------------------------------------
(* The reader.                                                             *)

seqVars == <<values, mutable>>

MakeReader ==
  /\ \E object \in DOMAIN values :
       reader' = [source |-> object, position |-> 0, opened |-> FALSE]
  /\ got' = <<>> /\ shifted' = FALSE
  /\ UNCHANGED <<seqVars, writerVars>>

\* Mutated form of OpenReader: it starts over, as the file streams do.
OpenReaderFromStart ==
  /\ reader.source # 0
  /\ reader' = [reader EXCEPT !.opened = TRUE, !.position = 0]
  /\ UNCHANGED <<seqVars, got, shifted, writerVars>>

\* The position is kept: a reader opened again goes on where it was.
OpenReader ==
  /\ reader.source # 0
  /\ reader' = [reader EXCEPT !.opened = TRUE]
  /\ UNCHANGED <<seqVars, got, shifted, writerVars>>

CloseReader ==
  /\ reader.source # 0
  /\ reader' = [reader EXCEPT !.opened = FALSE]
  /\ UNCHANGED <<seqVars, got, shifted, writerVars>>

\* Mutated form of IsEndOfStream: the last item is taken for the end.
IsEndOfStreamBeforeLast ==
  \/ ~reader.opened
  \/ reader.position >= Len(values[reader.source]) - 1

IsEndOfStream ==
  \/ ~reader.opened
  \/ reader.position >= Len(values[reader.source])

\* read, and try_read unless it gives None; at the end nothing changes.
Read ==
  /\ reader.source # 0
  /\ ~IsEndOfStream
  /\ got' = Append(got, values[reader.source][reader.position + 1])
  /\ reader' = [reader EXCEPT !.position = @ + 1]
  /\ UNCHANGED <<seqVars, shifted, writerVars>>

-----------------------------------------------------------------------------
(* The writer.                                                             *)

MakeWriter ==
  /\ \E object \in DOMAIN values :
       /\ writer' = [target |-> object, position |-> 0, opened |-> FALSE]
       /\ given' = [object |-> object, value |-> values[object]]
  /\ sent' = <<>>
  /\ UNCHANGED <<seqVars, readerVars, shifted>>

OpenWriter ==
  /\ writer.target # 0
  /\ writer' = [writer EXCEPT !.opened = TRUE]
  /\ UNCHANGED <<seqVars, readerVars, shifted, sent, given>>

CloseWriter ==
  /\ writer.target # 0
  /\ writer' = [writer EXCEPT !.opened = FALSE]
  /\ UNCHANGED <<seqVars, readerVars, shifted, sent, given>>

\* Mutated forms of Appended: the writer stays with the object it was given;
\* it expects a copy of every object.
AppendedTo(object) == object
AppendedCopy(object) == Len(values) + 1

\* What append returns: the object itself, or the copy made beside it.
Appended(object) == IF mutable[object] THEN object ELSE Len(values) + 1

Write ==
  /\ writer.opened
  /\ \E item \in Item :
       /\ Perform(Call("append", writer.target, <<item>>))
       /\ sent' = Append(sent, item)
  /\ writer' = [writer EXCEPT !.target = Appended(@), !.position = @ + 1]
  /\ UNCHANGED <<readerVars, given>>

-----------------------------------------------------------------------------
Next == \/ NewSequence \/ Insert
        \/ MakeReader \/ OpenReader \/ CloseReader \/ Read
        \/ MakeWriter \/ OpenWriter \/ CloseWriter \/ Write

Spec == Init /\ [][Next]_vars

\* A consumer reads as long as there is something to read.
FairSpec == Spec /\ WF_vars(Read)

-----------------------------------------------------------------------------
(* Properties.                                                             *)

TypeOK ==
  /\ values \in Seq(Seq(Item)) /\ mutable \in Seq(BOOLEAN) /\ Len(mutable) = Len(values)
  /\ reader \in [source : {0} \cup DOMAIN values, position : Nat, opened : BOOLEAN]
  /\ writer \in [target : {0} \cup DOMAIN values, position : Nat, opened : BOOLEAN]
  /\ got \in Seq(Item) /\ sent \in Seq(Item) /\ shifted \in BOOLEAN
  /\ given.object \in {0} \cup DOMAIN values /\ given.value \in Seq(Item)

(* Whatever is put behind the reader's position, and however often the     *)
(* reader is closed and opened again, it has returned the beginning of its *)
(* source, each item once; only an insertion before its position, which    *)
(* moves items under it, makes it return an item again.                    *)
ReadOnceInOrder ==
  /\ reader.position = Len(got)
  /\ reader.source # 0 /\ ~shifted =>
       got = SubSeq(values[reader.source], 1, reader.position)

\* The items of part are items of whole, in the same order.
Within(part, whole) ==
  \E place \in [DOMAIN part -> DOMAIN whole] :
    /\ \A i, j \in DOMAIN part : i < j => place[i] < place[j]
    /\ \A i \in DOMAIN part : part[i] = whole[place[i]]

(* Nothing that is written is lost or changes its order.  A mutable        *)
(* sequence takes it in place, with what its owners insert between.  An    *)
(* immutable one never changes: the writer moves on to the copies, the     *)
(* last of which has every item written, and whoever made the writer still *)
(* holds the value from before.                                            *)
WritesKept ==
  writer.target # 0 =>
    /\ writer.position = Len(sent)
    /\ IF mutable[given.object]
       THEN /\ writer.target = given.object
            /\ Within(given.value \o sent, values[given.object])
       ELSE /\ values[given.object] = given.value
            /\ values[writer.target] = given.value \o sent

(* The end of a sequence stream is not final: an item that is put into the *)
(* sequence of an open reader, by its owner or by a writer, is read.       *)
EverythingRead ==
  \A n \in 1..MaxLength :
    (reader.opened /\ Len(values[reader.source]) >= n) ~> (Len(got) >= n \/ ~reader.opened)
=============================================================================
