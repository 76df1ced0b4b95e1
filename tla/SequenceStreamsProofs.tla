-------------------------- MODULE SequenceStreamsProofs --------------------------
(***************************************************************************)
(* Proofs about SequenceStreams: its types, and that a reader returns the  *)
(* items of its source once and in order, for any items, any number of     *)
(* objects and sequences of any length.                                    *)
(***************************************************************************)
EXTENDS SequenceStreams, SequenceLemmas

-----------------------------------------------------------------------------
(* Insertions.                                                             *)

\* What lies within a sequence lies within it after an insertion.
LEMMA WithinInsertAt ==
  ASSUME NEW S, NEW part \in Seq(S), NEW s \in Seq(S), NEW e \in S,
         NEW i \in 1..Len(s) + 1, Within(part, s)
  PROVE  Within(part, InsertAt(s, i, e))
<1> DEFINE t == InsertAt(s, i, e)
<1>1. /\ t \in Seq(S) /\ Len(t) = Len(s) + 1
      /\ \A k \in 1..i - 1 : t[k] = s[k]
      /\ \A k \in i..Len(s) : t[k + 1] = s[k]
  BY InsertAtItems
<1> HIDE DEF t
<1>2. PICK place \in [DOMAIN part -> DOMAIN s] :
        /\ \A j, k \in DOMAIN part : j < k => place[j] < place[k]
        /\ \A k \in DOMAIN part : part[k] = s[place[k]]
  BY DEF Within
<1> DEFINE moved == [k \in DOMAIN part |-> IF place[k] < i THEN place[k] ELSE place[k] + 1]
<1>3. moved \in [DOMAIN part -> DOMAIN t]
  BY <1>1, <1>2
<1>4. \A j, k \in DOMAIN part : j < k => moved[j] < moved[k]
  BY <1>2
<1>5. \A k \in DOMAIN part : part[k] = t[moved[k]]
  <2> TAKE k \in DOMAIN part
  <2>1. place[k] \in 1..Len(s) /\ part[k] = s[place[k]]
    BY <1>2
  <2>2. CASE place[k] < i
    <3>1. moved[k] = place[k] /\ place[k] \in 1..i - 1
      BY <2>1, <2>2
    <3> QED BY <1>1, <2>1, <3>1
  <2>3. CASE ~(place[k] < i)
    <3>1. moved[k] = place[k] + 1 /\ place[k] \in i..Len(s)
      BY <2>1, <2>3
    <3> QED BY <1>1, <2>1, <3>1
  <2> QED BY <2>2, <2>3
<1> HIDE DEF moved
<1>6. Within(part, t)
  BY <1>3, <1>4, <1>5 DEF Within
<1> QED BY <1>6 DEF t

\* An item put at the end continues what lies within a sequence.
LEMMA WithinAppended ==
  ASSUME NEW S, NEW part \in Seq(S), NEW s \in Seq(S), NEW e \in S, Within(part, s)
  PROVE  Within(Append(part, e), InsertAt(s, Len(s) + 1, e))
<1> DEFINE t == InsertAt(s, Len(s) + 1, e)
<1>1. /\ t \in Seq(S) /\ Len(t) = Len(s) + 1
      /\ \A k \in 1..Len(s) : t[k] = s[k]
      /\ t[Len(s) + 1] = e
  BY InsertAtItems
<1> HIDE DEF t
<1>2. PICK place \in [DOMAIN part -> DOMAIN s] :
        /\ \A j, k \in DOMAIN part : j < k => place[j] < place[k]
        /\ \A k \in DOMAIN part : part[k] = s[place[k]]
  BY DEF Within
<1> DEFINE longer == Append(part, e)
           moved == [k \in DOMAIN longer |-> IF k = Len(longer) THEN Len(s) + 1 ELSE place[k]]
<1>3. longer \in Seq(S) /\ Len(longer) = Len(part) + 1 /\ longer[Len(longer)] = e
      /\ \A k \in DOMAIN part : longer[k] = part[k]
  OBVIOUS
<1>4. \A k \in DOMAIN longer : k # Len(longer) => k \in DOMAIN part
  BY <1>3
<1> HIDE DEF longer
<1>5. ASSUME NEW k \in DOMAIN longer
      PROVE  moved[k] \in DOMAIN t /\ longer[k] = t[moved[k]]
  <2>1. CASE k = Len(longer)
    <3>1. moved[k] = Len(s) + 1
      BY <2>1
    <3> QED BY <1>1, <1>3, <2>1, <3>1
  <2>2. CASE k # Len(longer)
    <3>1. k \in DOMAIN part /\ moved[k] = place[k]
      BY <1>4, <2>2
    <3>2. place[k] \in 1..Len(s) /\ part[k] = s[place[k]]
      BY <1>2, <3>1
    <3> HIDE DEF moved
    <3> QED BY <1>1, <1>3, <3>1, <3>2
  <2> QED BY <2>1, <2>2
<1>6. \A j, k \in DOMAIN longer : j < k => moved[j] < moved[k]
  BY <1>2, <1>3, <1>4
<1>7. moved \in [DOMAIN longer -> DOMAIN t]
  BY <1>5
<1> HIDE DEF moved
<1>8. Within(longer, t)
  BY <1>5, <1>6, <1>7 DEF Within
<1> QED BY <1>8 DEF t, longer

-----------------------------------------------------------------------------
(* One insertion.                                                          *)

\* The calls of this module: an append, a prepend, or an insert_at whose index
\* the sequence has.
IsInsertion(c) ==
  /\ c.op \in Values!Updates /\ c.object \in DOMAIN values
  /\ c.args[1] \in Item
  /\ c.op = "insert_at" => c.args[2] \in 0..Len(values[c.object])

\* Where an insertion puts its item.
Place(c) == Values!InsertPosition(values[c.object], c) + 1

\* The place of an insertion is one of the sequence's, or just behind it.
LEMMA PlaceInSequence ==
  ASSUME TypeOK, NEW c, IsInsertion(c)
  PROVE  Place(c) \in 1..Len(values[c.object]) + 1
<1>1. values[c.object] \in Seq(Item)
  BY DEF TypeOK, IsInsertion
<1> QED
  BY <1>1 DEF IsInsertion, Place, Values!InsertPosition, Values!Updates

\* An insertion into a mutable object changes it and no other.
LEMMA PerformMutable ==
  ASSUME TypeOK, NEW c, IsInsertion(c), Perform(c), mutable[c.object]
  PROVE  /\ values' = [values EXCEPT ![c.object] =
                         InsertAt(values[c.object], Place(c), c.args[1])]
         /\ mutable' = mutable
<1>1. Values!Accepted(values[c.object], c)
  BY DEF IsInsertion, Values!Accepted, Values!Updates
<1>2. Values!Outcome(c) = [values EXCEPT ![c.object] = Values!Result(values[c.object], c)]
  BY <1>1 DEF IsInsertion, Values!Outcome
<1>3. Values!Result(values[c.object], c) = InsertAt(values[c.object], Place(c), c.args[1])
  BY DEF IsInsertion, Place, Values!Result, Values!Updates, InsertAt, Values!InsertAt
<1> QED BY <1>2, <1>3 DEF Perform

\* An insertion into an immutable object leaves all objects and adds one.
LEMMA PerformImmutable ==
  ASSUME TypeOK, NEW c, IsInsertion(c), Perform(c), ~mutable[c.object]
  PROVE  /\ values' = Append(values, InsertAt(values[c.object], Place(c), c.args[1]))
         /\ mutable' = Append(mutable, FALSE)
<1>1. Values!Accepted(values[c.object], c)
  BY DEF IsInsertion, Values!Accepted, Values!Updates
<1>2. Values!Outcome(c) = Append(values, Values!Result(values[c.object], c))
  BY <1>1 DEF IsInsertion, Values!Outcome
<1>3. Values!Result(values[c.object], c) = InsertAt(values[c.object], Place(c), c.args[1])
  BY DEF IsInsertion, Place, Values!Result, Values!Updates, InsertAt, Values!InsertAt
<1> QED BY <1>2, <1>3 DEF Perform

\* What every step leaves: the classes, the immutable objects, the order of
\* what was in an object.
ObjectsKept ==
  /\ values' \in Seq(Seq(Item)) /\ mutable' \in Seq(BOOLEAN)
  /\ Len(mutable') = Len(values')
  /\ \A o \in DOMAIN values :
       /\ o \in DOMAIN values'
       /\ mutable'[o] = mutable[o]
       /\ ~mutable[o] => values'[o] = values[o]
       /\ Len(values[o]) <= Len(values'[o])
       /\ \A part \in Seq(Item) : Within(part, values[o]) => Within(part, values'[o])

\* An insertion is such a step.
LEMMA PerformEffect ==
  ASSUME TypeOK, NEW c, IsInsertion(c), Perform(c)
  PROVE  ObjectsKept
<1> DEFINE v == InsertAt(values[c.object], Place(c), c.args[1])
<1>1. /\ values \in Seq(Seq(Item)) /\ mutable \in Seq(BOOLEAN) /\ Len(mutable) = Len(values)
      /\ c.object \in DOMAIN values /\ c.args[1] \in Item
      /\ values[c.object] \in Seq(Item)
  BY DEF TypeOK, IsInsertion
<1>2. Place(c) \in 1..Len(values[c.object]) + 1
  BY PlaceInSequence
<1>3. v \in Seq(Item) /\ Len(v) = Len(values[c.object]) + 1
  BY <1>1, <1>2, InsertAtItems
<1>4. \A part \in Seq(Item) : Within(part, values[c.object]) => Within(part, v)
  BY <1>1, <1>2, WithinInsertAt
<1>5. CASE mutable[c.object]
  <2>1. values' = [values EXCEPT ![c.object] = v] /\ mutable' = mutable
    BY <1>5, PerformMutable
  <2> HIDE DEF v
  <2>2. values' \in Seq(Seq(Item)) /\ Len(values') = Len(values) /\ DOMAIN values' = DOMAIN values
    BY <1>1, <1>3, <2>1
  <2>3. ASSUME NEW o \in DOMAIN values
        PROVE  /\ ~mutable[o] => values'[o] = values[o]
               /\ Len(values[o]) <= Len(values'[o])
               /\ \A part \in Seq(Item) : Within(part, values[o]) => Within(part, values'[o])
    <3>1. CASE o = c.object
      <4>1. values'[o] = v
        BY <1>1, <2>1, <3>1
      <4> QED BY <1>1, <1>3, <1>4, <1>5, <3>1, <4>1
    <3>2. CASE o # c.object
      <4>1. values'[o] = values[o] /\ Len(values[o]) \in Nat
        BY <1>1, <2>1, <3>2
      <4> QED BY <4>1
    <3> QED BY <3>1, <3>2
  <2> QED BY <1>1, <2>1, <2>2, <2>3 DEF ObjectsKept
<1>6. CASE ~mutable[c.object]
  <2>1. values' = Append(values, v) /\ mutable' = Append(mutable, FALSE)
    BY <1>6, PerformImmutable
  <2> HIDE DEF v
  <2>2. /\ values' \in Seq(Seq(Item)) /\ Len(values') = Len(values) + 1
        /\ mutable' \in Seq(BOOLEAN) /\ Len(mutable') = Len(mutable) + 1
    BY <1>1, <1>3, <2>1
  <2>3. ASSUME NEW o \in DOMAIN values
        PROVE  o \in DOMAIN values' /\ values'[o] = values[o] /\ mutable'[o] = mutable[o]
               /\ Len(values[o]) \in Nat
    BY <1>1, <1>3, <2>1
  <2> QED BY <1>1, <2>2, <2>3 DEF ObjectsKept
<1> QED BY <1>5, <1>6

-----------------------------------------------------------------------------
(* The inductive invariant: besides the properties, the reader's position  *)
(* is one of its source's, and the writer is with an object of the class   *)
(* of the one it was given.                                                *)

ObjectsOK ==
  /\ values \in Seq(Seq(Item)) /\ mutable \in Seq(BOOLEAN)
  /\ Len(mutable) = Len(values) /\ shifted \in BOOLEAN

ReaderOK ==
  /\ reader \in [source : {0} \cup DOMAIN values, position : Nat, opened : BOOLEAN]
  /\ got \in Seq(Item)
  /\ ReadOnceInOrder
  /\ reader.source # 0 => reader.position <= Len(values[reader.source])

WriterOK ==
  /\ writer \in [target : {0} \cup DOMAIN values, position : Nat, opened : BOOLEAN]
  /\ sent \in Seq(Item)
  /\ given.object \in {0} \cup DOMAIN values /\ given.value \in Seq(Item)
  /\ WritesKept
  /\ writer.opened => writer.target # 0
  /\ writer.target # 0 =>
       /\ given.object # 0
       /\ ~mutable[given.object] => ~mutable[writer.target]

IInv == ObjectsOK /\ ReaderOK /\ WriterOK

\* The types are part of the invariant.
LEMMA InvariantTypes == IInv => TypeOK
BY DEF IInv, ObjectsOK, ReaderOK, WriterOK, TypeOK

\* The invariant holds before anything is made.
LEMMA InitInvariant == Init => IInv
<1> SUFFICES ASSUME Init PROVE IInv
  OBVIOUS
<1>1. /\ values = <<>> /\ mutable = <<>> /\ got = <<>> /\ sent = <<>> /\ shifted = FALSE
      /\ reader = [source |-> 0, position |-> 0, opened |-> FALSE]
      /\ writer = [target |-> 0, position |-> 0, opened |-> FALSE]
      /\ given.object = 0 /\ given.value = <<>>
  BY DEF Init
<1>2. ObjectsOK
  <2>1. <<>> \in Seq(Seq(Item)) /\ <<>> \in Seq(BOOLEAN)
    OBVIOUS
  <2> QED BY <1>1, <2>1 DEF ObjectsOK
<1>3. ReaderOK
  BY <1>1 DEF ReaderOK, ReadOnceInOrder
<1>4. WriterOK
  BY <1>1 DEF WriterOK, WritesKept
<1> QED BY <1>2, <1>3, <1>4 DEF IInv

\* A step that leaves the reader, and the items it has read, keeps ReaderOK.
LEMMA ReaderLeft ==
  ASSUME IInv, ObjectsKept, UNCHANGED readerVars, ObjectsOK',
         reader.source # 0 /\ ~shifted' =>
           /\ ~shifted
           /\ SubSeq(values'[reader.source], 1, reader.position) =
                SubSeq(values[reader.source], 1, reader.position)
  PROVE  ReaderOK'
<1>1. reader' = reader /\ got' = got
  BY DEF readerVars
<1>2. /\ reader \in [source : {0} \cup DOMAIN values, position : Nat, opened : BOOLEAN]
      /\ got \in Seq(Item) /\ ReadOnceInOrder
      /\ reader.source # 0 => reader.position <= Len(values[reader.source])
  BY DEF IInv, ReaderOK
<1>3. reader \in [source : {0} \cup DOMAIN values', position : Nat, opened : BOOLEAN]
  BY <1>2 DEF ObjectsKept
<1>4. ReadOnceInOrder'
  BY <1>1, <1>2 DEF ReadOnceInOrder
<1>5. reader.source # 0 => reader.position <= Len(values'[reader.source])
  <2>1. SUFFICES ASSUME reader.source # 0
                 PROVE  reader.position <= Len(values'[reader.source])
    OBVIOUS
  <2>2. reader.source \in DOMAIN values /\ reader.position \in Nat
    BY <1>2, <2>1
  <2>3. /\ reader.source \in DOMAIN values'
        /\ Len(values[reader.source]) <= Len(values'[reader.source])
    BY <2>2 DEF ObjectsKept
  <2>4. Len(values[reader.source]) \in Nat /\ Len(values'[reader.source]) \in Nat
    BY <2>2, <2>3 DEF IInv, ObjectsOK
  <2> QED BY <1>2, <2>1, <2>2, <2>3, <2>4
<1> QED BY <1>1, <1>2, <1>3, <1>4, <1>5 DEF ReaderOK

\* A step that leaves the writer keeps WriterOK.
LEMMA WriterLeft ==
  ASSUME IInv, ObjectsKept, UNCHANGED writerVars
  PROVE  WriterOK'
<1>1. writer' = writer /\ sent' = sent /\ given' = given
  BY DEF writerVars
<1>2. WriterOK
  BY DEF IInv
<1>3. /\ writer \in [target : {0} \cup DOMAIN values', position : Nat, opened : BOOLEAN]
      /\ given.object \in {0} \cup DOMAIN values'
  BY <1>2 DEF WriterOK, ObjectsKept
<1>4. ASSUME writer.target # 0
      PROVE  /\ writer.target \in DOMAIN values /\ given.object \in DOMAIN values
             /\ given.object # 0
             /\ ~mutable[given.object] => ~mutable[writer.target]
             /\ given.value \o sent \in Seq(Item)
  BY <1>2, <1>4, ConcatItems DEF WriterOK
<1>5. ASSUME writer.target # 0
      PROVE  ~mutable'[given.object] => ~mutable'[writer.target]
  BY <1>4, <1>5 DEF ObjectsKept
<1>6. WritesKept'
  <2>1. SUFFICES ASSUME writer.target # 0
                 PROVE  WritesKept'
    BY <1>1 DEF WritesKept
  <2>2. CASE mutable[given.object]
    <3>1. writer.position = Len(sent) /\ writer.target = given.object
          /\ Within(given.value \o sent, values[given.object])
      BY <1>2, <2>1, <2>2 DEF WriterOK, WritesKept
    <3>2. mutable'[given.object] /\ Within(given.value \o sent, values'[given.object])
      BY <1>4, <2>1, <2>2, <3>1 DEF ObjectsKept
    <3> QED BY <1>1, <3>1, <3>2 DEF WritesKept, Within
  <2>3. CASE ~mutable[given.object]
    <3>1. /\ writer.position = Len(sent)
          /\ values[given.object] = given.value
          /\ values[writer.target] = given.value \o sent
      BY <1>2, <2>1, <2>3 DEF WriterOK, WritesKept
    <3>2. /\ ~mutable'[given.object]
          /\ values'[given.object] = values[given.object]
          /\ values'[writer.target] = values[writer.target]
      BY <1>4, <2>1, <2>3 DEF ObjectsKept
    <3> QED BY <1>1, <3>1, <3>2 DEF WritesKept
  <2> QED BY <2>2, <2>3
<1> QED BY <1>1, <1>2, <1>3, <1>4, <1>5, <1>6 DEF WriterOK

-----------------------------------------------------------------------------
(* The steps of the owners.                                                *)

\* A step that leaves the objects leaves what was in them.
LEMMA NothingMoved ==
  ASSUME IInv, UNCHANGED seqVars, shifted' \in BOOLEAN
  PROVE  ObjectsKept /\ ObjectsOK'
<1>1. values' = values /\ mutable' = mutable
  BY DEF seqVars
<1>2. ObjectsOK
  BY DEF IInv
<1>3. ASSUME NEW o \in DOMAIN values
      PROVE  Len(values[o]) \in Nat
  BY <1>2 DEF ObjectsOK
<1>4. ObjectsKept
  BY <1>1, <1>2, <1>3 DEF ObjectsOK, ObjectsKept
<1>5. ObjectsOK'
  BY <1>1, <1>2 DEF ObjectsOK
<1> QED BY <1>4, <1>5

\* NewSequence keeps the invariant.
LEMMA NewSequenceStep ==
  ASSUME IInv, NewSequence
  PROVE  IInv'
<1>1. PICK class \in BOOLEAN : mutable' = Append(mutable, class)
  BY DEF NewSequence
<1>2. values' = Append(values, <<>>) /\ UNCHANGED <<readerVars, shifted, writerVars>>
  BY DEF NewSequence
<1>3. ObjectsOK
  BY DEF IInv
<1>4. <<>> \in Seq(Item)
  OBVIOUS
<1>5. /\ values' \in Seq(Seq(Item)) /\ Len(values') = Len(values) + 1
      /\ mutable' \in Seq(BOOLEAN) /\ Len(mutable') = Len(mutable) + 1
  BY <1>1, <1>2, <1>3, <1>4 DEF ObjectsOK
<1>6. ASSUME NEW o \in DOMAIN values
      PROVE  /\ o \in DOMAIN values' /\ values'[o] = values[o] /\ mutable'[o] = mutable[o]
             /\ Len(values[o]) \in Nat
  BY <1>1, <1>2, <1>3, <1>4 DEF ObjectsOK
<1>7. ObjectsKept
  BY <1>3, <1>5, <1>6 DEF ObjectsKept, ObjectsOK
<1>8. ObjectsOK'
  BY <1>2, <1>3, <1>5 DEF ObjectsOK
<1>9. ReaderOK'
  <2>1. reader.source # 0 => values'[reader.source] = values[reader.source]
    BY <1>6 DEF IInv, ReaderOK
  <2> QED BY <1>2, <1>7, <1>8, <2>1, ReaderLeft
<1>10. WriterOK'
  BY <1>2, <1>7, WriterLeft
<1> QED BY <1>8, <1>9, <1>10 DEF IInv

\* What the reader has read stays where it is, unless the insertion is noted.
LEMMA PerformBehindReader ==
  ASSUME IInv, NEW c, IsInsertion(c), Perform(c), reader.source # 0, ~shifted'
  PROVE  /\ ~shifted
         /\ SubSeq(values'[reader.source], 1, reader.position) =
              SubSeq(values[reader.source], 1, reader.position)
<1>1. TypeOK
  BY InvariantTypes
<1>2. ~shifted
  BY DEF Perform
<1>3. /\ reader.source \in DOMAIN values /\ values[reader.source] \in Seq(Item)
      /\ reader.position \in 0..Len(values[reader.source])
  BY DEF IInv, ReaderOK, ObjectsOK
<1>4. ObjectsKept
  BY <1>1, PerformEffect
<1>5. CASE ~mutable[c.object] \/ c.object # reader.source
  <2>1. values'[reader.source] = values[reader.source]
    <3>1. CASE ~mutable[c.object]
      <4>1. values' = Append(values, InsertAt(values[c.object], Place(c), c.args[1]))
        BY <1>1, <3>1, PerformImmutable
      <4> QED BY <1>3, <4>1 DEF IInv, ObjectsOK
    <3>2. CASE mutable[c.object] /\ c.object # reader.source
      <4>1. values' = [values EXCEPT ![c.object] =
                         InsertAt(values[c.object], Place(c), c.args[1])]
        BY <1>1, <3>2, PerformMutable
      <4> QED BY <1>3, <3>2, <4>1
    <3> QED BY <1>5, <3>1, <3>2
  <2> QED BY <1>2, <2>1
<1>6. CASE mutable[c.object] /\ c.object = reader.source
  <2>1. values'[c.object] = InsertAt(values[c.object], Place(c), c.args[1])
    BY <1>1, <1>3, <1>6, PerformMutable
  <2>2. ~(Values!InsertPosition(values[c.object], c) < reader.position)
    BY <1>6 DEF Perform
  <2>3. Place(c) \in 1..Len(values[c.object]) + 1
    BY <1>1, PlaceInSequence
  <2>4. reader.position \in 0..Place(c) - 1
    <3>1. Values!InsertPosition(values[c.object], c) \in Int
      BY <1>3, <1>6 DEF IsInsertion, Values!InsertPosition, Values!Updates
    <3> QED BY <1>3, <2>2, <2>3, <3>1 DEF Place
  <2>5. c.args[1] \in Item
    BY DEF IsInsertion
  <2>6. values[c.object] \in Seq(Item)
    BY <1>3, <1>6
  <2>7. SubSeq(InsertAt(values[c.object], Place(c), c.args[1]), 1, reader.position) =
          SubSeq(values[c.object], 1, reader.position)
    BY <2>3, <2>4, <2>5, <2>6, InsertAtPrefix
  <2>8. SubSeq(values'[c.object], 1, reader.position) =
          SubSeq(values[c.object], 1, reader.position)
    BY <2>1, <2>7
  <2> QED BY <1>2, <1>6, <2>8
<1> QED BY <1>5, <1>6

\* An insertion keeps the objects in order.
LEMMA PerformObjects ==
  ASSUME IInv, NEW c, IsInsertion(c), Perform(c)
  PROVE  ObjectsKept /\ ObjectsOK'
<1>1. TypeOK
  BY InvariantTypes
<1>2. ObjectsKept
  BY <1>1, PerformEffect
<1>3. shifted \in BOOLEAN /\ mutable[c.object] \in BOOLEAN
  BY DEF IInv, ObjectsOK, IsInsertion
<1>4. shifted' \in BOOLEAN
  BY <1>3 DEF Perform
<1> QED BY <1>2, <1>4 DEF ObjectsKept, ObjectsOK

\* Insert keeps the invariant.
LEMMA InsertStep ==
  ASSUME IInv, Insert
  PROVE  IInv'
<1>1. PICK c : IsInsertion(c) /\ Perform(c)
  <2>1. PICK object \in DOMAIN values, item \in Item :
          \/ Perform(Call("append", object, <<item>>))
          \/ Perform(Call("prepend", object, <<item>>))
          \/ \E index \in 0..Len(values[object]) :
               Perform(Call("insert_at", object, <<item, index>>))
    BY DEF Insert
  <2>2. /\ IsInsertion(Call("append", object, <<item>>))
        /\ IsInsertion(Call("prepend", object, <<item>>))
        /\ \A index \in 0..Len(values[object]) :
             IsInsertion(Call("insert_at", object, <<item, index>>))
    BY DEF IsInsertion, Call, Values!Updates
  <2> QED BY <2>1, <2>2
<1>2. UNCHANGED <<readerVars, writerVars>>
  BY DEF Insert
<1>3. ObjectsKept /\ ObjectsOK'
  BY <1>1, PerformObjects
<1>4. ReaderOK'
  BY <1>1, <1>2, <1>3, PerformBehindReader, ReaderLeft
<1>5. WriterOK'
  BY <1>2, <1>3, WriterLeft
<1> QED BY <1>3, <1>4, <1>5 DEF IInv

-----------------------------------------------------------------------------
(* The steps of the reader.                                                *)

\* MakeReader keeps the invariant: nothing is read yet.
LEMMA MakeReaderStep ==
  ASSUME IInv, MakeReader
  PROVE  IInv'
<1>1. PICK object \in DOMAIN values :
        reader' = [source |-> object, position |-> 0, opened |-> FALSE]
  BY DEF MakeReader
<1>2. UNCHANGED <<seqVars, writerVars>> /\ got' = <<>> /\ shifted' = FALSE
  BY DEF MakeReader
<1>3. ObjectsKept /\ ObjectsOK'
  BY <1>2, NothingMoved
<1>4. values' = values /\ values[object] \in Seq(Item) /\ object \in Nat
  BY <1>2 DEF seqVars, IInv, ObjectsOK
<1>5. SubSeq(values[object], 1, 0) = <<>>
  BY <1>4
<1>6. ReadOnceInOrder'
  BY <1>1, <1>2, <1>4, <1>5 DEF ReadOnceInOrder
<1>7. ReaderOK'
  BY <1>1, <1>2, <1>4, <1>6 DEF ReaderOK
<1>8. WriterOK'
  BY <1>2, <1>3, WriterLeft
<1> QED BY <1>3, <1>7, <1>8 DEF IInv

\* OpenReader and CloseReader keep the invariant: they keep the position.
LEMMA OpenCloseReaderStep ==
  ASSUME IInv, OpenReader \/ CloseReader
  PROVE  IInv'
<1>1. PICK opened \in BOOLEAN : reader' = [reader EXCEPT !.opened = opened]
  BY DEF OpenReader, CloseReader
<1>2. UNCHANGED <<seqVars, got, shifted, writerVars>>
  BY DEF OpenReader, CloseReader
<1>3. ObjectsKept /\ ObjectsOK'
  BY <1>2, NothingMoved DEF IInv, ObjectsOK
<1>4. values' = values
  BY <1>2 DEF seqVars
<1>5. reader \in [source : {0} \cup DOMAIN values, position : Nat, opened : BOOLEAN]
  BY DEF IInv, ReaderOK
<1>6. /\ reader' \in [source : {0} \cup DOMAIN values, position : Nat, opened : BOOLEAN]
      /\ reader'.source = reader.source /\ reader'.position = reader.position
  BY <1>1, <1>5
<1>7. ReadOnceInOrder'
  BY <1>2, <1>4, <1>6 DEF IInv, ReaderOK, ReadOnceInOrder
<1>8. ReaderOK'
  BY <1>2, <1>4, <1>6, <1>7 DEF IInv, ReaderOK
<1>9. WriterOK'
  BY <1>2, <1>3, WriterLeft
<1> QED BY <1>3, <1>8, <1>9 DEF IInv

\* A prefix that is one item longer.
LEMMA LongerPrefix ==
  ASSUME NEW S, NEW s \in Seq(S), NEW n \in 0..Len(s) - 1
  PROVE  SubSeq(s, 1, n + 1) = Append(SubSeq(s, 1, n), s[n + 1])
<1>1. SubSeq(s, 1, n) \in Seq(S) /\ Len(SubSeq(s, 1, n)) = n /\ s[n + 1] \in S
  OBVIOUS
<1>2. SubSeq(s, 1, n + 1) \in Seq(S) /\ Len(SubSeq(s, 1, n + 1)) = n + 1
  OBVIOUS
<1> DEFINE t == Append(SubSeq(s, 1, n), s[n + 1])
<1>3. t \in Seq(S) /\ Len(t) = n + 1
  BY <1>1
<1>4. \A k \in 1..n + 1 : t[k] = s[k]
  BY <1>1
<1>5. \A k \in 1..n + 1 : SubSeq(s, 1, n + 1)[k] = s[k]
  OBVIOUS
<1> HIDE DEF t
<1>6. SubSeq(s, 1, n + 1) = t
  BY <1>2, <1>3, <1>4, <1>5
<1> QED BY <1>6 DEF t

\* Read keeps the invariant: the item it returns is the next one.
LEMMA ReadStep ==
  ASSUME IInv, Read
  PROVE  IInv'
<1> DEFINE source == values[reader.source]
<1>1. /\ got' = Append(got, source[reader.position + 1])
      /\ reader' = [reader EXCEPT !.position = @ + 1]
      /\ UNCHANGED <<seqVars, shifted, writerVars>>
      /\ reader.source # 0
  BY DEF Read
<1>2. ObjectsKept /\ ObjectsOK'
  BY <1>1, NothingMoved DEF IInv, ObjectsOK
<1>3. values' = values /\ shifted' = shifted
  BY <1>1 DEF seqVars
<1>4. /\ reader \in [source : {0} \cup DOMAIN values, position : Nat, opened : BOOLEAN]
      /\ got \in Seq(Item) /\ reader.position = Len(got)
      /\ ~shifted => got = SubSeq(source, 1, reader.position)
  BY <1>1 DEF IInv, ReaderOK, ReadOnceInOrder
<1>5. source \in Seq(Item)
  BY <1>1, <1>4 DEF IInv, ObjectsOK
<1>6. reader.position \in 0..Len(source) - 1
  BY <1>4, <1>5 DEF Read, IsEndOfStream
<1>7. source[reader.position + 1] \in Item
  BY <1>5, <1>6
<1>8. /\ reader' \in [source : {0} \cup DOMAIN values, position : Nat, opened : BOOLEAN]
      /\ reader'.source = reader.source /\ reader'.position = reader.position + 1
  BY <1>1, <1>4
<1>9. got' \in Seq(Item) /\ Len(got') = Len(got) + 1
  BY <1>1, <1>4, <1>7
<1>10. ~shifted => got' = SubSeq(source, 1, reader.position + 1)
  BY <1>1, <1>4, <1>5, <1>6, LongerPrefix
<1>11. ReadOnceInOrder'
  BY <1>3, <1>4, <1>8, <1>9, <1>10 DEF ReadOnceInOrder
<1>12. ReaderOK'
  BY <1>3, <1>5, <1>6, <1>8, <1>9, <1>11 DEF ReaderOK
<1>13. WriterOK'
  BY <1>1, <1>2, WriterLeft
<1> QED BY <1>2, <1>12, <1>13 DEF IInv

-----------------------------------------------------------------------------
(* The steps of the writer.                                                *)

\* MakeWriter keeps the invariant: nothing is written yet.
LEMMA MakeWriterStep ==
  ASSUME IInv, MakeWriter
  PROVE  IInv'
<1>1. PICK object \in DOMAIN values :
        /\ writer' = [target |-> object, position |-> 0, opened |-> FALSE]
        /\ given' = [object |-> object, value |-> values[object]]
  BY DEF MakeWriter
<1>2. UNCHANGED <<seqVars, readerVars, shifted>> /\ sent' = <<>>
  BY DEF MakeWriter
<1>3. ObjectsKept /\ ObjectsOK'
  BY <1>2, NothingMoved DEF IInv, ObjectsOK
<1>4. /\ values' = values /\ mutable' = mutable /\ values[object] \in Seq(Item)
      /\ object \in Nat \ {0}
  BY <1>2 DEF seqVars, IInv, ObjectsOK
<1>5. values[object] \o <<>> = values[object]
  BY <1>4
<1>6. Within(values[object], values[object])
  <2> DEFINE place == [k \in DOMAIN values[object] |-> k]
  <2>1. place \in [DOMAIN values[object] -> DOMAIN values[object]]
    OBVIOUS
  <2>2. \A k \in DOMAIN values[object] : values[object][k] = values[object][place[k]]
    OBVIOUS
  <2>3. \A j, k \in DOMAIN values[object] : j < k => place[j] < place[k]
    OBVIOUS
  <2> HIDE DEF place
  <2> QED BY <2>1, <2>2, <2>3 DEF Within
<1>7. WritesKept'
  BY <1>1, <1>2, <1>4, <1>5, <1>6 DEF WritesKept, Within
<1>8. WriterOK'
  BY <1>1, <1>2, <1>4, <1>7 DEF WriterOK
<1>9. ReaderOK'
  BY <1>2, <1>3, <1>4, ReaderLeft
<1> QED BY <1>3, <1>8, <1>9 DEF IInv

\* OpenWriter and CloseWriter keep the invariant: they keep the target.
LEMMA OpenCloseWriterStep ==
  ASSUME IInv, OpenWriter \/ CloseWriter
  PROVE  IInv'
<1>1. PICK opened \in BOOLEAN : writer' = [writer EXCEPT !.opened = opened]
  BY DEF OpenWriter, CloseWriter
<1>2. UNCHANGED <<seqVars, readerVars, shifted, sent, given>> /\ writer.target # 0
  BY DEF OpenWriter, CloseWriter
<1>3. ObjectsKept /\ ObjectsOK'
  BY <1>2, NothingMoved DEF IInv, ObjectsOK
<1>4. values' = values /\ mutable' = mutable /\ sent' = sent /\ given' = given
  BY <1>2 DEF seqVars
<1>5. writer \in [target : {0} \cup DOMAIN values, position : Nat, opened : BOOLEAN]
  BY DEF IInv, WriterOK
<1>6. /\ writer' \in [target : {0} \cup DOMAIN values, position : Nat, opened : BOOLEAN]
      /\ writer'.target = writer.target /\ writer'.position = writer.position
  BY <1>1, <1>5
<1>7. WritesKept'
  BY <1>4, <1>6 DEF IInv, WriterOK, WritesKept, Within
<1>8. WriterOK'
  BY <1>2, <1>4, <1>6, <1>7 DEF IInv, WriterOK
<1>9. ReaderOK'
  BY <1>2, <1>3, <1>4, ReaderLeft
<1> QED BY <1>3, <1>8, <1>9 DEF IInv

\* What is appended last comes last in a concatenation.
LEMMA ConcatAppend ==
  ASSUME NEW S, NEW s \in Seq(S), NEW t \in Seq(S), NEW e \in S
  PROVE  s \o Append(t, e) = Append(s \o t, e)
OBVIOUS

\* An insertion behind the last item appends it.
LEMMA InsertAtEnd ==
  ASSUME NEW S, NEW s \in Seq(S), NEW e \in S
  PROVE  InsertAt(s, Len(s) + 1, e) = Append(s, e)
<1> DEFINE t == InsertAt(s, Len(s) + 1, e)
<1>1. /\ t \in Seq(S) /\ Len(t) = Len(s) + 1
      /\ \A k \in 1..Len(s) : t[k] = s[k]
      /\ t[Len(s) + 1] = e
  BY InsertAtItems
<1> HIDE DEF t
<1>2. t = Append(s, e)
  BY <1>1
<1> QED BY <1>2 DEF t

\* Write keeps the invariant: the item comes last in what the target becomes.
LEMMA WriteStep ==
  ASSUME IInv, Write
  PROVE  IInv'
<1>1. PICK item \in Item : /\ Perform(Call("append", writer.target, <<item>>))
                           /\ sent' = Append(sent, item)
  BY DEF Write
<1>2. /\ writer.opened /\ UNCHANGED <<readerVars, given>>
      /\ writer' = [writer EXCEPT !.target = Appended(@), !.position = @ + 1]
  BY DEF Write
<1> DEFINE c == Call("append", writer.target, <<item>>)
           target == values[writer.target]
<1>3. /\ WriterOK /\ ObjectsOK /\ TypeOK
      /\ writer.target # 0 /\ writer.target \in DOMAIN values
      /\ given.object # 0 /\ given.object \in DOMAIN values
      /\ given.value \in Seq(Item) /\ sent \in Seq(Item)
      /\ ~mutable[given.object] => ~mutable[writer.target]
  BY <1>2, InvariantTypes DEF IInv, WriterOK
<1>4. IsInsertion(c) /\ c.object = writer.target /\ c.args[1] = item
  BY <1>3 DEF IsInsertion, Call, Values!Updates
<1>5. target \in Seq(Item) /\ Place(c) = Len(target) + 1
  BY <1>3 DEF ObjectsOK, Place, Call, Values!InsertPosition, Values!Updates
<1>6. ObjectsKept /\ ObjectsOK'
  BY <1>1, <1>4, PerformObjects
<1>7. ReaderOK'
  BY <1>1, <1>2, <1>4, <1>6, PerformBehindReader, ReaderLeft
<1>8. /\ writer'.target = Appended(writer.target) /\ writer'.position = writer.position + 1
      /\ writer'.opened = writer.opened
      /\ writer.position \in Nat
      /\ writer' \in [target : {Appended(writer.target)}, position : Nat, opened : BOOLEAN]
  <2> DEFINE to == Appended(writer.target)
  <2>1. writer \in [target : {0} \cup DOMAIN values, position : Nat, opened : BOOLEAN]
    BY <1>3 DEF WriterOK
  <2>2. writer' = [writer EXCEPT !.target = to, !.position = @ + 1]
    BY <1>2
  <2> HIDE DEF to
  <2>3. writer.position \in Nat /\ writer.opened \in BOOLEAN
    BY <2>1
  <2>4. writer' = [target |-> to, position |-> writer.position + 1, opened |-> writer.opened]
    BY <2>1, <2>2
  <2>5. writer' \in [target : {to}, position : Nat, opened : BOOLEAN]
    BY <2>3, <2>4
  <2> QED BY <2>3, <2>4, <2>5 DEF to
<1>9. writer.position = Len(sent) /\ sent' \in Seq(Item) /\ Len(sent') = Len(sent) + 1
  BY <1>1, <1>3 DEF WriterOK, WritesKept
<1>10. /\ given.value \o sent \in Seq(Item)
       /\ given.value \o sent' = Append(given.value \o sent, item)
  <2>1. given.value \o sent \in Seq(Item)
    BY <1>3, ConcatItems
  <2>2. given.value \o Append(sent, item) = Append(given.value \o sent, item)
    <3> DEFINE held == given.value
    <3>1. held \in Seq(Item)
      BY <1>3
    <3> HIDE DEF held
    <3>2. held \o Append(sent, item) = Append(held \o sent, item)
      BY <1>3, <3>1, ConcatAppend
    <3> QED BY <3>2 DEF held
  <2> QED BY <1>1, <2>1, <2>2
<1>11. given' = given /\ mutable'[given.object] = mutable[given.object]
       /\ given.object \in DOMAIN values'
  BY <1>2, <1>3, <1>6 DEF ObjectsKept
<1>12. ASSUME mutable[given.object]
       PROVE  WriterOK'
  <2>1. writer.target = given.object /\ Within(given.value \o sent, target)
    BY <1>3, <1>12 DEF WriterOK, WritesKept
  <2>2. writer'.target = writer.target
    BY <1>8, <1>12, <2>1 DEF Appended
  <2>3. values'[given.object] = InsertAt(target, Len(target) + 1, item)
    BY <1>1, <1>3, <1>4, <1>5, <1>12, <2>1, PerformMutable
  <2>4. Within(Append(given.value \o sent, item), InsertAt(target, Len(target) + 1, item))
    BY <1>5, <1>10, <2>1, WithinAppended
  <2>5. WritesKept'
    <3>1. Within(given.value \o sent', values'[given.object])
      BY <1>10, <2>3, <2>4
    <3> QED BY <1>8, <1>9, <1>11, <1>12, <2>1, <2>2, <3>1 DEF WritesKept, Within
  <2>6. writer' \in [target : {0} \cup DOMAIN values', position : Nat, opened : BOOLEAN]
    BY <1>8, <1>11, <2>1, <2>2
  <2> QED BY <1>3, <1>9, <1>11, <1>12, <2>1, <2>2, <2>5, <2>6 DEF WriterOK
<1>13. ASSUME ~mutable[given.object]
       PROVE  WriterOK'
  <2>1. values[given.object] = given.value /\ target = given.value \o sent
    BY <1>3, <1>13 DEF WriterOK, WritesKept
  <2>2. ~mutable[writer.target] /\ writer'.target = Len(values) + 1
    BY <1>3, <1>8, <1>13 DEF Appended
  <2>3. /\ values' = Append(values, InsertAt(target, Len(target) + 1, item))
        /\ mutable' = Append(mutable, FALSE)
    BY <1>1, <1>3, <1>4, <1>5, <2>2, PerformImmutable
  <2>4. InsertAt(target, Len(target) + 1, item) = given.value \o sent'
    BY <1>5, <1>10, <2>1, InsertAtEnd
  <2>5. /\ values'[Len(values) + 1] = given.value \o sent'
        /\ Len(values) + 1 \in DOMAIN values' /\ Len(values) + 1 # 0
        /\ ~mutable'[Len(values) + 1]
    <3>1. /\ values \in Seq(Seq(Item)) /\ mutable \in Seq(BOOLEAN)
          /\ Len(mutable) = Len(values)
      BY <1>3 DEF ObjectsOK
    <3> DEFINE written == given.value \o sent'
    <3>2. values' = Append(values, written)
      BY <2>3, <2>4
    <3> HIDE DEF written
    <3>3. values'[Len(values) + 1] = written /\ DOMAIN values' = 1..Len(values) + 1
      BY <3>1, <3>2
    <3>4. mutable'[Len(values) + 1] = FALSE
      BY <2>3, <3>1
    <3> QED BY <3>1, <3>3, <3>4 DEF written
  <2>6. values'[given.object] = given.value
    BY <1>3, <1>6, <1>13, <2>1 DEF ObjectsKept
  <2>7. WritesKept'
    BY <1>8, <1>9, <1>11, <1>13, <2>2, <2>5, <2>6 DEF WritesKept
  <2>8. writer' \in [target : {0} \cup DOMAIN values', position : Nat, opened : BOOLEAN]
    BY <1>8, <2>2, <2>5
  <2> QED BY <1>3, <1>9, <1>11, <1>13, <2>2, <2>5, <2>7, <2>8 DEF WriterOK
<1>14. WriterOK'
  BY <1>12, <1>13
<1> QED BY <1>6, <1>7, <1>14 DEF IInv

-----------------------------------------------------------------------------
(* The theorems.                                                           *)

\* A step that changes nothing keeps the invariant.
LEMMA StutterStep ==
  ASSUME IInv, UNCHANGED vars
  PROVE  IInv'
BY DEF vars, IInv, ObjectsOK, ReaderOK, WriterOK, ReadOnceInOrder, WritesKept, Within

(* Every step of the owners, of the reader and of the writer, in whatever  *)
(* order they come, keeps the objects, the reader's position and the       *)
(* writer's target in order.                                               *)
THEOREM StreamsInvariant == Spec => []IInv
<1>1. Init => IInv
  BY InitInvariant
<1>2. IInv /\ [Next]_vars => IInv'
  BY NewSequenceStep, InsertStep, MakeReaderStep, OpenCloseReaderStep, ReadStep,
     MakeWriterStep, OpenCloseWriterStep, WriteStep, StutterStep DEF Next
<1> QED BY <1>1, <1>2, PTL DEF Spec

(* The streams only ever hold an object there is: neither the reader nor   *)
(* the writer, nor the copies an immutable sequence leaves behind.         *)
THEOREM StreamsTypeCorrect == Spec => []TypeOK
<1>1. IInv => TypeOK
  BY InvariantTypes
<1> QED BY <1>1, StreamsInvariant, PTL

(* A reader that is closed and opened again, over a sequence that is being *)
(* written, returns every item once and in order, for sequences of any     *)
(* length.                                                                 *)
THEOREM ReadsOnceInOrder == Spec => []ReadOnceInOrder
<1>1. IInv => ReadOnceInOrder
  BY DEF IInv, ReaderOK
<1> QED BY <1>1, StreamsInvariant, PTL

(* However many items are written, and whatever the owners insert between, *)
(* the writer's sequence has them all in order, and an immutable one that  *)
(* it was given is as it was.                                              *)
THEOREM NoWriteLost == Spec => []WritesKept
<1>1. IInv => WritesKept
  BY DEF IInv, WriterOK
<1> QED BY <1>1, StreamsInvariant, PTL
=============================================================================
