----------------------------- MODULE ArraySequence -----------------------------
(***************************************************************************)
(* MutableArraySequence and ImmutableArraySequence (core/array_sequence.h) *)
(* over DynamicArray.  An object is of one of the two classes and has a    *)
(* heap array, how many of its cells are in use and how many it believes   *)
(* there are; a cell nobody has written yet is Unset.  A client calls      *)
(* operations on the objects it has made, and may be in the middle of      *)
(* enumerating one of them.                                                *)
(***************************************************************************)
EXTENDS Integers, SequencesExt

CONSTANTS
  Item, Func, Chosen,              \* see SequenceValues
  Initial,                         \* the arrays the client constructs from
  Added,                           \* the items it inserts
  Index,                           \* the indices and counts it passes
  MaxObjects, MaxCount,            \* bounds on the objects and on their size
  MaxEnumerators,                  \* bound on the enumerators made
  Unset                            \* what a cell holds that was never written

ASSUME ArraySequenceAssumption ==
  /\ Unset \notin Item
  /\ Func \in [Item -> Item]
  /\ Chosen \subseteq Item
  /\ Initial \subseteq Seq(Item)
  /\ Added \subseteq Item
  /\ Index \subseteq Int
  /\ {MaxObjects, MaxCount, MaxEnumerators} \subseteq Nat

VARIABLES
  objects,     \* [mutable, data, count, capacity] of each object, in the order made
  call,        \* the call being made, as in SequenceValues
  cursor,      \* <<>> or <<the enumerator in use>>
  made         \* how many enumerators were made

vars == <<objects, call, cursor, made>>

Cell == Item \cup {Unset}

Contents(object) == SubSeq(object.data, 1, object.count)

-----------------------------------------------------------------------------
(* The storage.                                                            *)

\* DynamicArray::resize: new cells are default-initialized.
Resized(data, size) == [k \in 1..size |-> IF k <= Len(data) THEN data[k] ELSE Unset]

\* The capacity doubles, from 1, until it is enough: after at most as many
\* rounds as cells are required.
NewCapacity(capacity, required) ==
  LET size[n \in 0..required] ==
        IF n = 0 THEN IF capacity = 0 THEN 1 ELSE capacity
        ELSE IF size[n - 1] < required THEN 2 * size[n - 1] ELSE size[n - 1]
  IN  size[required]

\* Mutated form of Reallocated: the new capacity is not remembered.
ReallocatedSilently(object, required) ==
  IF required <= object.capacity
  THEN object
  ELSE [object EXCEPT !.data = Resized(@, NewCapacity(object.capacity, required))]

Reallocated(object, required) ==
  IF required <= object.capacity
  THEN object
  ELSE LET size == NewCapacity(object.capacity, required) IN
       [object EXCEPT !.data = Resized(@, size), !.capacity = size]

\* Mutated form of Shifted: the loop runs upwards and copies one item all along.
ShiftedUpwards(object, index) ==
  [object EXCEPT !.data = [k \in DOMAIN @ |->
     IF k \in index + 2..object.count + 1 THEN @[index + 1] ELSE @[k]]]

\* The loop that makes room at an index, moving the last item first.
Shifted(object, index) ==
  [object EXCEPT !.data = [k \in DOMAIN @ |->
     IF k \in index + 2..object.count + 1 THEN @[k - 1] ELSE @[k]]]

\* append, prepend and insert_at once they know the index.
Inserted(object, item, index) ==
  LET roomy == Shifted(Reallocated(object, object.count + 1), index) IN
  [roomy EXCEPT !.data[index + 1] = item, !.count = @ + 1]

\* A result is sized for what it is to hold.
Exact(mutable, items) ==
  [mutable |-> mutable, data |-> items, count |-> Len(items), capacity |-> Len(items)]

-----------------------------------------------------------------------------
(* The operations.                                                         *)

NoCall == [op |-> "none", object |-> 0, args |-> <<>>]

Called(op, o, args) ==
  call = NoCall /\ call' = [op |-> op, object |-> o, args |-> args]

Return == call # NoCall /\ call' = NoCall /\ UNCHANGED <<objects, cursor, made>>

Make(object) ==
  /\ Len(objects) < MaxObjects
  /\ object.count <= MaxCount
  /\ objects' = Append(objects, object)
  /\ UNCHANGED <<cursor, made>>

\* EmptyClone: of the class of the object it is called on.
MakeLike(o, items) == Make(Exact(objects[o].mutable, items))

Throw == UNCHANGED <<objects, cursor, made>>

\* Mutated form of Update: Instance() of an immutable object is the object too.
UpdateInPlace(o, object) ==
  /\ object.count <= MaxCount
  /\ objects' = [objects EXCEPT ![o] = object]
  /\ UNCHANGED <<cursor, made>>

\* Instance() of a mutable object is the object; of an immutable one, a copy.
Update(o, object) ==
  IF object.mutable
  THEN /\ object.count <= MaxCount
       /\ objects' = [objects EXCEPT ![o] = object]
       /\ UNCHANGED <<cursor, made>>
  ELSE Make(object)

Construct ==
  \E mutable \in BOOLEAN, items \in Initial :
    Called("new", 0, items) /\ Make(Exact(mutable, items))

\* The copy keeps the capacity, and the cells behind the items with it.
Copy(o) ==
  \E mutable \in BOOLEAN :
    Called("copy", o, <<>>) /\ Make([objects[o] EXCEPT !.mutable = mutable])

AppendItem(o) ==
  \E item \in Added :
    /\ Called("append", o, <<item>>)
    /\ Update(o, Inserted(objects[o], item, objects[o].count))

Prepend(o) ==
  \E item \in Added :
    /\ Called("prepend", o, <<item>>)
    /\ Update(o, Inserted(objects[o], item, 0))

InsertItem(o) ==
  \E item \in Added, index \in Index :
    /\ Called("insert_at", o, <<item, index>>)
    /\ IF index < 0 \/ index > objects[o].count
       THEN Throw
       ELSE Update(o, Inserted(objects[o], item, index))

GetSubSequence(o) ==
  \E start, end \in Index :
    LET count == objects[o].count IN
    /\ Called("get_sub_sequence", o, <<start, end>>)
    /\ IF start < 0 \/ end < 0 \/ start >= count \/ end >= count \/ start > end
       THEN Throw
       ELSE MakeLike(o, [k \in 1..end - start + 1 |-> objects[o].data[start + k]])

Concat(o) ==
  \E other \in DOMAIN objects :
    /\ Called("concat", o, <<other>>)
    /\ MakeLike(o, Contents(objects[o]) \o Contents(objects[other]))

MapItems(o) ==
  LET items == Contents(objects[o]) IN
  /\ Called("map", o, <<>>)
  /\ MakeLike(o, [k \in DOMAIN items |-> Func[items[k]]])

Where(o) ==
  LET items == Contents(objects[o]) IN
  /\ Called("where", o, <<>>)
  /\ MakeLike(o, FlattenSeq([k \in DOMAIN items |->
                               IF items[k] \in Chosen THEN <<items[k]>> ELSE <<>>]))

\* 0 stands for no replacement sequence.
Slice(o) ==
  \E index, count \in Index, other \in 0..Len(objects) :
    LET length  == objects[o].count
        start   == IF index < 0 THEN index + length ELSE index
        removed == IF count > length - start THEN length - start ELSE count
        items   == Contents(objects[o])
    IN  /\ Called("slice", o, <<index, count, other>>)
        /\ IF count < 0 \/ length = 0 \/ start < 0 \/ start >= length
           THEN Throw
           ELSE MakeLike(o, SubSeq(items, 1, start)
                              \o (IF other = 0 THEN <<>> ELSE Contents(objects[other]))
                              \o SubSeq(items, start + removed + 1, length))

-----------------------------------------------------------------------------
(* Enumerators: a reference to the array and the count there was when the  *)
(* enumerator was made.  visited is what get_current gave.                 *)

\* Mutated form of GetEnumerator: it is given the size of the array.
GetEnumeratorOfArray(o) ==
  /\ call = NoCall /\ made < MaxEnumerators
  /\ made' = made + 1
  /\ cursor' = << [object |-> o, count |-> objects[o].capacity, index |-> -1,
                   visited |-> <<>>] >>
  /\ UNCHANGED <<objects, call>>

GetEnumerator(o) ==
  /\ call = NoCall /\ made < MaxEnumerators
  /\ made' = made + 1
  /\ cursor' = << [object |-> o, count |-> objects[o].count, index |-> -1, visited |-> <<>>] >>
  /\ UNCHANGED <<objects, call>>

MoveNext ==
  /\ call = NoCall /\ cursor # <<>>
  /\ cursor[1].index < cursor[1].count
  /\ LET index == cursor[1].index + 1
         moved == [cursor[1] EXCEPT !.index = index]
     IN  cursor' = << IF index < moved.count
                      THEN [moved EXCEPT !.visited =
                              Append(@, objects[moved.object].data[index + 1])]
                      ELSE moved >>
  /\ UNCHANGED <<objects, call, made>>

-----------------------------------------------------------------------------
Init == /\ objects = <<>>
        /\ call = NoCall
        /\ cursor = <<>>
        /\ made = 0

Next ==
  \/ Construct
  \/ \E o \in DOMAIN objects :
       \/ Copy(o) \/ AppendItem(o) \/ Prepend(o) \/ InsertItem(o)
       \/ GetSubSequence(o) \/ Concat(o) \/ MapItems(o) \/ Where(o) \/ Slice(o)
       \/ GetEnumerator(o)
  \/ MoveNext \/ Return

Spec == Init /\ [][Next]_vars

-----------------------------------------------------------------------------
(* Properties.                                                             *)

(* capacity is the size of the array, and every cell in use was written.   *)
TypeOK ==
  \A o \in DOMAIN objects :
    /\ objects[o].data \in Seq(Cell)
    /\ objects[o].capacity = Len(objects[o].data)
    /\ objects[o].count \in 0..objects[o].capacity
    /\ Contents(objects[o]) \in Seq(Item)

(* An enumeration gives no cell that was never written, no more items than *)
(* there were when it began, and those of an immutable object in order.    *)
EnumerationSound ==
  cursor # <<>> =>
    LET visited == cursor[1].visited IN
    /\ visited \in Seq(Item)
    /\ Len(visited) <= cursor[1].count
    /\ ~objects[cursor[1].object].mutable =>
         IsPrefix(visited, Contents(objects[cursor[1].object]))

(* The array implements the sequence: whatever is called in whatever       *)
(* order, growing, shifting and copying never show in a value.             *)
Values == INSTANCE SequenceValues
            WITH values <- [o \in DOMAIN objects |-> Contents(objects[o])],
                 mutable <- [o \in DOMAIN objects |-> objects[o].mutable]

ImplementsSequence == Values!Spec
=============================================================================
