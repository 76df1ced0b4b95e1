---------------------------- MODULE SequenceValues ----------------------------
(***************************************************************************)
(* What core/sequence.h promises of any Sequence, whatever stores it.      *)
(* Every object has a value, and is of the Mutable or the Immutable class. *)
(* append, prepend and insert_at change the value of a mutable object and  *)
(* make a new object beside an immutable one; the other operations always  *)
(* make a new object, of the class of the one they are called on; a call   *)
(* with a bad argument throws and changes nothing.  call is the call that  *)
(* is being made: its operation, the object it is made on and its          *)
(* arguments, counted from 0 as in the code.                               *)
(***************************************************************************)
EXTENDS Integers, SequencesExt

CONSTANTS
  Item,        \* the elements
  Func,        \* the function map is called with
  Chosen       \* the items the predicate of where accepts

VARIABLES
  values,      \* the value of each object, in the order made
  mutable,     \* whether it is of the Mutable class
  call

NoCall == [op |-> "none", object |-> 0, args |-> <<>>]

Updates == {"append", "prepend", "insert_at"}

\* Where an insertion goes, counted from 0.
InsertPosition(value, c) ==
  CASE c.op = "append"    -> Len(value)
    [] c.op = "prepend"   -> 0
    [] c.op = "insert_at" -> c.args[2]

\* A negative slice index counts from the end.
FromEnd(value, index) == IF index < 0 THEN index + Len(value) ELSE index

IsIndex(value, index) == index \in 0..Len(value) - 1

\* The arguments the operations accept.
Accepted(value, c) ==
  CASE c.op = "insert_at"        -> c.args[2] \in 0..Len(value)
    [] c.op = "get_sub_sequence" ->
         IsIndex(value, c.args[1]) /\ IsIndex(value, c.args[2]) /\ c.args[1] <= c.args[2]
    [] c.op = "slice"            -> c.args[2] >= 0 /\ IsIndex(value, FromEnd(value, c.args[1]))
    [] OTHER                     -> TRUE

\* What slice leaves: the items before the index, the replacement, and the
\* items after the removed ones, if any are left.
Spliced(value, index, removed, replacement) ==
  LET start == FromEnd(value, index) IN
  SubSeq(value, 1, start) \o replacement \o SubSeq(value, start + removed + 1, Len(value))

\* The items the predicate accepts.
Kept(value) ==
  FlattenSeq([k \in DOMAIN value |-> IF value[k] \in Chosen THEN <<value[k]>> ELSE <<>>])

Replacement(c) == IF c.args[3] = 0 THEN <<>> ELSE values[c.args[3]]

\* The value of the object that a call on value makes or changes.
Result(value, c) ==
  CASE c.op \in Updates          -> InsertAt(value, InsertPosition(value, c) + 1, c.args[1])
    [] c.op = "get_sub_sequence" -> SubSeq(value, c.args[1] + 1, c.args[2] + 1)
    [] c.op = "concat"           -> value \o values[c.args[1]]
    [] c.op = "map"              -> [k \in DOMAIN value |-> Func[value[k]]]
    [] c.op = "where"            -> Kept(value)
    [] c.op = "slice"            -> Spliced(value, c.args[1], c.args[2], Replacement(c))

Outcome(c) ==
  LET value == values[c.object] IN
  CASE ~Accepted(value, c) -> values
    [] Accepted(value, c) /\ c.op \in Updates /\ mutable[c.object] ->
         [values EXCEPT ![c.object] = Result(value, c)]
    [] OTHER -> Append(values, Result(value, c))

Init == values = <<>> /\ mutable = <<>> /\ call = NoCall

\* A constructor of either class is given the items, or an object of any class.
Construct ==
  /\ \/ call'.op = "new" /\ values' = Append(values, call'.args)
     \/ /\ call'.op = "copy" /\ call'.object \in DOMAIN values
        /\ values' = Append(values, values[call'.object])
  /\ \E class \in BOOLEAN : mutable' = Append(mutable, class)

\* Every other call is made on an object.
Operate ==
  /\ call'.op \notin {"new", "copy", "none"}
  /\ call'.object \in DOMAIN values
  /\ values' = Outcome(call')
  /\ mutable' = IF Len(values') = Len(values) THEN mutable
                ELSE Append(mutable, mutable[call'.object])

Return == call' = NoCall /\ UNCHANGED <<values, mutable>>

Spec == Init /\ [][Construct \/ Operate \/ Return]_<<values, mutable, call>>
=============================================================================
