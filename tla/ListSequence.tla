------------------------------ MODULE ListSequence ------------------------------
(***************************************************************************)
(* MutableListSequence and ImmutableListSequence (core/list_sequence.h)    *)
(* over LinkedList.  nodes is the heap: a node is the number it was made   *)
(* as, and 0 is nullptr.  An object is of one of the two classes and has   *)
(* a LinkedList: a pointer to its first node, one to its last and a        *)
(* length.  A client calls operations on the objects it has made, and may  *)
(* be enumerating one of them.                                             *)
(***************************************************************************)
EXTENDS Integers, SequencesExt

CONSTANTS
  Item, Func, Chosen,              \* see SequenceValues
  Initial,                         \* the arrays the client constructs from
  Added,                           \* the items it inserts
  Index,                           \* the indices and counts it passes
  MaxObjects, MaxNodes,            \* bounds on the objects and on all their nodes
  MaxEnumerators                   \* bound on the enumerators made

ASSUME ListSequenceAssumption ==
  /\ Func \in [Item -> Item]
  /\ Chosen \subseteq Item
  /\ Initial \subseteq Seq(Item)
  /\ Added \subseteq Item
  /\ Index \subseteq Int
  /\ {MaxObjects, MaxNodes, MaxEnumerators} \subseteq Nat

VARIABLES
  nodes,       \* the nodes made so far, each with its item and the next node
  objects,     \* [mutable, head, tail, length] of each object, in the order made
  call,        \* the call being made, as in SequenceValues
  cursor,      \* <<>> or <<the enumerator in use>>
  made         \* how many enumerators were made

vars == <<nodes, objects, call, cursor, made>>

NewNode(heap) == Len(heap) + 1

\* Node number k of a list, following next from its head; 0 past the end.
NodeAt(heap, list, k) ==
  LET walk[n \in 0..k] ==
        IF n = 0 THEN list.head
        ELSE IF walk[n - 1] = 0 THEN 0 ELSE heap[walk[n - 1]].next
  IN  walk[k]

Chain(list) == [k \in 1..list.length |-> NodeAt(nodes, list, k - 1)]

Contents(list) == [k \in 1..list.length |-> nodes[NodeAt(nodes, list, k - 1)].item]

-----------------------------------------------------------------------------
(* LinkedList.  Each operation takes a list in memory, a pair of the heap  *)
(* and the LinkedList, to the pair it leaves.                              *)

AppendNode(memory, item) ==
  LET heap == memory.heap list == memory.list node == NewNode(heap) IN
  [heap |-> Append(IF list.tail = 0 THEN heap ELSE [heap EXCEPT ![list.tail].next = node],
                   [item |-> item, next |-> 0]),
   list |-> [list EXCEPT !.head = IF list.tail = 0 THEN node ELSE @,
                         !.tail = node, !.length = @ + 1]]

\* Mutated form of PrependNode: an empty list gets a head but no tail.
PrependNodeKeepingTail(memory, item) ==
  LET heap == memory.heap list == memory.list IN
  [heap |-> Append(heap, [item |-> item, next |-> list.head]),
   list |-> [list EXCEPT !.head = NewNode(heap), !.length = @ + 1]]

PrependNode(memory, item) ==
  LET heap == memory.heap list == memory.list IN
  [heap |-> Append(heap, [item |-> item, next |-> list.head]),
   list |-> [list EXCEPT !.head = NewNode(heap),
                         !.tail = IF @ = 0 THEN NewNode(heap) ELSE @, !.length = @ + 1]]

LinkBehind(memory, previous, item) ==
  LET heap == memory.heap IN
  [heap |-> Append([heap EXCEPT ![previous].next = NewNode(heap)],
                   [item |-> item, next |-> heap[previous].next]),
   list |-> [memory.list EXCEPT !.length = @ + 1]]

\* Mutated form of LinkNode: the walk goes one node too far.
LinkNodeAfter(memory, item, index) ==
  LinkBehind(memory, NodeAt(memory.heap, memory.list, index), item)

\* Strictly between the first and the last node: behind the one before index.
LinkNode(memory, item, index) ==
  LinkBehind(memory, NodeAt(memory.heap, memory.list, index - 1), item)

InsertNode(memory, item, index) ==
  CASE index = 0                                  -> PrependNode(memory, item)
    [] index # 0 /\ index = memory.list.length    -> AppendNode(memory, item)
    [] index # 0 /\ index # memory.list.length    -> LinkNode(memory, item, index)

\* A list made by appending the items one by one to an empty one.
Chained(mutable, items) ==
  LET size == Len(items) first == NewNode(nodes) IN
  [heap |-> nodes \o [k \in 1..size |->
              [item |-> items[k], next |-> IF k = size THEN 0 ELSE first + k]],
   list |-> [mutable |-> mutable, head |-> IF size = 0 THEN 0 ELSE first,
             tail |-> IF size = 0 THEN 0 ELSE first + size - 1, length |-> size]]

-----------------------------------------------------------------------------
(* The operations.                                                         *)

NoCall == [op |-> "none", object |-> 0, args |-> <<>>]

Called(op, o, args) ==
  call = NoCall /\ call' = [op |-> op, object |-> o, args |-> args]

Return == call # NoCall /\ call' = NoCall /\ UNCHANGED <<nodes, objects, cursor, made>>

NewObject(memory) ==
  /\ Len(objects) < MaxObjects
  /\ Len(memory.heap) <= MaxNodes
  /\ nodes' = memory.heap
  /\ objects' = Append(objects, memory.list)
  /\ UNCHANGED <<cursor, made>>

Make(mutable, items) == NewObject(Chained(mutable, items))

\* EmptyClone: of the class of the object it is called on.
MakeLike(o, items) == Make(objects[o].mutable, items)

Throw == UNCHANGED <<nodes, objects, cursor, made>>

\* Mutated form of Instance: the copy of an immutable list shares its nodes.
InstanceSharingNodes(o) == [heap |-> nodes, list |-> objects[o]]

\* What an insertion is made into: a mutable object itself, or a copy of an
\* immutable one.
Instance(o) ==
  IF objects[o].mutable
  THEN [heap |-> nodes, list |-> objects[o]]
  ELSE Chained(FALSE, Contents(objects[o]))

Update(o, memory) ==
  IF objects[o].mutable
  THEN /\ Len(memory.heap) <= MaxNodes
       /\ nodes' = memory.heap
       /\ objects' = [objects EXCEPT ![o] = memory.list]
       /\ UNCHANGED <<cursor, made>>
  ELSE NewObject(memory)

Construct ==
  \E mutable \in BOOLEAN, items \in Initial :
    Called("new", 0, items) /\ Make(mutable, items)

Copy(o) ==
  \E mutable \in BOOLEAN : Called("copy", o, <<>>) /\ Make(mutable, Contents(objects[o]))

AppendItem(o) ==
  \E item \in Added :
    Called("append", o, <<item>>) /\ Update(o, AppendNode(Instance(o), item))

Prepend(o) ==
  \E item \in Added :
    Called("prepend", o, <<item>>) /\ Update(o, PrependNode(Instance(o), item))

InsertItem(o) ==
  \E item \in Added, index \in Index :
    /\ Called("insert_at", o, <<item, index>>)
    /\ IF index < 0 \/ index > objects[o].length
       THEN Throw
       ELSE Update(o, InsertNode(Instance(o), item, index))

GetSubSequence(o) ==
  \E start, end \in Index :
    LET length == objects[o].length IN
    /\ Called("get_sub_sequence", o, <<start, end>>)
    /\ IF start < 0 \/ end < 0 \/ start >= length \/ end >= length \/ start > end
       THEN Throw
       ELSE MakeLike(o, SubSeq(Contents(objects[o]), start + 1, end + 1))

Concat(o) ==
  \E other \in DOMAIN objects :
    /\ Called("concat", o, <<other>>)
    /\ MakeLike(o, Contents(objects[o]) \o Contents(objects[other]))

MapItems(o) ==
  LET items == Contents(objects[o]) IN
  Called("map", o, <<>>) /\ MakeLike(o, [k \in DOMAIN items |-> Func[items[k]]])

Where(o) ==
  LET items == Contents(objects[o]) IN
  /\ Called("where", o, <<>>)
  /\ MakeLike(o, FlattenSeq([k \in DOMAIN items |->
                               IF items[k] \in Chosen THEN <<items[k]>> ELSE <<>>]))

\* 0 stands for no replacement sequence.
Slice(o) ==
  \E index, count \in Index, other \in 0..Len(objects) :
    LET length  == objects[o].length
        start   == IF index < 0 THEN index + length ELSE index
        removed == IF count > length - start THEN length - start ELSE count
        items   == Contents(objects[o])
        prefix  == IF start > 0 THEN SubSeq(items, 1, start) ELSE <<>>
        suffix  == IF start + removed < length
                   THEN SubSeq(items, start + removed + 1, length) ELSE <<>>
    IN  /\ Called("slice", o, <<index, count, other>>)
        /\ IF count < 0 \/ length = 0 \/ start < 0 \/ start >= length
           THEN Throw
           ELSE MakeLike(o, prefix \o (IF other = 0 THEN <<>> ELSE Contents(objects[other]))
                                   \o suffix)

-----------------------------------------------------------------------------
(* Enumerators: the head there was when the enumerator was made, and the   *)
(* node it is on, 0 before the first and after the last.  visited is the   *)
(* nodes of the pass it is making, present the nodes there were when the   *)
(* pass began.                                                             *)

Pass(o, head, current, visited, present) ==
  [object |-> o, head |-> head, current |-> current, visited |-> visited,
   present |-> present]

GetEnumerator(o) ==
  /\ call = NoCall /\ made < MaxEnumerators
  /\ made' = made + 1
  /\ cursor' = << Pass(o, objects[o].head, 0, <<>>, <<>>) >>
  /\ UNCHANGED <<nodes, objects, call>>

\* The nodes of an object from one of them on.
NodesFrom(o, node) ==
  LET chain == Chain(objects[o])
      place == CHOOSE k \in DOMAIN chain : chain[k] = node
  IN  SubSeq(chain, place, Len(chain))

\* A pass goes on at a node, or is over.
Visit(c, node) ==
  cursor' = << IF node = 0 THEN Pass(c.object, c.head, 0, <<>>, <<>>)
               ELSE Pass(c.object, c.head, node, Append(c.visited, node),
                         IF c.current = 0 THEN NodesFrom(c.object, c.head) ELSE c.present) >>

\* Mutated form of MoveNext: a pass begins behind the head.
MoveNextFromSecond ==
  /\ call = NoCall /\ cursor # <<>>
  /\ LET c    == cursor[1]
         node == IF c.current = 0 THEN c.head ELSE c.current
     IN  Visit(c, IF node = 0 THEN 0 ELSE nodes[node].next)
  /\ UNCHANGED <<nodes, objects, call, made>>

\* After the end, as before the beginning, the next node is the head.
MoveNext ==
  /\ call = NoCall /\ cursor # <<>>
  /\ LET c == cursor[1] IN
     Visit(c, IF c.current = 0 THEN c.head ELSE nodes[c.current].next)
  /\ UNCHANGED <<nodes, objects, call, made>>

-----------------------------------------------------------------------------
Init == /\ nodes = <<>>
        /\ objects = <<>>
        /\ call = NoCall
        /\ cursor = <<>>
        /\ made = 0

Next ==
  \/ Construct
  \/ \E o \in DOMAIN objects :
       \/ Copy(o) \/ AppendItem(o) \/ Prepend(o) \/ InsertItem(o)
       \/ GetSubSequence(o) \/ Concat(o) \/ MapItems(o) \/ Where(o) \/ Slice(o)
       \/ GetEnumerator(o)
  \/ MoveNext \/ Return

Spec == Init /\ [][Next]_vars

-----------------------------------------------------------------------------
(* Properties.                                                             *)

(* Following next from the head passes as many nodes as length says, the   *)
(* last of them is the tail, and nothing follows it; no node is passed     *)
(* twice or by two lists.                                                  *)
ChainsOK ==
  /\ \A o \in DOMAIN objects :
       LET list == objects[o] IN
       /\ ToSet(Chain(list)) \subseteq DOMAIN nodes
       /\ IsInjective(Chain(list))
       /\ NodeAt(nodes, list, list.length) = 0
       /\ list.tail = IF list.length = 0 THEN 0 ELSE NodeAt(nodes, list, list.length - 1)
  /\ \A o, p \in DOMAIN objects :
       o # p => ToSet(Chain(objects[o])) \cap ToSet(Chain(objects[p])) = {}

\* In a sequence of nodes, m comes before n.
Comes(chain, m, n) ==
  \E j, k \in DOMAIN chain : j < k /\ chain[j] = m /\ chain[k] = n

(* A pass that comes to its end has visited no node twice, and every node  *)
(* that followed its head when it began, in their order: insertions made   *)
(* during a pass can only add to it.                                       *)
Complete(pass) ==
  /\ IsInjective(pass.visited)
  /\ ToSet(pass.present) \subseteq ToSet(pass.visited)
  /\ \A j, k \in DOMAIN pass.present :
       j < k => Comes(pass.visited, pass.present[j], pass.present[k])

PassComplete ==
  [][\A before \in ToSet(cursor), after \in ToSet(cursor') :
       made' = made /\ before.current # 0 /\ after.current = 0 => Complete(before)]_vars

(* The list implements the sequence: whatever is called in whatever order, *)
(* linking and copying never show in a value.                              *)
Values == INSTANCE SequenceValues
            WITH values <- [o \in DOMAIN objects |-> Contents(objects[o])],
                 mutable <- [o \in DOMAIN objects |-> objects[o].mutable]

ImplementsSequence == Values!Spec
=============================================================================
