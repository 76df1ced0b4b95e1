-------------------------- MODULE ListSequenceProofs ---------------------------
(***************************************************************************)
(* Proofs about ListSequence, for any items, functions, arrays and indices *)
(* and any bounds: every list is one chain from its head to its tail, with *)
(* no node of another list, and whatever is called in whatever order, the  *)
(* objects have the values that SequenceValues says they have.             *)
(***************************************************************************)
EXTENDS ListSequence, SequenceLemmas

-----------------------------------------------------------------------------
(* The inductive invariant.                                                *)

Node == [item : Item, next : Nat]

List == [mutable : BOOLEAN, head : Nat, tail : Nat, length : Nat]

\* What comes behind the k-th node of a chain, or is its first node if k is 0.
Following(chain, k) == IF k < Len(chain) THEN chain[k + 1] ELSE 0

(* The nodes of a chain are in the heap, each once; the list points to the *)
(* first and to the last, and each node to the next.                       *)
Linked(heap, list, chain) ==
  /\ chain \in Seq(Nat) /\ Len(chain) = list.length
  /\ \A k \in 1..Len(chain) : chain[k] \in 1..Len(heap)
  /\ \A j, k \in 1..Len(chain) : chain[j] = chain[k] => j = k
  /\ list.head = Following(chain, 0)
  /\ list.tail = IF Len(chain) = 0 THEN 0 ELSE chain[Len(chain)]
  /\ \A k \in 1..Len(chain) : heap[chain[k]].next = Following(chain, k)

\* Chain and Contents in any heap.
ChainIn(heap, list) == [k \in 1..list.length |-> NodeAt(heap, list, k - 1)]

ContentsIn(heap, list) == [k \in 1..list.length |-> heap[NodeAt(heap, list, k - 1)].item]

NodesIn(heap, list) == {ChainIn(heap, list)[k] : k \in 1..list.length}

AllLinked(heap, objs) == \A o \in DOMAIN objs : Linked(heap, objs[o], ChainIn(heap, objs[o]))

\* No two objects have a node in common.
Apart(heap, objs) ==
  \A o, p \in DOMAIN objs : o # p => NodesIn(heap, objs[o]) \cap NodesIn(heap, objs[p]) = {}

HeapOK == nodes \in Seq(Node) /\ objects \in Seq(List)

ListInv == HeapOK /\ AllLinked(nodes, objects) /\ Apart(nodes, objects)

-----------------------------------------------------------------------------
(* Walking.  NodeAt is defined by a recursive function, which stands for a *)
(* CHOOSE: the chain itself is such a function, and there is no other.     *)

LEMMA WalkFollows ==
  ASSUME NEW heap, NEW list, NEW chain, Linked(heap, list, chain), NEW n \in 0..Len(chain)
  PROVE  NodeAt(heap, list, n) = Following(chain, n)
<1> DEFINE Is(h) == h = [i \in 0..n |->
                           IF i = 0 THEN list.head
                           ELSE IF h[i - 1] = 0 THEN 0 ELSE heap[h[i - 1]].next]
           g == CHOOSE h : Is(h)
           f == [i \in 0..n |-> Following(chain, i)]
<1>1. /\ chain \in Seq(Nat) /\ Len(chain) \in Nat
      /\ \A k \in 1..Len(chain) : chain[k] # 0
      /\ \A k \in 1..Len(chain) : heap[chain[k]].next = Following(chain, k)
      /\ list.head = Following(chain, 0)
  BY DEF Linked
<1>2. ASSUME NEW i \in 1..n
      PROVE  Following(chain, i - 1) # 0 /\ heap[Following(chain, i - 1)].next = Following(chain, i)
  <2>1. i \in 1..Len(chain) /\ i - 1 < Len(chain) /\ (i - 1) + 1 = i
    BY <1>1
  <2>2. Following(chain, i - 1) = chain[i]
    BY <2>1 DEF Following
  <2> QED BY <1>1, <2>1, <2>2
<1>3. Is(f)
  <2>1. ASSUME NEW i \in 0..n
        PROVE  f[i] = IF i = 0 THEN list.head
                      ELSE IF f[i - 1] = 0 THEN 0 ELSE heap[f[i - 1]].next
    <3>1. CASE i = 0
      BY <1>1, <3>1
    <3>2. CASE i # 0
      <4>1. i \in 1..n /\ i - 1 \in 0..n
        BY <1>1, <3>2
      <4>2. f[i - 1] = Following(chain, i - 1) /\ f[i] = Following(chain, i)
        BY <4>1
      <4> QED BY <1>2, <3>2, <4>1, <4>2
    <3> QED BY <3>1, <3>2
  <2>2. f = [i \in 0..n |-> f[i]]
    OBVIOUS
  <2> HIDE DEF f
  <2> QED BY <2>1, <2>2
<1>4. Is(g)
  <2> HIDE DEF Is, f
  <2> QED BY <1>3
<1>5. NodeAt(heap, list, n) = g[n]
  BY DEF NodeAt
<1> HIDE DEF g
<1>6. \A i \in 0..n : g[i] = IF i = 0 THEN list.head
                             ELSE IF g[i - 1] = 0 THEN 0 ELSE heap[g[i - 1]].next
  BY <1>4
<1> HIDE DEF Is, f
<1> DEFINE T == {i \in Nat : i <= n => g[i] = Following(chain, i)}
<1>7. 0 \in T
  <2>1. 0 \in 0..n
    BY <1>1
  <2> QED BY <1>1, <1>6, <2>1
<1>8. ASSUME NEW i \in Nat, i \in T PROVE i + 1 \in T
  <2> SUFFICES ASSUME i + 1 <= n PROVE g[i + 1] = Following(chain, i + 1)
    OBVIOUS
  <2>1. i + 1 \in 0..n /\ i + 1 \in 1..n /\ (i + 1) - 1 = i /\ i + 1 # 0 /\ i <= n
    BY <1>1
  <2>2. g[i] = Following(chain, i)
    BY <1>8, <2>1
  <2>3. Following(chain, i) # 0 /\ heap[Following(chain, i)].next = Following(chain, i + 1)
    BY <1>2, <2>1
  <2> QED BY <1>6, <2>1, <2>2, <2>3
<1>9. Nat \subseteq T
  <2> HIDE DEF T
  <2> QED BY <1>7, <1>8, NatSetInduction
<1>10. n \in T /\ n <= n
  BY <1>1, <1>9
<1> QED BY <1>5, <1>10

\* What is linked is walked node by node.
LEMMA LinkedChain ==
  ASSUME NEW heap \in Seq(Node), NEW list \in List, NEW chain, Linked(heap, list, chain)
  PROVE  /\ ChainIn(heap, list) = chain
         /\ NodeAt(heap, list, list.length) = 0
         /\ ContentsIn(heap, list) \in Seq(Item) /\ Len(ContentsIn(heap, list)) = list.length
         /\ \A k \in 1..list.length : ContentsIn(heap, list)[k] = heap[chain[k]].item
<1> DEFINE size == list.length
<1>1. /\ chain \in Seq(Nat) /\ Len(chain) = size /\ size \in Nat
      /\ \A k \in 1..size : chain[k] \in 1..Len(heap)
  BY DEF Linked, List
<1>2. ASSUME NEW k \in 1..size PROVE NodeAt(heap, list, k - 1) = chain[k]
  <2>1. k - 1 \in 0..Len(chain) /\ k - 1 < Len(chain) /\ (k - 1) + 1 = k
    BY <1>1
  <2>2. NodeAt(heap, list, k - 1) = Following(chain, k - 1)
    BY <2>1, WalkFollows
  <2> QED BY <2>1, <2>2 DEF Following
<1>3. NodeAt(heap, list, size) = 0
  <2>1. size \in 0..Len(chain) /\ ~(size < Len(chain))
    BY <1>1
  <2>2. NodeAt(heap, list, size) = Following(chain, size)
    BY <2>1, WalkFollows
  <2> QED BY <2>1, <2>2 DEF Following
<1>4. ChainIn(heap, list) = chain
  <2>1. ChainIn(heap, list) = [k \in 1..size |-> chain[k]]
    BY <1>2 DEF ChainIn
  <2> HIDE DEF size
  <2> QED BY <1>1, <2>1
<1>5. ASSUME NEW k \in 1..size PROVE heap[chain[k]].item \in Item
  <2>1. heap[chain[k]] \in Node
    BY <1>1
  <2> QED BY <2>1 DEF Node
<1>6. ContentsIn(heap, list) = [k \in 1..size |-> heap[chain[k]].item]
  BY <1>2 DEF ContentsIn
<1> HIDE DEF size
<1>7. /\ ContentsIn(heap, list) \in Seq(Item) /\ Len(ContentsIn(heap, list)) = size
      /\ \A k \in 1..size : ContentsIn(heap, list)[k] = heap[chain[k]].item
  BY <1>1, <1>5, <1>6
<1> QED BY <1>3, <1>4, <1>7 DEF size

\* A list does not mind what happens to the nodes it does not have.
LEMMA LinkedFrame ==
  ASSUME NEW heap \in Seq(Node), NEW more \in Seq(Node), Len(heap) <= Len(more),
         NEW list \in List, NEW chain, Linked(heap, list, chain),
         \A k \in 1..Len(chain) : more[chain[k]] = heap[chain[k]]
  PROVE  /\ Linked(more, list, chain)
         /\ ContentsIn(more, list) = ContentsIn(heap, list)
<1>1. Len(heap) \in Nat /\ Len(more) \in Nat
  OBVIOUS
<1>2. Linked(more, list, chain)
  <2>1. ASSUME NEW k \in 1..Len(chain) PROVE chain[k] \in 1..Len(more)
    <3>1. chain[k] \in 1..Len(heap)
      BY DEF Linked
    <3> QED BY <1>1, <3>1
  <2> QED BY <2>1 DEF Linked
<1>3. list.length = Len(chain)
  BY DEF Linked
<1> DEFINE s == ContentsIn(heap, list)
           t == ContentsIn(more, list)
<1>4. s \in Seq(Item) /\ Len(s) = list.length /\ \A k \in 1..list.length : s[k] = heap[chain[k]].item
  BY LinkedChain
<1>5. t \in Seq(Item) /\ Len(t) = list.length /\ \A k \in 1..list.length : t[k] = more[chain[k]].item
  BY <1>2, LinkedChain
<1> HIDE DEF s, t
<1>6. s = t
  BY <1>3, <1>4, <1>5, SameItems
<1> QED BY <1>2, <1>6 DEF s, t

-----------------------------------------------------------------------------
(* Insertion.                                                              *)

(* What every insertion does: a new node gets the item, the one behind     *)
(* which it comes points to it, and it to the one that came there before.  *)
Spliced(heap, list, chain, index, item, more, after) ==
  LET node == NewNode(heap) IN
  /\ more \in Seq(Node) /\ Len(more) = Len(heap) + 1
  /\ after = [mutable |-> list.mutable, head |-> IF index = 0 THEN node ELSE list.head,
              tail |-> IF index = Len(chain) THEN node ELSE list.tail,
              length |-> list.length + 1]
  /\ more[node].item = item /\ more[node].next = Following(chain, index)
  /\ \A n \in 1..Len(heap) :
       /\ more[n].item = heap[n].item
       /\ more[n].next = IF index > 0 /\ n = chain[index] THEN node ELSE heap[n].next

\* The chain after an insertion, node by node.
LEMMA SplicedChain ==
  ASSUME NEW S, NEW chain \in Seq(S), NEW node \in S, NEW place \in 1..Len(chain) + 1
  PROVE  LET longer == InsertAt(chain, place, node) IN
         /\ longer \in Seq(S) /\ Len(longer) = Len(chain) + 1
         /\ \A k \in 1..place - 1 : longer[k] = chain[k]
         /\ longer[place] = node
         /\ \A k \in place + 1..Len(chain) + 1 : longer[k] = chain[k - 1]
<1> DEFINE longer == InsertAt(chain, place, node)
<1>1. /\ longer \in Seq(S) /\ Len(longer) = Len(chain) + 1
      /\ \A k \in 1..place - 1 : longer[k] = chain[k]
      /\ longer[place] = node
      /\ \A k \in place..Len(chain) : longer[k + 1] = chain[k]
  BY InsertAtItems
<1> HIDE DEF longer
<1>2. ASSUME NEW k \in place + 1..Len(chain) + 1 PROVE longer[k] = chain[k - 1]
  <2>1. k - 1 \in place..Len(chain) /\ (k - 1) + 1 = k
    OBVIOUS
  <2> QED BY <1>1, <2>1
<1> QED BY <1>1, <1>2 DEF longer

\* An insertion leaves one chain, with the item in its place.
LEMMA SplicedLinked ==
  ASSUME NEW heap \in Seq(Node), NEW list \in List, NEW chain, Linked(heap, list, chain),
         NEW index \in 0..list.length, NEW item \in Item, NEW more, NEW after,
         Spliced(heap, list, chain, index, item, more, after)
  PROVE  /\ after \in List /\ after.mutable = list.mutable
         /\ Linked(more, after, InsertAt(chain, index + 1, NewNode(heap)))
         /\ ContentsIn(more, after) = InsertAt(ContentsIn(heap, list), index + 1, item)
<1> DEFINE node == NewNode(heap)
           longer == InsertAt(chain, index + 1, node)
           size == Len(chain)
<1>1. /\ chain \in Seq(Nat) /\ size \in Nat /\ list.length = size
      /\ \A k \in 1..size : chain[k] \in 1..Len(heap)
      /\ \A j, k \in 1..size : chain[j] = chain[k] => j = k
      /\ list.head = Following(chain, 0)
      /\ list.tail = IF size = 0 THEN 0 ELSE chain[size]
      /\ \A k \in 1..size : heap[chain[k]].next = Following(chain, k)
      /\ index \in 0..size
  BY DEF Linked
<1>2. node = Len(heap) + 1 /\ Len(heap) \in Nat /\ node \in Nat
  BY DEF NewNode
<1>3. /\ more \in Seq(Node) /\ Len(more) = node
      /\ after = [mutable |-> list.mutable, head |-> IF index = 0 THEN node ELSE list.head,
                  tail |-> IF index = size THEN node ELSE list.tail, length |-> size + 1]
      /\ more[node].item = item /\ more[node].next = Following(chain, index)
      /\ \A n \in 1..Len(heap) :
           /\ more[n].item = heap[n].item
           /\ more[n].next = IF index > 0 /\ n = chain[index] THEN node ELSE heap[n].next
  BY <1>1, <1>2 DEF Spliced
<1>4. /\ longer \in Seq(Nat) /\ Len(longer) = size + 1
      /\ \A k \in 1..index : longer[k] = chain[k]
      /\ longer[index + 1] = node
      /\ \A k \in index + 2..size + 1 : longer[k] = chain[k - 1]
  <2> DEFINE Ref == Nat
             place == index + 1
  <2>1. chain \in Seq(Ref) /\ node \in Ref /\ place \in 1..Len(chain) + 1
    BY <1>1, <1>2
  <2>2. place - 1 = index /\ place + 1 = index + 2
    BY <1>1
  <2> HIDE DEF Ref, node, place
  <2>3. LET longest == InsertAt(chain, place, node) IN
        /\ longest \in Seq(Ref) /\ Len(longest) = Len(chain) + 1
        /\ \A k \in 1..place - 1 : longest[k] = chain[k]
        /\ longest[place] = node
        /\ \A k \in place + 1..Len(chain) + 1 : longest[k] = chain[k - 1]
    BY <2>1, SplicedChain
  <2> QED BY <2>2, <2>3 DEF Ref, place
<1>5. after \in List /\ after.mutable = list.mutable
  BY <1>1, <1>2, <1>3 DEF List
<1> HIDE DEF node, longer, size
<1>6. /\ \A k \in 1..index : k \in 1..size /\ longer[k] = chain[k] /\ chain[k] \in 1..Len(heap)
      /\ \A k \in index + 2..size + 1 :
           k - 1 \in 1..size /\ longer[k] = chain[k - 1] /\ chain[k - 1] \in 1..Len(heap)
  <2>1. ASSUME NEW k \in 1..index PROVE k \in 1..size
    BY <1>1
  <2>2. ASSUME NEW k \in index + 2..size + 1 PROVE k - 1 \in 1..size
    BY <1>1
  <2> QED BY <1>1, <1>4, <2>1, <2>2
<1>7. /\ \A k \in 1..size + 1 : longer[k] \in 1..Len(more)
      /\ \A k \in 1..size + 1 : longer[k] = node => k = index + 1
  <2> SUFFICES ASSUME NEW k \in 1..size + 1
               PROVE  longer[k] \in 1..Len(more) /\ (longer[k] = node => k = index + 1)
    OBVIOUS
  <2>1. CASE k \in 1..index
    <3>1. longer[k] \in 1..Len(heap)
      BY <1>6, <2>1
    <3> QED BY <1>2, <1>3, <3>1
  <2>2. CASE k = index + 1
    BY <1>2, <1>3, <1>4, <2>2
  <2>3. CASE k \in index + 2..size + 1
    <3>1. longer[k] \in 1..Len(heap)
      BY <1>6, <2>3
    <3> QED BY <1>2, <1>3, <3>1
  <2> QED BY <1>1, <2>1, <2>2, <2>3
<1>8. ASSUME NEW j \in 1..size + 1, NEW k \in 1..size + 1, longer[j] = longer[k]
      PROVE  j = k
  <2> USE <1>8
  <2>1. ASSUME NEW i \in 1..size + 1, i # index + 1
        PROVE  \/ i \in 1..size /\ i <= index /\ longer[i] = chain[i]
               \/ i - 1 \in 1..size /\ i > index + 1 /\ longer[i] = chain[i - 1]
    <3>1. CASE i \in 1..index
      BY <1>1, <1>6, <3>1
    <3>2. CASE i \in index + 2..size + 1
      <4>1. i - 1 \in 1..size /\ longer[i] = chain[i - 1]
        BY <1>6, <3>2
      <4> QED BY <1>1, <3>2, <4>1
    <3> QED BY <1>1, <2>1, <3>1, <3>2
  <2>2. CASE j = index + 1
    BY <1>4, <1>7, <2>2
  <2>3. CASE k = index + 1
    BY <1>4, <1>7, <2>3
  <2>4. CASE j # index + 1 /\ k # index + 1
    <3> DEFINE jPlace == IF j <= index THEN j ELSE j - 1
               kPlace == IF k <= index THEN k ELSE k - 1
    <3>1. jPlace \in 1..size /\ longer[j] = chain[jPlace]
      BY <2>1, <2>4
    <3>2. kPlace \in 1..size /\ longer[k] = chain[kPlace]
      BY <2>1, <2>4
    <3>3. jPlace = kPlace => j = k
      <4>1. index \in Nat /\ size \in Nat
        BY <1>1
      <4> QED BY <2>4, <4>1
    <3> HIDE DEF jPlace, kPlace
    <3>4. chain[jPlace] = chain[kPlace]
      BY <3>1, <3>2
    <3>5. jPlace = kPlace
      BY <1>1, <3>1, <3>2, <3>4
    <3> QED BY <3>3, <3>5
  <2> QED BY <2>2, <2>3, <2>4
<1>9. ASSUME NEW k \in 0..size
      PROVE  Following(longer, k) = IF k < index THEN Following(chain, k)
                                    ELSE IF k = index THEN node ELSE Following(chain, k - 1)
  <2>1. Following(longer, k) = longer[k + 1]
    BY <1>1, <1>4 DEF Following
  <2>2. CASE k < index
    <3>1. k + 1 \in 1..index /\ k < size
      BY <1>1, <2>2
    <3> QED BY <1>4, <2>1, <2>2, <3>1 DEF Following, size
  <2>3. CASE k = index
    BY <1>4, <2>1, <2>3
  <2>4. CASE k > index
    <3>1. k + 1 \in index + 2..size + 1 /\ k - 1 < size /\ (k + 1) - 1 = k /\ (k - 1) + 1 = k
      BY <1>1, <2>4
    <3>2. longer[k + 1] = chain[k]
      BY <1>4, <3>1
    <3>3. Following(chain, k - 1) = chain[k]
      BY <3>1 DEF Following, size
    <3> QED BY <1>1, <2>1, <2>4, <3>2, <3>3
  <2> QED BY <1>1, <2>2, <2>3, <2>4
<1>10. ASSUME NEW k \in 1..size + 1 PROVE more[longer[k]].next = Following(longer, k)
  <2>1. CASE k \in 1..index
    <3>1. k \in 1..size /\ k \in 0..size /\ longer[k] = chain[k] /\ chain[k] \in 1..Len(heap)
      <4>1. k \in 1..size /\ longer[k] = chain[k] /\ chain[k] \in 1..Len(heap)
        BY <1>6, <2>1
      <4> QED BY <1>1, <4>1
    <3>2. CASE k = index
      <4>1. more[chain[k]].next = node
        BY <1>1, <1>3, <2>1, <3>1, <3>2
      <4>2. Following(longer, k) = node
        BY <1>9, <3>1, <3>2
      <4> QED BY <3>1, <4>1, <4>2
    <3>3. CASE k # index
      <4>1. chain[k] # chain[index]
        BY <1>1, <2>1, <3>1, <3>3
      <4>2. more[chain[k]].next = heap[chain[k]].next
        BY <1>3, <3>1, <4>1
      <4>3. Following(longer, k) = Following(chain, k)
        BY <1>1, <1>9, <2>1, <3>1, <3>3
      <4> QED BY <1>1, <3>1, <4>2, <4>3
    <3> QED BY <3>2, <3>3
  <2>2. CASE k = index + 1
    <3>1. more[longer[k]].next = Following(chain, index)
      BY <1>3, <1>4, <2>2
    <3>2. CASE k \in 0..size
      BY <1>1, <1>9, <2>2, <3>1, <3>2
    <3>3. CASE k = size + 1
      <4>1. Following(longer, k) = 0 /\ Following(chain, index) = 0
        BY <1>1, <1>4, <2>2, <3>3 DEF Following, size
      <4> QED BY <3>1, <4>1
    <3> QED BY <1>1, <3>2, <3>3
  <2>3. CASE k \in index + 2..size + 1
    <3>1. k - 1 \in 1..size /\ longer[k] = chain[k - 1] /\ chain[k - 1] \in 1..Len(heap)
      BY <1>6, <2>3
    <3>2. ~(index > 0 /\ chain[k - 1] = chain[index])
      <4>1. k - 1 # index
        BY <1>1, <2>3
      <4> QED BY <1>1, <3>1, <4>1
    <3>3. more[longer[k]].next = Following(chain, k - 1)
      BY <1>1, <1>3, <3>1, <3>2
    <3>4. CASE k \in 0..size
      BY <1>1, <1>9, <2>3, <3>3, <3>4
    <3>5. CASE k = size + 1
      <4>1. Following(longer, k) = 0 /\ Following(chain, k - 1) = 0
        BY <1>1, <1>4, <3>5 DEF Following, size
      <4> QED BY <3>3, <4>1
    <3>6. k \in 0..size \/ k = size + 1
      <4>1. index \in Nat /\ size \in Nat
        BY <1>1
      <4> QED BY <4>1
    <3> QED BY <3>4, <3>5, <3>6
  <2> QED BY <1>1, <2>1, <2>2, <2>3
<1>11. after.head = Following(longer, 0)
  <2>1. Following(longer, 0) = IF 0 < index THEN Following(chain, 0) ELSE node
    BY <1>1, <1>9
  <2> QED BY <1>1, <1>3, <2>1
<1>12. after.tail = longer[size + 1]
  <2>1. CASE index = size
    BY <1>3, <1>4, <2>1
  <2>2. CASE index # size
    <3>1. size + 1 \in index + 2..size + 1 /\ size # 0 /\ (size + 1) - 1 = size
      BY <1>1, <2>2
    <3> QED BY <1>1, <1>3, <1>4, <2>2, <3>1
  <2> QED BY <2>1, <2>2
<1>13. Linked(more, after, longer)
  <2>1. size + 1 # 0 /\ after.length = size + 1
    BY <1>1, <1>3
  <2> QED BY <1>4, <1>7, <1>10, <1>11, <1>12, <1>8, <2>1 DEF Linked
<1> DEFINE s == ContentsIn(heap, list)
           t == ContentsIn(more, after)
           u == InsertAt(s, index + 1, item)
<1>14. s \in Seq(Item) /\ Len(s) = size /\ \A k \in 1..size : s[k] = heap[chain[k]].item
  BY <1>1, LinkedChain
<1>15. /\ t \in Seq(Item) /\ Len(t) = size + 1
       /\ \A k \in 1..size + 1 : t[k] = more[longer[k]].item
  <2>1. after.length = size + 1
    BY <1>3
  <2> QED BY <1>3, <1>5, <1>13, <2>1, LinkedChain
<1> HIDE DEF s, t
<1>16. /\ u \in Seq(Item) /\ Len(u) = size + 1 /\ u[index + 1] = item
       /\ \A k \in 1..index : u[k] = s[k]
       /\ \A k \in index + 1..size : u[k + 1] = s[k]
  <2>1. index + 1 \in 1..Len(s) + 1 /\ (index + 1) - 1 = index
    BY <1>1, <1>14
  <2> QED BY <1>14, <2>1, InsertAtItems
<1> HIDE DEF u
<1>17. ASSUME NEW k \in 1..size + 1 PROVE t[k] = u[k]
  <2>1. CASE k \in 1..index
    <3>1. k \in 1..size /\ longer[k] = chain[k] /\ chain[k] \in 1..Len(heap)
      BY <1>6, <2>1
    <3>2. t[k] = heap[chain[k]].item
      BY <1>3, <1>15, <3>1
    <3> QED BY <1>14, <1>16, <2>1, <3>1, <3>2
  <2>2. CASE k = index + 1
    BY <1>3, <1>4, <1>15, <1>16, <2>2
  <2>3. CASE k \in index + 2..size + 1
    <3>1. /\ k - 1 \in 1..size /\ k - 1 \in index + 1..size /\ (k - 1) + 1 = k
          /\ longer[k] = chain[k - 1] /\ chain[k - 1] \in 1..Len(heap)
      <4>1. k - 1 \in 1..size /\ longer[k] = chain[k - 1] /\ chain[k - 1] \in 1..Len(heap)
        BY <1>6, <2>3
      <4>2. k - 1 \in index + 1..size /\ (k - 1) + 1 = k
        BY <1>1, <2>3
      <4> QED BY <4>1, <4>2
    <3>2. u[k] = s[k - 1]
      BY <1>16, <3>1
    <3>3. t[k] = more[chain[k - 1]].item
      BY <1>15, <3>1
    <3>4. more[chain[k - 1]].item = heap[chain[k - 1]].item
      BY <1>3, <3>1
    <3>5. s[k - 1] = heap[chain[k - 1]].item
      BY <1>14, <3>1
    <3> QED BY <3>2, <3>3, <3>4, <3>5
  <2> QED BY <1>1, <2>1, <2>2, <2>3
<1>18. t = u
  BY <1>15, <1>16, <1>17, SameItems
<1> QED BY <1>5, <1>13, <1>18 DEF node, longer, s, t, u

\* What is known of a list that is linked.
LEMMA LinkedFacts ==
  ASSUME NEW heap \in Seq(Node), NEW list \in List, NEW chain, Linked(heap, list, chain)
  PROVE  /\ chain \in Seq(Nat) /\ Len(chain) \in Nat /\ list.length = Len(chain)
         /\ \A k \in 1..Len(chain) : chain[k] \in 1..Len(heap)
         /\ list.head = Following(chain, 0)
         /\ list.tail = 0 <=> Len(chain) = 0
         /\ Len(chain) # 0 => list.tail = chain[Len(chain)] /\ list.tail \in 1..Len(heap)
         /\ list = [mutable |-> list.mutable, head |-> list.head, tail |-> list.tail,
                    length |-> Len(chain)]
         /\ list.head \in Nat /\ list.tail \in Nat
<1>1. /\ chain \in Seq(Nat) /\ list.length = Len(chain)
      /\ \A k \in 1..Len(chain) : chain[k] \in 1..Len(heap)
      /\ list.head = Following(chain, 0)
      /\ list.tail = IF Len(chain) = 0 THEN 0 ELSE chain[Len(chain)]
  BY DEF Linked
<1>2. Len(chain) \in Nat
  BY <1>1
<1>3. Len(chain) # 0 => chain[Len(chain)] \in 1..Len(heap) /\ chain[Len(chain)] # 0
  BY <1>1, <1>2
<1>4. list = [mutable |-> list.mutable, head |-> list.head, tail |-> list.tail,
              length |-> list.length]
  BY DEF List
<1>5. list.head \in Nat /\ list.tail \in Nat
  BY DEF List
<1> QED BY <1>1, <1>2, <1>3, <1>4, <1>5

\* A heap with a new node.
LEMMA HeapAppend ==
  ASSUME NEW heap \in Seq(Node), NEW item \in Item, NEW next \in Nat
  PROVE  LET more == Append(heap, [item |-> item, next |-> next]) IN
         /\ more \in Seq(Node) /\ Len(more) = Len(heap) + 1
         /\ more[NewNode(heap)].item = item /\ more[NewNode(heap)].next = next
         /\ \A n \in 1..Len(heap) : more[n] = heap[n]
<1> DEFINE node == [item |-> item, next |-> next]
           more == Append(heap, node)
<1>1. node \in Node /\ node.item = item /\ node.next = next
  BY DEF Node
<1> HIDE DEF node
<1>2. /\ more \in Seq(Node) /\ Len(more) = Len(heap) + 1 /\ more[Len(heap) + 1] = node
      /\ \A n \in 1..Len(heap) : more[n] = heap[n]
  BY <1>1, AppendItems
<1> HIDE DEF more
<1> QED BY <1>1, <1>2 DEF more, node, NewNode

\* A heap in which a node points to another.
LEMMA HeapRelinked ==
  ASSUME NEW heap \in Seq(Node), NEW from \in 1..Len(heap), NEW to \in Nat
  PROVE  LET relinked == [heap EXCEPT ![from].next = to] IN
         /\ relinked \in Seq(Node) /\ Len(relinked) = Len(heap)
         /\ \A n \in 1..Len(heap) :
              /\ relinked[n].item = heap[n].item
              /\ relinked[n].next = IF n = from THEN to ELSE heap[n].next
<1> DEFINE node == [heap[from] EXCEPT !.next = to]
           relinked == [heap EXCEPT ![from] = node]
<1>1. heap[from] \in Node
  OBVIOUS
<1>2. node \in Node /\ node.item = heap[from].item /\ node.next = to
  <2>1. node = [item |-> heap[from].item, next |-> to]
    BY <1>1 DEF Node
  <2> QED BY <1>1, <2>1 DEF Node
<1>3. relinked = [heap EXCEPT ![from].next = to]
  OBVIOUS
<1> HIDE DEF node
<1>4. /\ relinked \in Seq(Node) /\ Len(relinked) = Len(heap)
      /\ \A n \in 1..Len(heap) : relinked[n] = IF n = from THEN node ELSE heap[n]
  BY <1>2
<1> HIDE DEF relinked
<1> QED BY <1>2, <1>3, <1>4

\* A list that has one node more, with its ends given.
LEMMA ListRelinked ==
  ASSUME NEW list \in List, NEW head, NEW tail
  PROVE  [list EXCEPT !.head = head, !.tail = tail, !.length = @ + 1]
           = [mutable |-> list.mutable, head |-> head, tail |-> tail,
              length |-> list.length + 1]
<1> DEFINE class == list.mutable
           first == list.head
           last  == list.tail
           size  == list.length
<1>1. list = [mutable |-> class, head |-> first, tail |-> last, length |-> size]
  BY DEF List
<1> DEFINE after == [list EXCEPT !.head = head, !.tail = tail, !.length = @ + 1]
           longer == size + 1
<1>2. after = [list EXCEPT !.head = head, !.tail = tail, !.length = longer]
  OBVIOUS
<1> HIDE DEF class, first, last, size, after, longer
<1>3. after = [mutable |-> class, head |-> head, tail |-> tail, length |-> longer]
  BY <1>1, <1>2
<1> QED BY <1>3 DEF class, size, after, longer

LEMMA PrependSplices ==
  ASSUME NEW heap \in Seq(Node), NEW list \in List, NEW chain, Linked(heap, list, chain),
         NEW item \in Item
  PROVE  LET m == PrependNode([heap |-> heap, list |-> list], item)
         IN  Spliced(heap, list, chain, 0, item, m.heap, m.list)
<1> DEFINE node == NewNode(heap)
           more == Append(heap, [item |-> item, next |-> list.head])
           after == [list EXCEPT !.head = node, !.tail = IF @ = 0 THEN node ELSE @,
                                 !.length = @ + 1]
           m == PrependNode([heap |-> heap, list |-> list], item)
<1>1. m.heap = more /\ m.list = after
  BY DEF PrependNode
<1>2. /\ list.head = Following(chain, 0) /\ list.head \in Nat /\ Len(chain) \in Nat
      /\ list.tail = 0 <=> Len(chain) = 0
      /\ list.length = Len(chain)
      /\ list = [mutable |-> list.mutable, head |-> list.head, tail |-> list.tail,
                 length |-> Len(chain)]
  BY LinkedFacts
<1>3. /\ more \in Seq(Node) /\ Len(more) = Len(heap) + 1
      /\ more[node].item = item /\ more[node].next = list.head
      /\ \A n \in 1..Len(heap) : more[n] = heap[n]
  <2> DEFINE next == list.head
  <2>1. next \in Nat
    BY <1>2
  <2> HIDE DEF next
  <2>2. LET longer == Append(heap, [item |-> item, next |-> next]) IN
        /\ longer \in Seq(Node) /\ Len(longer) = Len(heap) + 1
        /\ longer[NewNode(heap)].item = item /\ longer[NewNode(heap)].next = next
        /\ \A n \in 1..Len(heap) : longer[n] = heap[n]
    BY <2>1, HeapAppend, ZenonT(30)
  <2> QED BY <2>2 DEF next
<1> HIDE DEF node, more, m
<1>4. after = [mutable |-> list.mutable, head |-> node,
               tail |-> IF 0 = Len(chain) THEN node ELSE list.tail,
               length |-> list.length + 1]
  <2> DEFINE tail == IF list.tail = 0 THEN node ELSE list.tail
  <2>1. after = [mutable |-> list.mutable, head |-> node, tail |-> tail,
                 length |-> list.length + 1]
    <3>1. after = [list EXCEPT !.head = node, !.tail = tail, !.length = @ + 1]
      OBVIOUS
    <3> HIDE DEF tail, after
    <3> QED BY <3>1, ListRelinked
  <2>2. tail = IF 0 = Len(chain) THEN node ELSE list.tail
    BY <1>2
  <2> QED BY <2>1, <2>2
<1> HIDE DEF after
<1>5. Spliced(heap, list, chain, 0, item, more, after)
  BY <1>2, <1>3, <1>4 DEF Spliced, node
<1> QED BY <1>1, <1>5 DEF m

LEMMA AppendSplices ==
  ASSUME NEW heap \in Seq(Node), NEW list \in List, NEW chain, Linked(heap, list, chain),
         NEW item \in Item
  PROVE  LET m == AppendNode([heap |-> heap, list |-> list], item)
         IN  Spliced(heap, list, chain, list.length, item, m.heap, m.list)
<1> DEFINE node == NewNode(heap)
           relinked == IF list.tail = 0 THEN heap ELSE [heap EXCEPT ![list.tail].next = node]
           more == Append(relinked, [item |-> item, next |-> 0])
           after == [list EXCEPT !.head = IF list.tail = 0 THEN node ELSE @,
                                 !.tail = node, !.length = @ + 1]
           m == AppendNode([heap |-> heap, list |-> list], item)
<1>1. m.heap = more /\ m.list = after
  BY DEF AppendNode
<1>2. /\ Len(chain) \in Nat /\ list.length = Len(chain)
      /\ list.tail = 0 <=> Len(chain) = 0
      /\ Len(chain) # 0 => list.tail = chain[Len(chain)] /\ list.tail \in 1..Len(heap)
      /\ list = [mutable |-> list.mutable, head |-> list.head, tail |-> list.tail,
                 length |-> Len(chain)]
  BY LinkedFacts
<1>3. node \in Nat /\ Len(heap) \in Nat
  BY DEF NewNode
<1> HIDE DEF node
<1>4. /\ relinked \in Seq(Node) /\ Len(relinked) = Len(heap)
      /\ \A n \in 1..Len(heap) :
           /\ relinked[n].item = heap[n].item
           /\ relinked[n].next = IF Len(chain) > 0 /\ n = chain[Len(chain)] THEN node
                                 ELSE heap[n].next
  <2>1. CASE Len(chain) = 0
    BY <1>2, <2>1
  <2>2. CASE Len(chain) # 0
    <3> DEFINE changed == [heap EXCEPT ![list.tail].next = node]
    <3>1. relinked = changed
      BY <1>2, <2>2
    <3>2. list.tail \in 1..Len(heap) /\ list.tail = chain[Len(chain)] /\ Len(chain) > 0
      BY <1>2, <2>2
    <3>3. /\ changed \in Seq(Node) /\ Len(changed) = Len(heap)
          /\ \A n \in 1..Len(heap) :
               /\ changed[n].item = heap[n].item
               /\ changed[n].next = IF n = list.tail THEN node ELSE heap[n].next
      BY <1>3, <3>2, HeapRelinked
    <3> HIDE DEF relinked, changed
    <3> QED BY <3>1, <3>2, <3>3
  <2> QED BY <2>1, <2>2
<1> HIDE DEF relinked
<1>5. /\ more \in Seq(Node) /\ Len(more) = Len(heap) + 1
      /\ more[node].item = item /\ more[node].next = 0
      /\ \A n \in 1..Len(heap) : more[n] = relinked[n]
  <2>1. NewNode(relinked) = node
    BY <1>4 DEF NewNode, node
  <2>2. /\ more \in Seq(Node) /\ Len(more) = Len(relinked) + 1
        /\ more[NewNode(relinked)].item = item /\ more[NewNode(relinked)].next = 0
        /\ \A n \in 1..Len(relinked) : more[n] = relinked[n]
    <3>1. 0 \in Nat
      OBVIOUS
    <3> QED BY <1>4, <3>1, HeapAppend, ZenonT(30)
  <2> HIDE DEF more
  <2> QED BY <1>4, <2>1, <2>2
<1> HIDE DEF more, m
<1>6. after = [mutable |-> list.mutable,
               head |-> IF list.length = 0 THEN node ELSE list.head,
               tail |-> node, length |-> list.length + 1]
  <2> DEFINE head == IF list.tail = 0 THEN node ELSE list.head
  <2>1. after = [mutable |-> list.mutable, head |-> head, tail |-> node,
                 length |-> list.length + 1]
    <3>1. after = [list EXCEPT !.head = head, !.tail = node, !.length = @ + 1]
      OBVIOUS
    <3> HIDE DEF head, after
    <3> QED BY <3>1, ListRelinked
  <2>2. head = IF list.length = 0 THEN node ELSE list.head
    BY <1>2
  <2> QED BY <2>1, <2>2
<1> HIDE DEF after
<1>7. Following(chain, list.length) = 0
  BY <1>2 DEF Following
<1>8. Spliced(heap, list, chain, list.length, item, more, after)
  BY <1>2, <1>4, <1>5, <1>6, <1>7 DEF Spliced, node
<1> QED BY <1>1, <1>8 DEF m

LEMMA LinkSplices ==
  ASSUME NEW heap \in Seq(Node), NEW list \in List, NEW chain, Linked(heap, list, chain),
         NEW item \in Item, NEW index \in 1..list.length - 1
  PROVE  LET m == LinkNode([heap |-> heap, list |-> list], item, index)
         IN  Spliced(heap, list, chain, index, item, m.heap, m.list)
<1> DEFINE node == NewNode(heap)
           previous == NodeAt(heap, list, index - 1)
           relinked == [heap EXCEPT ![previous].next = node]
           more == Append(relinked, [item |-> item, next |-> heap[previous].next])
           after == [list EXCEPT !.length = @ + 1]
           m == LinkNode([heap |-> heap, list |-> list], item, index)
<1>1. m.heap = more /\ m.list = after
  BY DEF LinkNode, LinkBehind
<1>2. /\ Len(chain) \in Nat /\ list.length = Len(chain)
      /\ \A k \in 1..Len(chain) : chain[k] \in 1..Len(heap)
      /\ list = [mutable |-> list.mutable, head |-> list.head, tail |-> list.tail,
                 length |-> Len(chain)]
  BY LinkedFacts
<1>3. node \in Nat /\ Len(heap) \in Nat
  BY DEF NewNode
<1>4. /\ index \in 1..Len(chain) /\ index - 1 \in 0..Len(chain) /\ index # 0 /\ index > 0
      /\ index # Len(chain) /\ index - 1 < Len(chain) /\ (index - 1) + 1 = index
  BY <1>2
<1>5. previous = chain[index]
  <2>1. previous = Following(chain, index - 1)
    BY <1>4, WalkFollows
  <2> QED BY <1>4, <2>1 DEF Following
<1> HIDE DEF node, previous
<1>6. previous \in 1..Len(heap) /\ heap[previous].next = Following(chain, index)
  BY <1>2, <1>4, <1>5 DEF Linked
<1>7. heap[previous].next \in Nat
  <2>1. heap[previous] \in Node
    BY <1>6
  <2> QED BY <2>1 DEF Node
<1>8. /\ relinked \in Seq(Node) /\ Len(relinked) = Len(heap)
      /\ \A n \in 1..Len(heap) :
           /\ relinked[n].item = heap[n].item
           /\ relinked[n].next = IF n = previous THEN node ELSE heap[n].next
  BY <1>3, <1>6, HeapRelinked
<1> HIDE DEF relinked
<1>9. /\ more \in Seq(Node) /\ Len(more) = Len(heap) + 1
      /\ more[node].item = item /\ more[node].next = heap[previous].next
      /\ \A n \in 1..Len(heap) : more[n] = relinked[n]
  <2>1. NewNode(relinked) = node
    BY <1>8 DEF NewNode, node
  <2> DEFINE next == heap[previous].next
  <2>2. /\ more \in Seq(Node) /\ Len(more) = Len(relinked) + 1
        /\ more[NewNode(relinked)].item = item /\ more[NewNode(relinked)].next = next
        /\ \A n \in 1..Len(relinked) : more[n] = relinked[n]
    BY <1>7, <1>8, HeapAppend
  <2> HIDE DEF more
  <2> QED BY <1>8, <2>1, <2>2
<1> HIDE DEF more, m
<1>10. after = [mutable |-> list.mutable, head |-> list.head, tail |-> list.tail,
                length |-> list.length + 1]
  BY <1>2
<1> HIDE DEF after
<1>11. Spliced(heap, list, chain, index, item, more, after)
  BY <1>2, <1>4, <1>5, <1>6, <1>8, <1>9, <1>10 DEF Spliced, node
<1> QED BY <1>1, <1>11 DEF m

\* Wherever an item is inserted, it is spliced in there.
LEMMA InsertSplices ==
  ASSUME NEW heap \in Seq(Node), NEW list \in List, NEW chain, Linked(heap, list, chain),
         NEW item \in Item, NEW index \in 0..list.length
  PROVE  LET m == InsertNode([heap |-> heap, list |-> list], item, index)
         IN  Spliced(heap, list, chain, index, item, m.heap, m.list)
<1> DEFINE memory == [heap |-> heap, list |-> list]
<1>1. memory.list = list /\ list.length \in Nat
  BY LinkedFacts
<1>2. CASE index = 0
  <2>1. InsertNode(memory, item, index) = PrependNode(memory, item)
    BY <1>2 DEF InsertNode
  <2> QED BY <1>2, <2>1, PrependSplices
<1>3. CASE index # 0 /\ index = list.length
  <2>1. InsertNode(memory, item, index) = AppendNode(memory, item)
    BY <1>1, <1>3 DEF InsertNode
  <2> QED BY <1>3, <2>1, AppendSplices
<1>4. CASE index # 0 /\ index # list.length
  <2>1. InsertNode(memory, item, index) = LinkNode(memory, item, index)
    BY <1>1, <1>4 DEF InsertNode
  <2>2. index \in 1..list.length - 1
    BY <1>1, <1>4
  <2> QED BY <2>1, <2>2, LinkSplices
<1> QED BY <1>2, <1>3, <1>4

-----------------------------------------------------------------------------
(* Order.                                                                  *)

\* A chain has the nodes of another in their order, and perhaps more.
Keeps(chain, longer) ==
  /\ \A k \in 1..Len(chain) : \E i \in 1..Len(longer) : longer[i] = chain[k]
  /\ \A m, n : Comes(chain, m, n) => Comes(longer, m, n)

LEMMA InsertKeeps ==
  ASSUME NEW chain \in Seq(Nat), NEW node \in Nat, NEW place \in 1..Len(chain) + 1
  PROVE  Keeps(chain, InsertAt(chain, place, node))
<1> DEFINE Ref == Nat
           longer == InsertAt(chain, place, node)
           size == Len(chain)
           At(k) == IF k < place THEN k ELSE k + 1
<1>1. chain \in Seq(Ref) /\ node \in Ref /\ size \in Nat
  OBVIOUS
<1> HIDE DEF Ref
<1>2. /\ longer \in Seq(Ref) /\ Len(longer) = size + 1
      /\ \A k \in 1..place - 1 : longer[k] = chain[k]
      /\ longer[place] = node
      /\ \A k \in place..size : longer[k + 1] = chain[k]
  BY <1>1, InsertAtItems
<1>3. DOMAIN chain = 1..size /\ DOMAIN longer = 1..size + 1
  BY <1>1, <1>2
<1> HIDE DEF longer
<1>4. ASSUME NEW k \in 1..size
      PROVE  At(k) \in 1..size + 1 /\ longer[At(k)] = chain[k]
  <2>1. CASE k < place
    <3>1. k \in 1..place - 1
      BY <2>1
    <3> QED BY <1>1, <1>2, <2>1, <3>1
  <2>2. CASE ~(k < place)
    <3>1. k \in place..size
      BY <1>1, <2>2
    <3> QED BY <1>1, <1>2, <2>2, <3>1
  <2> QED BY <2>1, <2>2
<1>5. \A j, k \in 1..size : j < k => At(j) < At(k)
  BY <1>1
<1> HIDE DEF At, size
<1>6. ASSUME NEW m, NEW n, Comes(chain, m, n) PROVE Comes(longer, m, n)
  <2>1. PICK j \in 1..size, k \in 1..size : j < k /\ chain[j] = m /\ chain[k] = n
    BY <1>3, <1>6 DEF Comes
  <2> QED BY <1>3, <1>4, <1>5, <2>1 DEF Comes
<1> QED BY <1>2, <1>4, <1>6 DEF Keeps, longer, size

LEMMA SplicedKeeps ==
  ASSUME NEW heap \in Seq(Node), NEW list \in List, NEW chain, Linked(heap, list, chain),
         NEW index \in 0..list.length, NEW item \in Item, NEW more, NEW after,
         Spliced(heap, list, chain, index, item, more, after)
  PROVE  Keeps(chain, ChainIn(more, after))
<1> DEFINE node == NewNode(heap)
           place == index + 1
<1>1. chain \in Seq(Nat) /\ Len(chain) \in Nat /\ list.length = Len(chain)
  BY LinkedFacts
<1>2. node \in Nat /\ place \in 1..Len(chain) + 1
  BY <1>1 DEF NewNode
<1>3. after \in List /\ Linked(more, after, InsertAt(chain, place, node))
  BY SplicedLinked
<1>4. more \in Seq(Node)
  BY DEF Spliced
<1>5. ChainIn(more, after) = InsertAt(chain, place, node)
  BY <1>3, <1>4, LinkedChain
<1> HIDE DEF node, place
<1> QED BY <1>1, <1>2, <1>5, InsertKeeps

-----------------------------------------------------------------------------
(* Memories.  An operation makes a list in a heap that has grown: of the   *)
(* nodes there were it changes only its own, if it has any, and the list   *)
(* it leaves has only its own nodes and new ones.                          *)

Grown(heap, list, own) ==
  /\ heap \in Seq(Node) /\ list \in List /\ Len(nodes) <= Len(heap)
  /\ \A n \in 1..Len(nodes) : n \notin own => heap[n] = nodes[n]
  /\ Linked(heap, list, ChainIn(heap, list))
  /\ \A n \in NodesIn(heap, list) : n \in own \/ n > Len(nodes)

\* Nodes with the same fields are the same.
LEMMA SameNode ==
  ASSUME NEW a \in Node, NEW b \in Node, a.item = b.item, a.next = b.next
  PROVE  a = b
BY DEF Node

\* Insertion into a list that has only its own nodes and new ones.
LEMMA InsertGrows ==
  ASSUME HeapOK, NEW heap, NEW list, NEW own, Grown(heap, list, own),
         NEW item \in Item, NEW index \in 0..list.length, NEW more, NEW after,
         Spliced(heap, list, ChainIn(heap, list), index, item, more, after)
  PROVE  /\ Grown(more, after, own) /\ after.mutable = list.mutable
         /\ ContentsIn(more, after) = InsertAt(ContentsIn(heap, list), index + 1, item)
<1> DEFINE chain == ChainIn(heap, list)
           node == NewNode(heap)
           longer == InsertAt(chain, index + 1, node)
<1>1. /\ heap \in Seq(Node) /\ list \in List /\ Len(nodes) <= Len(heap)
      /\ \A n \in 1..Len(nodes) : n \notin own => heap[n] = nodes[n]
      /\ Linked(heap, list, chain)
      /\ \A n \in NodesIn(heap, list) : n \in own \/ n > Len(nodes)
  BY DEF Grown
<1>2. nodes \in Seq(Node) /\ Len(nodes) \in Nat /\ Len(heap) \in Nat
  BY <1>1 DEF HeapOK
<1>3. /\ after \in List /\ after.mutable = list.mutable
      /\ Linked(more, after, longer)
      /\ ContentsIn(more, after) = InsertAt(ContentsIn(heap, list), index + 1, item)
  BY <1>1, SplicedLinked
<1>4. /\ chain \in Seq(Nat) /\ Len(chain) \in Nat /\ list.length = Len(chain)
      /\ index \in 0..Len(chain)
  BY <1>1, LinkedFacts
<1>5. \A k \in 1..Len(chain) : chain[k] \in own \/ chain[k] > Len(nodes)
  BY <1>1, <1>4 DEF NodesIn
<1>6. /\ more \in Seq(Node) /\ Len(more) = Len(heap) + 1
      /\ \A n \in 1..Len(heap) :
           /\ more[n].item = heap[n].item
           /\ more[n].next = IF index > 0 /\ n = chain[index] THEN node ELSE heap[n].next
  BY DEF Spliced
<1>7. ChainIn(more, after) = longer
  BY <1>3, <1>6, LinkedChain
<1>8. node = Len(heap) + 1 /\ node \in Nat
  BY <1>2 DEF NewNode
<1>9. /\ after.length = Len(chain) + 1
      /\ \A k \in 1..Len(chain) + 1 :
           \/ longer[k] = node
           \/ \E j \in 1..Len(chain) : longer[k] = chain[j]
  <2> DEFINE Ref == Nat
             place == index + 1
             longest == InsertAt(chain, place, node)
  <2>1. chain \in Seq(Ref) /\ node \in Ref /\ place \in 1..Len(chain) + 1
    BY <1>4, <1>8
  <2> HIDE DEF Ref, node, place, chain
  <2>2. /\ longest \in Seq(Ref) /\ Len(longest) = Len(chain) + 1
        /\ \A k \in 1..place - 1 : longest[k] = chain[k]
        /\ longest[place] = node
        /\ \A k \in place + 1..Len(chain) + 1 : longest[k] = chain[k - 1]
    BY <2>1, SplicedChain
  <2> HIDE DEF longest
  <2>3. longer = longest
    BY DEF longest, place
  <2>4. after.length = Len(longer)
    BY <1>3 DEF Linked
  <2> HIDE DEF longer
  <2>5. ASSUME NEW k \in 1..Len(chain) + 1
        PROVE  \/ longest[k] = node
               \/ \E j \in 1..Len(chain) : longest[k] = chain[j]
    <3>1. CASE k < place
      <4>1. k \in 1..place - 1 /\ k \in 1..Len(chain)
        BY <1>4, <2>1, <3>1
      <4> QED BY <2>2, <4>1
    <3>2. CASE k = place
      BY <2>2, <3>2
    <3>3. CASE k > place
      <4>1. k \in place + 1..Len(chain) + 1 /\ k - 1 \in 1..Len(chain)
        BY <1>4, <2>1, <3>3
      <4> QED BY <2>2, <4>1
    <3> QED BY <1>4, <2>1, <3>1, <3>2, <3>3
  <2> QED BY <2>2, <2>3, <2>4, <2>5
<1> HIDE DEF node, chain, longer
<1>10. ASSUME NEW n \in NodesIn(more, after) PROVE n \in own \/ n > Len(nodes)
  <2>1. PICK k \in 1..Len(chain) + 1 : n = longer[k]
    BY <1>7, <1>9 DEF NodesIn
  <2>2. CASE longer[k] = node
    BY <1>1, <1>2, <1>8, <2>1, <2>2
  <2>3. CASE \E j \in 1..Len(chain) : longer[k] = chain[j]
    BY <1>5, <2>1, <2>3
  <2> QED BY <1>9, <2>2, <2>3
<1>11. ASSUME NEW n \in 1..Len(nodes), n \notin own PROVE more[n] = nodes[n]
  <2>1. n \in 1..Len(heap) /\ n \in 1..Len(more)
    BY <1>1, <1>2, <1>6
  <2>2. ~(index > 0 /\ n = chain[index])
    <3>1. index > 0 => index \in 1..Len(chain)
      BY <1>4
    <3> QED BY <1>2, <1>5, <1>11, <3>1
  <2>3. more[n].item = heap[n].item /\ more[n].next = heap[n].next
    BY <1>6, <2>1, <2>2
  <2>4. more[n] \in Node /\ heap[n] \in Node
    BY <1>1, <1>6, <2>1
  <2>5. more[n] = heap[n]
    BY <2>3, <2>4, SameNode
  <2> QED BY <1>1, <1>11, <2>5
<1>12. Len(nodes) <= Len(more) /\ Linked(more, after, ChainIn(more, after))
  BY <1>1, <1>2, <1>3, <1>6, <1>7
<1>13. Grown(more, after, own)
  BY <1>3, <1>6, <1>10, <1>11, <1>12 DEF Grown
<1> QED BY <1>3, <1>13

\* An object there is, with its own nodes.
LEMMA ObjectGrown ==
  ASSUME ListInv, NEW o \in DOMAIN objects
  PROVE  Grown(nodes, objects[o], NodesIn(nodes, objects[o]))
<1>1. nodes \in Seq(Node) /\ objects[o] \in List
  BY DEF ListInv, HeapOK
<1>2. Len(nodes) <= Len(nodes)
  BY <1>1
<1>3. Linked(nodes, objects[o], ChainIn(nodes, objects[o]))
  BY DEF ListInv, AllLinked
<1> QED BY <1>1, <1>2, <1>3 DEF Grown

\* A list made of items has new nodes only, and the items.
LEMMA ChainedGrows ==
  ASSUME HeapOK, NEW class \in BOOLEAN, NEW items \in Seq(Item)
  PROVE  LET m == Chained(class, items) IN
         /\ Grown(m.heap, m.list, {}) /\ m.list.mutable = class
         /\ m.list.length = Len(items)
         /\ ContentsIn(m.heap, m.list) = items
         /\ m = [heap |-> m.heap, list |-> m.list]
<1> DEFINE size == Len(items)
           first == NewNode(nodes)
           added == [k \in 1..size |->
                       [item |-> items[k], next |-> IF k = size THEN 0 ELSE first + k]]
           heap == nodes \o added
           list == [mutable |-> class, head |-> IF size = 0 THEN 0 ELSE first,
                    tail |-> IF size = 0 THEN 0 ELSE first + size - 1, length |-> size]
           chain == [k \in 1..size |-> Len(nodes) + k]
           m == Chained(class, items)
<1>1. m = [heap |-> heap, list |-> list]
  BY DEF Chained
<1>2. /\ size \in Nat /\ nodes \in Seq(Node) /\ Len(nodes) \in Nat /\ first = Len(nodes) + 1
      /\ \A k \in 1..size : items[k] \in Item
  BY DEF HeapOK, NewNode
<1> HIDE DEF size, first
<1>3. ASSUME NEW k \in 1..size
      PROVE  /\ added[k] \in Node /\ added[k].item = items[k]
             /\ added[k].next = IF k = size THEN 0 ELSE first + k
  <2>1. (IF k = size THEN 0 ELSE first + k) \in Nat
    BY <1>2
  <2> QED BY <1>2, <2>1 DEF Node
<1>4. added \in Seq(Node) /\ Len(added) = size
  <2> DEFINE cell(k) == [item |-> items[k], next |-> IF k = size THEN 0 ELSE first + k]
  <2>1. \A k \in 1..size : cell(k) \in Node
    BY <1>3
  <2> HIDE DEF cell
  <2>2. added = [k \in 1..size |-> cell(k)]
    BY DEF cell
  <2> HIDE DEF added
  <2> QED BY <1>2, <2>1, <2>2
<1> HIDE DEF added
<1>5. /\ heap \in Seq(Node) /\ Len(heap) = Len(nodes) + size
      /\ \A n \in 1..Len(nodes) : heap[n] = nodes[n]
      /\ \A k \in 1..size : heap[Len(nodes) + k] = added[k]
  <2>1. nodes \in Seq(Node) /\ added \in Seq(Node)
    BY <1>2, <1>4
  <2>2. /\ heap \in Seq(Node) /\ Len(heap) = Len(nodes) + Len(added)
        /\ \A n \in 1..Len(nodes) : heap[n] = nodes[n]
        /\ \A k \in 1..Len(added) : heap[Len(nodes) + k] = added[k]
    BY <2>1, ConcatItems
  <2> HIDE DEF heap
  <2> QED BY <1>4, <2>2
<1> HIDE DEF heap
<1>6. /\ list \in List /\ list.mutable = class /\ list.length = size
      /\ list.head = IF size = 0 THEN 0 ELSE first
      /\ list.tail = IF size = 0 THEN 0 ELSE first + size - 1
  <2> DEFINE head == IF size = 0 THEN 0 ELSE first
             tail == IF size = 0 THEN 0 ELSE first + size - 1
  <2>1. head \in Nat /\ tail \in Nat
    BY <1>2
  <2> HIDE DEF head, tail
  <2>2. [mutable |-> class, head |-> head, tail |-> tail, length |-> size] \in List
    BY <1>2, <2>1 DEF List
  <2> QED BY <2>2 DEF head, tail
<1> HIDE DEF list
<1>7. chain \in Seq(Nat) /\ Len(chain) = size /\ \A k \in 1..size : chain[k] = Len(nodes) + k
  BY <1>2
<1> HIDE DEF chain
<1>8. Linked(heap, list, chain)
  <2>1. \A k \in 1..Len(chain) : chain[k] \in 1..Len(heap)
    BY <1>2, <1>5, <1>7
  <2>2. \A j, k \in 1..Len(chain) : chain[j] = chain[k] => j = k
    BY <1>2, <1>7
  <2>3. list.head = Following(chain, 0)
    BY <1>2, <1>6, <1>7 DEF Following
  <2>4. list.tail = IF Len(chain) = 0 THEN 0 ELSE chain[Len(chain)]
    BY <1>2, <1>6, <1>7
  <2>5. ASSUME NEW k \in 1..Len(chain) PROVE heap[chain[k]].next = Following(chain, k)
    <3>1. heap[chain[k]] = added[k]
      BY <1>5, <1>7
    <3>2. heap[chain[k]].next = IF k = size THEN 0 ELSE first + k
      BY <1>3, <1>7, <3>1
    <3>3. Following(chain, k) = IF k = size THEN 0 ELSE first + k
      <4>1. CASE k = size
        BY <1>2, <1>7, <4>1 DEF Following
      <4>2. CASE k # size
        <5>1. k < Len(chain) /\ k + 1 \in 1..size
          BY <1>2, <1>7, <4>2
        <5>2. chain[k + 1] = Len(nodes) + (k + 1)
          BY <1>7, <5>1
        <5> QED BY <1>2, <4>2, <5>1, <5>2 DEF Following
      <4> QED BY <4>1, <4>2
    <3> QED BY <3>2, <3>3
  <2> QED BY <1>6, <1>7, <2>1, <2>2, <2>3, <2>4, <2>5 DEF Linked
<1> DEFINE s == ContentsIn(heap, list)
<1>9. /\ ChainIn(heap, list) = chain /\ s \in Seq(Item) /\ Len(s) = size
      /\ \A k \in 1..size : s[k] = heap[chain[k]].item
  BY <1>5, <1>6, <1>8, LinkedChain
<1> HIDE DEF s
<1>10. s = items
  <2>1. ASSUME NEW k \in 1..size PROVE s[k] = items[k]
    <3>1. heap[chain[k]] = added[k]
      BY <1>5, <1>7
    <3> QED BY <1>3, <1>9, <3>1
  <2>2. Len(items) = size
    BY DEF size
  <2> QED BY <1>9, <2>1, <2>2, SameItems
<1>11. \A n \in NodesIn(heap, list) : n > Len(nodes)
  BY <1>2, <1>6, <1>7, <1>9 DEF NodesIn
<1>12. Grown(heap, list, {})
  <2>1. Len(nodes) <= Len(heap)
    BY <1>2, <1>5
  <2> QED BY <1>5, <1>6, <1>8, <1>9, <1>11, <2>1 DEF Grown
<1>13. m.heap = heap /\ m.list = list
  BY <1>1
<1> HIDE DEF m
<1> QED BY <1>1, <1>6, <1>10, <1>12, <1>13 DEF m, size, s

\* What is inserted into: the object, or a copy of it.
Own(o) == IF objects[o].mutable THEN NodesIn(nodes, objects[o]) ELSE {}

LEMMA InstanceGrows ==
  ASSUME ListInv, NEW o \in DOMAIN objects
  PROVE  LET m == Instance(o) IN
         /\ m = [heap |-> m.heap, list |-> m.list]
         /\ Grown(m.heap, m.list, Own(o)) /\ m.list.mutable = objects[o].mutable
         /\ m.list.length = objects[o].length
         /\ ContentsIn(m.heap, m.list) = Contents(objects[o])
<1> DEFINE m == Instance(o)
           x == objects[o]
           s == Contents(x)
<1>1. x \in List /\ nodes \in Seq(Node) /\ HeapOK
  BY DEF ListInv, HeapOK
<1>2. Linked(nodes, x, ChainIn(nodes, x))
  BY DEF ListInv, AllLinked
<1>3. ContentsIn(nodes, x) = s
  BY DEF ContentsIn, Contents
<1>4. s \in Seq(Item) /\ Len(s) = x.length
  BY <1>1, <1>2, <1>3, LinkedChain
<1>5. CASE x.mutable
  <2>1. m = [heap |-> nodes, list |-> x] /\ Own(o) = NodesIn(nodes, x)
    BY <1>5 DEF Instance, Own
  <2>2. m.heap = nodes /\ m.list = x
    BY <2>1
  <2>3. Grown(nodes, x, NodesIn(nodes, x))
    BY ObjectGrown
  <2> HIDE DEF m, x, s
  <2> QED BY <1>3, <2>1, <2>2, <2>3 DEF m, x, s
<1>6. CASE ~x.mutable
  <2> DEFINE copy == Chained(FALSE, s)
  <2>1. m = copy /\ Own(o) = {}
    BY <1>6 DEF Instance, Own
  <2> HIDE DEF s
  <2>2. /\ Grown(copy.heap, copy.list, {}) /\ copy.list.mutable = FALSE
        /\ copy.list.length = Len(s) /\ ContentsIn(copy.heap, copy.list) = s
        /\ copy = [heap |-> copy.heap, list |-> copy.list]
    BY <1>1, <1>4, ChainedGrows
  <2>3. x.mutable = FALSE
    BY <1>1, <1>6 DEF List
  <2> HIDE DEF m, copy
  <2> QED BY <1>4, <2>1, <2>2, <2>3 DEF m, s
<1> QED BY <1>5, <1>6

-----------------------------------------------------------------------------
(* What the operations do.                                                 *)

(* A call on object o either throws, or gives a mutable object the value   *)
(* that the abstract specification names, or makes an object of the class  *)
(* of o that has that value.                                               *)
Rejects(o, c) ==
  ~Values!Accepted(Contents(objects[o]), c) /\ UNCHANGED <<nodes, objects>>

Changes(o, c) ==
  /\ Values!Accepted(Contents(objects[o]), c)
  /\ c.op \in Values!Updates /\ objects[o].mutable
  /\ \E heap, list :
       /\ Grown(heap, list, NodesIn(nodes, objects[o]))
       /\ list.mutable = objects[o].mutable
       /\ ContentsIn(heap, list) = Values!Result(Contents(objects[o]), c)
       /\ Keeps(ChainIn(nodes, objects[o]), ChainIn(heap, list))
       /\ nodes' = heap /\ objects' = [objects EXCEPT ![o] = list]

\* A new object: in a grown heap, with new nodes only.
Adds(heap, list) ==
  Grown(heap, list, {}) /\ nodes' = heap /\ objects' = Append(objects, list)

Makes(o, c) ==
  /\ Values!Accepted(Contents(objects[o]), c)
  /\ ~(c.op \in Values!Updates /\ objects[o].mutable)
  /\ \E heap, list :
       /\ Adds(heap, list) /\ list.mutable = objects[o].mutable
       /\ ContentsIn(heap, list) = Values!Result(Contents(objects[o]), c)

Performs(o, c) ==
  /\ c.object = o /\ c.op \notin {"new", "copy", "none"}
  /\ Rejects(o, c) \/ Changes(o, c) \/ Makes(o, c)

\* The operators of the community modules are the same in both modules.
LEMMA InsertAtSame ==
  \A s, i, e : Values!InsertAt(s, i, e) = InsertAt(s, i, e)
BY DEF Values!InsertAt, InsertAt

LEMMA FlattenSame ==
  \A seqs : Values!FlattenSeq(seqs) = FlattenSeq(seqs)
BY DEF Values!FlattenSeq, FlattenSeq

LEMMA ContentsItems ==
  ASSUME ListInv, NEW o \in DOMAIN objects
  PROVE  /\ Contents(objects[o]) \in Seq(Item)
         /\ Len(Contents(objects[o])) = objects[o].length
         /\ objects[o].length \in Nat /\ objects[o].mutable \in BOOLEAN
<1>1. objects[o] \in List /\ nodes \in Seq(Node)
  BY DEF ListInv, HeapOK
<1>2. Linked(nodes, objects[o], ChainIn(nodes, objects[o]))
  BY DEF ListInv, AllLinked
<1>3. ContentsIn(nodes, objects[o]) = Contents(objects[o])
  BY DEF ContentsIn, Contents
<1>4. /\ ContentsIn(nodes, objects[o]) \in Seq(Item)
      /\ Len(ContentsIn(nodes, objects[o])) = objects[o].length
  BY <1>1, <1>2, LinkedChain
<1>5. objects[o].length \in Nat /\ objects[o].mutable \in BOOLEAN
  BY <1>1 DEF List
<1> QED BY <1>3, <1>4, <1>5

\* An insertion that is accepted.
LEMMA InsertionPerforms ==
  ASSUME ListInv, NEW o \in DOMAIN objects, NEW item \in Item,
         NEW index \in 0..objects[o].length, NEW c,
         c.object = o, c.op \in {"append", "prepend", "insert_at"},
         Values!Accepted(Contents(objects[o]), c),
         Values!Result(Contents(objects[o]), c) = InsertAt(Contents(objects[o]), index + 1, item),
         NEW m,
         LET before == Instance(o) IN
         Spliced(before.heap, before.list, ChainIn(before.heap, before.list), index, item,
                 m.heap, m.list),
         Update(o, m)
  PROVE  Performs(o, c)
<1> DEFINE x == objects[o]
           before == Instance(o)
           heap == before.heap
           list == before.list
           more == m.heap
           after == m.list
<1>1. /\ Grown(heap, list, Own(o)) /\ list.mutable = x.mutable
      /\ list.length = x.length /\ ContentsIn(heap, list) = Contents(x)
  BY InstanceGrows
<1>2. Spliced(heap, list, ChainIn(heap, list), index, item, more, after)
  OBVIOUS
<1>3. HeapOK /\ index \in 0..list.length
  BY <1>1 DEF ListInv
<1>4. c.op \in Values!Updates /\ c.op \notin {"new", "copy", "none"}
  BY DEF Values!Updates
<1> HIDE DEF heap, list, before, more, after
<1>5. /\ Grown(more, after, Own(o)) /\ after.mutable = list.mutable
      /\ ContentsIn(more, after) = InsertAt(ContentsIn(heap, list), index + 1, item)
  BY <1>1, <1>2, <1>3, InsertGrows
<1>6. after.mutable = x.mutable /\ ContentsIn(more, after) = Values!Result(Contents(x), c)
  BY <1>1, <1>5
<1>7. CASE x.mutable
  <2>1. nodes' = more /\ objects' = [objects EXCEPT ![o] = after]
    BY <1>7 DEF Update, more, after
  <2>2. Grown(more, after, NodesIn(nodes, x))
    BY <1>5, <1>7 DEF Own
  <2>3. Keeps(ChainIn(nodes, x), ChainIn(more, after))
    <3>1. /\ nodes \in Seq(Node) /\ x \in List /\ Linked(nodes, x, ChainIn(nodes, x))
          /\ heap = nodes /\ list = x
      BY <1>7 DEF ListInv, HeapOK, AllLinked, Instance, before, heap, list
    <3> QED BY <1>2, <1>3, <3>1, SplicedKeeps
  <2>4. Changes(o, c)
    BY <1>4, <1>6, <1>7, <2>1, <2>2, <2>3 DEF Changes
  <2> QED BY <1>4, <2>4 DEF Performs
<1>8. CASE ~x.mutable
  <2>1. nodes' = more /\ objects' = Append(objects, after)
    BY <1>8 DEF Update, NewObject, more, after
  <2>2. Grown(more, after, {})
    BY <1>5, <1>8 DEF Own
  <2>3. Makes(o, c)
    BY <1>4, <1>6, <1>8, <2>1, <2>2 DEF Makes, Adds
  <2> QED BY <1>4, <2>3 DEF Performs
<1> QED BY <1>7, <1>8

\* What an insertion is made into.
LEMMA InstanceFacts ==
  ASSUME ListInv, NEW o \in DOMAIN objects
  PROVE  LET m == Instance(o) IN
         /\ m.heap \in Seq(Node) /\ m.list \in List
         /\ Linked(m.heap, m.list, ChainIn(m.heap, m.list))
         /\ m = [heap |-> m.heap, list |-> m.list]
         /\ m.list.length = objects[o].length
<1> DEFINE m == Instance(o)
<1>1. /\ m = [heap |-> m.heap, list |-> m.list]
      /\ Grown(m.heap, m.list, Own(o)) /\ m.list.length = objects[o].length
  BY InstanceGrows
<1> HIDE DEF m
<1> QED BY <1>1 DEF Grown, m

LEMMA AppendPerforms ==
  ASSUME ListInv, NEW o \in DOMAIN objects, AppendItem(o)
  PROVE  Performs(o, call')
<1> DEFINE x == objects[o]
           before == Instance(o)
           heap == before.heap
           list == before.list
<1>1. PICK item \in Added :
        Called("append", o, <<item>>) /\ Update(o, AppendNode(before, item))
  BY DEF AppendItem
<1> DEFINE m == AppendNode(before, item)
<1>2. item \in Item
  BY ListSequenceAssumption
<1>3. x.length \in 0..x.length /\ Len(Contents(x)) = x.length
  BY ContentsItems
<1>4. call'.op = "append" /\ call'.object = o /\ call'.args[1] = item
  BY <1>1 DEF Called
<1>5. Values!Accepted(Contents(x), call')
  BY <1>4 DEF Values!Accepted
<1>6. Values!Result(Contents(x), call') = InsertAt(Contents(x), x.length + 1, item)
  BY <1>3, <1>4, InsertAtSame DEF Values!Result, Values!InsertPosition, Values!Updates
<1>7. Spliced(heap, list, ChainIn(heap, list), x.length, item, m.heap, m.list)
  <2>1. /\ heap \in Seq(Node) /\ list \in List /\ Linked(heap, list, ChainIn(heap, list))
        /\ before = [heap |-> heap, list |-> list] /\ list.length = x.length
    BY InstanceFacts
  <2> HIDE DEF before, heap, list
  <2>2. LET n == AppendNode([heap |-> heap, list |-> list], item)
        IN  Spliced(heap, list, ChainIn(heap, list), list.length, item, n.heap, n.list)
    BY <1>2, <2>1, AppendSplices
  <2> QED BY <2>1, <2>2
<1>8. Update(o, m)
  BY <1>1
<1> HIDE DEF m
<1> QED BY <1>2, <1>3, <1>4, <1>5, <1>6, <1>7, <1>8, InsertionPerforms

LEMMA PrependPerforms ==
  ASSUME ListInv, NEW o \in DOMAIN objects, Prepend(o)
  PROVE  Performs(o, call')
<1> DEFINE x == objects[o]
           before == Instance(o)
           heap == before.heap
           list == before.list
<1>1. PICK item \in Added :
        Called("prepend", o, <<item>>) /\ Update(o, PrependNode(before, item))
  BY DEF Prepend
<1> DEFINE m == PrependNode(before, item)
<1>2. item \in Item
  BY ListSequenceAssumption
<1>3. 0 \in 0..x.length
  BY ContentsItems
<1>4. call'.op = "prepend" /\ call'.object = o /\ call'.args[1] = item
  BY <1>1 DEF Called
<1>5. Values!Accepted(Contents(x), call')
  BY <1>4 DEF Values!Accepted
<1>6. Values!Result(Contents(x), call') = InsertAt(Contents(x), 0 + 1, item)
  BY <1>4, InsertAtSame DEF Values!Result, Values!InsertPosition, Values!Updates
<1>7. Spliced(heap, list, ChainIn(heap, list), 0, item, m.heap, m.list)
  <2>1. /\ heap \in Seq(Node) /\ list \in List /\ Linked(heap, list, ChainIn(heap, list))
        /\ before = [heap |-> heap, list |-> list]
    BY InstanceFacts
  <2> HIDE DEF before, heap, list
  <2>2. LET n == PrependNode([heap |-> heap, list |-> list], item)
        IN  Spliced(heap, list, ChainIn(heap, list), 0, item, n.heap, n.list)
    BY <1>2, <2>1, PrependSplices
  <2> QED BY <2>1, <2>2
<1>8. Update(o, m)
  BY <1>1
<1> HIDE DEF m
<1> QED BY <1>2, <1>3, <1>4, <1>5, <1>6, <1>7, <1>8, InsertionPerforms

LEMMA InsertPerforms ==
  ASSUME ListInv, NEW o \in DOMAIN objects, InsertItem(o)
  PROVE  Performs(o, call')
<1> DEFINE x == objects[o]
           before == Instance(o)
           heap == before.heap
           list == before.list
<1>1. PICK item \in Added, index \in Index :
        /\ Called("insert_at", o, <<item, index>>)
        /\ IF index < 0 \/ index > x.length
           THEN Throw ELSE Update(o, InsertNode(before, item, index))
  BY DEF InsertItem
<1> DEFINE m == InsertNode(before, item, index)
<1>2. item \in Item /\ index \in Int
  BY ListSequenceAssumption
<1>3. x.length \in Nat /\ Len(Contents(x)) = x.length
  BY ContentsItems
<1>4. call'.op = "insert_at" /\ call'.object = o /\ call'.args[1] = item /\ call'.args[2] = index
  BY <1>1 DEF Called
<1>5. Values!Accepted(Contents(x), call') <=> index \in 0..x.length
  BY <1>3, <1>4 DEF Values!Accepted
<1>6. Values!Result(Contents(x), call') = InsertAt(Contents(x), index + 1, item)
  BY <1>4, InsertAtSame DEF Values!Result, Values!InsertPosition, Values!Updates
<1>7. CASE index \in 0..x.length
  <2>1. Spliced(heap, list, ChainIn(heap, list), index, item, m.heap, m.list)
    <3>1. /\ heap \in Seq(Node) /\ list \in List /\ Linked(heap, list, ChainIn(heap, list))
          /\ before = [heap |-> heap, list |-> list] /\ index \in 0..list.length
      BY <1>7, InstanceFacts
    <3> HIDE DEF before, heap, list
    <3>2. LET n == InsertNode([heap |-> heap, list |-> list], item, index)
          IN  Spliced(heap, list, ChainIn(heap, list), index, item, n.heap, n.list)
      BY <1>2, <3>1, InsertSplices
    <3> QED BY <3>1, <3>2
  <2>2. Update(o, m)
    BY <1>1, <1>2, <1>3, <1>7
  <2> HIDE DEF m
  <2> QED BY <1>2, <1>4, <1>5, <1>6, <1>7, <2>1, <2>2, InsertionPerforms
<1>8. CASE index \notin 0..x.length
  <2>1. Throw
    BY <1>1, <1>2, <1>3, <1>8
  <2>2. Rejects(o, call')
    BY <1>5, <1>8, <2>1 DEF Rejects, Throw
  <2> QED BY <1>4, <2>2 DEF Performs
<1> QED BY <1>7, <1>8

\* A list that is made of items.
LEMMA MakeAdds ==
  ASSUME ListInv, NEW class \in BOOLEAN, NEW items \in Seq(Item), Make(class, items)
  PROVE  \E heap, list :
           /\ Adds(heap, list) /\ list.mutable = class /\ ContentsIn(heap, list) = items
<1> DEFINE m == Chained(class, items)
<1>1. /\ Grown(m.heap, m.list, {}) /\ m.list.mutable = class
      /\ ContentsIn(m.heap, m.list) = items
  BY ChainedGrows DEF ListInv
<1>2. nodes' = m.heap /\ objects' = Append(objects, m.list)
  BY DEF Make, NewObject
<1> HIDE DEF m
<1>3. Adds(m.heap, m.list)
  BY <1>1, <1>2 DEF Adds
<1> QED BY <1>1, <1>3

\* A result that is made like the object.
LEMMA MakingPerforms ==
  ASSUME ListInv, NEW o \in DOMAIN objects, NEW items \in Seq(Item), NEW c,
         c.object = o, c.op \in {"get_sub_sequence", "concat", "map", "where", "slice"},
         Values!Accepted(Contents(objects[o]), c),
         Values!Result(Contents(objects[o]), c) = items,
         MakeLike(o, items)
  PROVE  Performs(o, c)
<1>1. objects[o].mutable \in BOOLEAN
  BY ContentsItems
<1>2. Make(objects[o].mutable, items)
  BY DEF MakeLike
<1>3. PICK heap, list :
        /\ Adds(heap, list) /\ list.mutable = objects[o].mutable
        /\ ContentsIn(heap, list) = items
  BY <1>1, <1>2, MakeAdds
<1>4. c.op \notin Values!Updates /\ c.op \notin {"new", "copy", "none"}
  BY DEF Values!Updates
<1>5. Makes(o, c)
  BY <1>3, <1>4 DEF Makes
<1> QED BY <1>4, <1>5 DEF Performs

LEMMA SubSequencePerforms ==
  ASSUME ListInv, NEW o \in DOMAIN objects, GetSubSequence(o)
  PROVE  Performs(o, call')
<1> DEFINE value == Contents(objects[o])
           length == objects[o].length
<1>1. PICK start \in Index, end \in Index :
        /\ Called("get_sub_sequence", o, <<start, end>>)
        /\ IF start < 0 \/ end < 0 \/ start >= length \/ end >= length \/ start > end
           THEN Throw
           ELSE MakeLike(o, SubSeq(value, start + 1, end + 1))
  BY DEF GetSubSequence
<1>2. start \in Int /\ end \in Int
  BY ListSequenceAssumption
<1>3. length \in Nat /\ value \in Seq(Item) /\ Len(value) = length
  BY ContentsItems
<1>4. /\ call'.op = "get_sub_sequence" /\ call'.object = o
      /\ call'.args[1] = start /\ call'.args[2] = end
  BY <1>1 DEF Called
<1> HIDE DEF value, length
<1> DEFINE Good == start \in 0..length - 1 /\ end \in 0..length - 1 /\ start <= end
<1>5. Values!Accepted(value, call') <=> Good
  BY <1>3, <1>4 DEF Values!Accepted, Values!IsIndex
<1>6. Values!Result(value, call') = SubSeq(value, start + 1, end + 1)
  BY <1>4 DEF Values!Result, Values!Updates
<1>7. CASE Good
  <2> DEFINE items == SubSeq(value, start + 1, end + 1)
  <2>1. MakeLike(o, items)
    BY <1>1, <1>2, <1>3, <1>7
  <2>2. items \in Seq(Item)
    <3>1. start + 1 \in 1..Len(value) /\ end + 1 \in 1..Len(value)
      BY <1>2, <1>3, <1>7
    <3> QED BY <1>3, <3>1
  <2> HIDE DEF items, Good
  <2>3. Values!Accepted(value, call') /\ Values!Result(value, call') = items
    BY <1>5, <1>6, <1>7 DEF items
  <2> QED BY <1>4, <2>1, <2>2, <2>3, MakingPerforms DEF value
<1>8. CASE ~Good
  <2>1. Throw
    BY <1>1, <1>2, <1>3, <1>8
  <2>2. Rejects(o, call')
    BY <1>5, <1>8, <2>1 DEF Rejects, Throw, value
  <2> QED BY <1>4, <2>2 DEF Performs
<1> QED BY <1>7, <1>8

LEMMA ConcatPerforms ==
  ASSUME ListInv, NEW o \in DOMAIN objects, Concat(o)
  PROVE  Performs(o, call')
<1> DEFINE value == Contents(objects[o])
<1>1. PICK other \in DOMAIN objects :
        Called("concat", o, <<other>>) /\ MakeLike(o, value \o Contents(objects[other]))
  BY DEF Concat
<1> DEFINE added == Contents(objects[other])
<1>2. value \in Seq(Item) /\ added \in Seq(Item)
  BY ContentsItems
<1>3. call'.op = "concat" /\ call'.object = o /\ call'.args[1] = other
  BY <1>1 DEF Called
<1>4. Values!Accepted(value, call')
  BY <1>3 DEF Values!Accepted
<1>5. Values!Result(value, call') = value \o added
  BY <1>3 DEF Values!Result, Values!Updates
<1>6. MakeLike(o, value \o added)
  BY <1>1
<1>7. value \o added \in Seq(Item)
  <2> HIDE DEF value, added
  <2> QED BY <1>2, ConcatItems
<1> QED BY <1>3, <1>4, <1>5, <1>6, <1>7, MakingPerforms

LEMMA MapPerforms ==
  ASSUME ListInv, NEW o \in DOMAIN objects, MapItems(o)
  PROVE  Performs(o, call')
<1> DEFINE value == Contents(objects[o])
           items == [k \in DOMAIN value |-> Func[value[k]]]
<1>1. Called("map", o, <<>>) /\ MakeLike(o, items)
  BY DEF MapItems
<1>2. value \in Seq(Item)
  BY ContentsItems
<1>3. items \in Seq(Item)
  <2> HIDE DEF value
  <2>1. /\ DOMAIN value = 1..Len(value) /\ Len(value) \in Nat
        /\ \A k \in 1..Len(value) : Func[value[k]] \in Item
    BY <1>2, ListSequenceAssumption
  <2> QED BY <2>1
<1>4. call'.op = "map" /\ call'.object = o
  BY <1>1 DEF Called
<1>5. Values!Accepted(value, call')
  BY <1>4 DEF Values!Accepted
<1>6. Values!Result(value, call') = items
  <2> HIDE DEF value
  <2> QED BY <1>4 DEF Values!Result, Values!Updates
<1> HIDE DEF items
<1> QED BY <1>1, <1>3, <1>4, <1>5, <1>6, MakingPerforms

LEMMA WherePerforms ==
  ASSUME ListInv, NEW o \in DOMAIN objects, Where(o)
  PROVE  Performs(o, call')
<1> DEFINE value == Contents(objects[o])
           parts == [k \in DOMAIN value |-> IF value[k] \in Chosen THEN <<value[k]>> ELSE <<>>]
           items == FlattenSeq(parts)
<1>1. Called("where", o, <<>>) /\ MakeLike(o, items)
  BY DEF Where
<1>2. value \in Seq(Item)
  BY ContentsItems
<1>3. items \in Seq(Item)
  <2> HIDE DEF value
  <2>1. /\ DOMAIN value = 1..Len(value) /\ Len(value) \in Nat
        /\ \A k \in 1..Len(value) : parts[k] \in Seq(Item)
    BY <1>2
  <2>2. parts \in Seq(Seq(Item))
    BY <2>1
  <2> HIDE DEF parts
  <2> QED BY <2>2, FlattenType
<1>4. call'.op = "where" /\ call'.object = o
  BY <1>1 DEF Called
<1>5. Values!Accepted(value, call')
  BY <1>4 DEF Values!Accepted
<1>6. Values!Result(value, call') = items
  <2> HIDE DEF value
  <2>1. Values!Result(value, call') = Values!Kept(value)
    BY <1>4 DEF Values!Result, Values!Updates
  <2>2. Values!Kept(value) = Values!FlattenSeq(parts)
    BY DEF Values!Kept
  <2> HIDE DEF parts
  <2> QED BY <2>1, <2>2, FlattenSame
<1> HIDE DEF items
<1> QED BY <1>1, <1>3, <1>4, <1>5, <1>6, MakingPerforms

\* Where nothing is left, or nothing came before, there are no items.
LEMMA NothingRemains ==
  ASSUME NEW s \in Seq(Item), NEW m \in Int, m > Len(s)
  PROVE  SubSeq(s, m, Len(s)) = <<>>
OBVIOUS

LEMMA NothingBefore ==
  ASSUME NEW s \in Seq(Item)
  PROVE  SubSeq(s, 1, 0) = <<>>
OBVIOUS

\* The parts that slice keeps: what the abstract specification names.
LEMMA SliceParts ==
  ASSUME NEW value \in Seq(Item), NEW start \in 0..Len(value) - 1, NEW count \in Nat
  PROVE  LET length  == Len(value)
             removed == IF count > length - start THEN length - start ELSE count
             prefix  == IF start > 0 THEN SubSeq(value, 1, start) ELSE <<>>
             suffix  == IF start + removed < length
                        THEN SubSeq(value, start + removed + 1, length) ELSE <<>>
         IN  /\ prefix = SubSeq(value, 1, start) /\ prefix \in Seq(Item)
             /\ suffix = SubSeq(value, start + count + 1, length) /\ suffix \in Seq(Item)
<1> DEFINE length  == Len(value)
           removed == IF count > length - start THEN length - start ELSE count
           rest == start + removed
           last == start + count
           prefix  == IF start > 0 THEN SubSeq(value, 1, start) ELSE <<>>
           suffix  == IF rest < length THEN SubSeq(value, rest + 1, length) ELSE <<>>
<1>1. length \in Nat /\ last \in Nat /\ rest \in 0..length
  OBVIOUS
<1>2. rest < length => rest = last
  OBVIOUS
<1>3. ~(rest < length) => last >= length
  OBVIOUS
<1>4. start \in 0..length
  OBVIOUS
<1>5. prefix = SubSeq(value, 1, start) /\ prefix \in Seq(Item)
  <2>1. CASE start = 0
    <3>1. prefix = <<>> /\ SubSeq(value, 1, start) = SubSeq(value, 1, 0)
      BY <2>1
    <3>2. SubSeq(value, 1, 0) = <<>>
      BY NothingBefore
    <3> HIDE DEF prefix
    <3> QED BY <3>1, <3>2
  <2>2. CASE start > 0
    BY <1>4, <2>2, PrefixItems
  <2> QED BY <2>1, <2>2
<1> HIDE DEF rest, last, prefix, removed
<1>6. suffix = SubSeq(value, last + 1, length) /\ suffix \in Seq(Item)
  <2>1. CASE rest < length
    <3>1. suffix = SubSeq(value, rest + 1, length)
      BY <2>1
    <3>2. SubSeq(value, rest + 1, Len(value)) \in Seq(Item)
      BY <1>1, SuffixItems
    <3> QED BY <1>2, <2>1, <3>1, <3>2
  <2>2. CASE ~(rest < length)
    <3>1. suffix = <<>>
      BY <2>2
    <3>2. last + 1 \in Int /\ last + 1 > Len(value)
      BY <1>1, <1>3, <2>2
    <3>3. SubSeq(value, last + 1, Len(value)) = <<>>
      BY <3>2, NothingRemains
    <3>4. <<>> \in Seq(Item)
      OBVIOUS
    <3> HIDE DEF suffix
    <3> QED BY <3>1, <3>3, <3>4
  <2> QED BY <2>1, <2>2
<1> QED BY <1>5, <1>6 DEF rest, last, prefix, removed

LEMMA SlicePerforms ==
  ASSUME ListInv, NEW o \in DOMAIN objects, Slice(o)
  PROVE  Performs(o, call')
<1> DEFINE value == Contents(objects[o])
           length == objects[o].length
<1>1. PICK index \in Index, count \in Index, other \in 0..Len(objects) :
        LET start   == IF index < 0 THEN index + length ELSE index
            removed == IF count > length - start THEN length - start ELSE count
            prefix  == IF start > 0 THEN SubSeq(value, 1, start) ELSE <<>>
            suffix  == IF start + removed < length
                       THEN SubSeq(value, start + removed + 1, length) ELSE <<>>
        IN  /\ Called("slice", o, <<index, count, other>>)
            /\ IF count < 0 \/ length = 0 \/ start < 0 \/ start >= length
               THEN Throw
               ELSE MakeLike(o, prefix \o (IF other = 0 THEN <<>> ELSE Contents(objects[other]))
                                       \o suffix)
  BY DEF Slice
<1> DEFINE start   == IF index < 0 THEN index + length ELSE index
           removed == IF count > length - start THEN length - start ELSE count
           between == IF other = 0 THEN <<>> ELSE Contents(objects[other])
           before  == IF start > 0 THEN SubSeq(value, 1, start) ELSE <<>>
           behind  == IF start + removed < length
                      THEN SubSeq(value, start + removed + 1, length) ELSE <<>>
           Good    == count >= 0 /\ start \in 0..length - 1
<1>2. index \in Int /\ count \in Int
  BY ListSequenceAssumption
<1>3. length \in Nat /\ value \in Seq(Item) /\ Len(value) = length
  BY ContentsItems
<1>4. /\ call'.op = "slice" /\ call'.object = o
      /\ call'.args[1] = index /\ call'.args[2] = count /\ call'.args[3] = other
  BY <1>1 DEF Called
<1>5. between \in Seq(Item)
  <2>1. CASE other = 0
    BY <2>1
  <2>2. CASE other # 0
    <3>1. other \in DOMAIN objects
      BY <2>2 DEF ListInv, HeapOK
    <3> QED BY <2>2, <3>1, ContentsItems
  <2> QED BY <2>1, <2>2
<1>6. start \in Int
  BY <1>2, <1>3
<1>7. IF Good THEN MakeLike(o, before \o between \o behind) ELSE Throw
  <2>1. Good <=> ~(count < 0 \/ length = 0 \/ start < 0 \/ start >= length)
    <3> HIDE DEF start, length
    <3> QED BY <1>2, <1>3, <1>6
  <2>2. IF count < 0 \/ length = 0 \/ start < 0 \/ start >= length
        THEN Throw ELSE MakeLike(o, before \o between \o behind)
    BY <1>1
  <2> HIDE DEF Good, start, before, between, behind
  <2> QED BY <2>1, <2>2
<1>8. Values!FromEnd(value, index) = start
  BY <1>3 DEF Values!FromEnd
<1>9. Values!Accepted(value, call') <=> Good
  <2> HIDE DEF start
  <2>1. Values!Accepted(value, call') <=> count >= 0 /\ start \in 0..Len(value) - 1
    BY <1>4, <1>8 DEF Values!Accepted, Values!IsIndex
  <2> QED BY <1>3, <2>1
<1>10. Values!Replacement(call') = between
  <2>1. CASE other = 0
    BY <1>4, <2>1 DEF Values!Replacement
  <2>2. CASE other # 0
    <3>1. other \in DOMAIN objects
      BY <2>2 DEF ListInv, HeapOK
    <3> QED BY <1>4, <2>2, <3>1 DEF Values!Replacement
  <2> QED BY <2>1, <2>2
<1>11. Values!Result(value, call')
         = SubSeq(value, 1, start) \o between \o SubSeq(value, start + count + 1, length)
  <2> HIDE DEF start, between, value
  <2>1. Values!Result(value, call') = Values!Spliced(value, index, count, between)
    BY <1>4, <1>10 DEF Values!Result, Values!Updates
  <2>2. Values!Spliced(value, index, count, between)
          = SubSeq(value, 1, start) \o between \o SubSeq(value, start + count + 1, Len(value))
    BY <1>8 DEF Values!Spliced
  <2> QED BY <1>3, <2>1, <2>2
<1>12. CASE Good
  <2>1. /\ before = SubSeq(value, 1, start) /\ before \in Seq(Item)
        /\ behind = SubSeq(value, start + count + 1, length) /\ behind \in Seq(Item)
    <3> HIDE DEF value, start
    <3>1. start \in 0..Len(value) - 1 /\ count \in Nat
      BY <1>2, <1>3, <1>12
    <3> HIDE DEF length
    <3> QED BY <1>3, <3>1, SliceParts
  <2> HIDE DEF before, behind, between, Good, start, removed
  <2> DEFINE items == before \o between \o behind
  <2>2. items \in Seq(Item)
    <3>1. before \o between \in Seq(Item)
      BY <1>5, <2>1, ConcatItems
    <3> QED BY <2>1, <3>1, ConcatItems
  <2>3. MakeLike(o, items)
    BY <1>7, <1>12
  <2>4. Values!Result(value, call') = items
    BY <1>11, <2>1
  <2>5. Values!Accepted(value, call')
    BY <1>9, <1>12
  <2> HIDE DEF items
  <2> QED BY <1>4, <2>2, <2>3, <2>4, <2>5, MakingPerforms
<1>13. CASE ~Good
  <2> HIDE DEF Good, before, behind, between
  <2>1. Throw
    BY <1>7, <1>13
  <2>2. Rejects(o, call')
    BY <1>9, <1>13, <2>1 DEF Rejects, Throw
  <2> QED BY <1>4, <2>2 DEF Performs
<1> QED BY <1>12, <1>13

\* Every operation of an object performs the call that it makes.
LEMMA OperationPerforms ==
  ASSUME ListInv, NEW o \in DOMAIN objects,
         \/ AppendItem(o) \/ Prepend(o) \/ InsertItem(o) \/ GetSubSequence(o)
         \/ Concat(o) \/ MapItems(o) \/ Where(o) \/ Slice(o)
  PROVE  Performs(o, call')
BY AppendPerforms, PrependPerforms, InsertPerforms, SubSequencePerforms,
   ConcatPerforms, MapPerforms, WherePerforms, SlicePerforms

\* A constructor makes an object of the items it is given.
LEMMA ConstructMakes ==
  ASSUME ListInv, Construct
  PROVE  /\ call'.op = "new"
         /\ \E heap, list : Adds(heap, list) /\ ContentsIn(heap, list) = call'.args
<1>1. PICK class \in BOOLEAN, items \in Initial :
        Called("new", 0, items) /\ Make(class, items)
  BY DEF Construct
<1>2. items \in Seq(Item)
  BY ListSequenceAssumption
<1>3. call'.op = "new" /\ call'.args = items
  BY <1>1 DEF Called
<1> QED BY <1>1, <1>2, <1>3, MakeAdds

\* A copy has the items, whatever its class.
LEMMA CopyMakes ==
  ASSUME ListInv, NEW o \in DOMAIN objects, Copy(o)
  PROVE  /\ call'.op = "copy" /\ call'.object = o
         /\ \E heap, list :
              Adds(heap, list) /\ ContentsIn(heap, list) = Contents(objects[o])
<1>1. PICK class \in BOOLEAN :
        Called("copy", o, <<>>) /\ Make(class, Contents(objects[o]))
  BY DEF Copy
<1>2. Contents(objects[o]) \in Seq(Item)
  BY ContentsItems
<1>3. call'.op = "copy" /\ call'.object = o
  BY <1>1 DEF Called
<1> QED BY <1>1, <1>2, <1>3, MakeAdds

-----------------------------------------------------------------------------
(* The invariant.                                                          *)

\* The nodes of a list are in the heap.
LEMMA NodesInHeap ==
  ASSUME NEW heap \in Seq(Node), NEW list \in List, Linked(heap, list, ChainIn(heap, list))
  PROVE  NodesIn(heap, list) \subseteq 1..Len(heap)
<1>1. \A k \in 1..list.length : ChainIn(heap, list)[k] \in 1..Len(heap)
  BY LinkedFacts
<1> QED BY <1>1 DEF NodesIn

\* What has grown has not touched an object that has none of its own nodes.
LEMMA OthersKept ==
  ASSUME ListInv, NEW heap, NEW list, NEW own, Grown(heap, list, own),
         NEW p \in DOMAIN objects, own \cap NodesIn(nodes, objects[p]) = {}
  PROVE  /\ Linked(heap, objects[p], ChainIn(heap, objects[p]))
         /\ NodesIn(heap, objects[p]) = NodesIn(nodes, objects[p])
         /\ NodesIn(nodes, objects[p]) \subseteq 1..Len(nodes)
         /\ ContentsIn(heap, objects[p]) = Contents(objects[p])
         /\ ChainIn(heap, objects[p]) = ChainIn(nodes, objects[p])
<1> DEFINE x == objects[p]
           chain == ChainIn(nodes, x)
<1>1. nodes \in Seq(Node) /\ x \in List /\ Linked(nodes, x, chain)
  BY DEF ListInv, HeapOK, AllLinked
<1>2. /\ heap \in Seq(Node) /\ Len(nodes) <= Len(heap)
      /\ \A n \in 1..Len(nodes) : n \notin own => heap[n] = nodes[n]
  BY DEF Grown
<1>3. /\ Len(chain) = x.length
      /\ \A k \in 1..Len(chain) : chain[k] \in 1..Len(nodes)
  BY <1>1, LinkedFacts
<1>4. \A k \in 1..Len(chain) : heap[chain[k]] = nodes[chain[k]]
  <2>1. \A k \in 1..Len(chain) : chain[k] \in NodesIn(nodes, x)
    BY <1>3 DEF NodesIn
  <2> QED BY <1>2, <1>3, <2>1
<1>5. ContentsIn(nodes, x) = Contents(x)
  BY DEF ContentsIn, Contents
<1> HIDE DEF x, chain
<1>6. Linked(heap, x, chain) /\ ContentsIn(heap, x) = ContentsIn(nodes, x)
  BY <1>1, <1>2, <1>4, LinkedFrame
<1>7. ChainIn(heap, x) = chain
  BY <1>1, <1>2, <1>6, LinkedChain
<1>8. NodesIn(heap, x) = NodesIn(nodes, x)
  BY <1>7 DEF NodesIn, chain
<1>9. NodesIn(nodes, x) \subseteq 1..Len(nodes)
  BY <1>1, NodesInHeap DEF chain
<1>10. ChainIn(heap, x) = ChainIn(nodes, x)
  BY <1>7 DEF chain
<1> QED BY <1>5, <1>6, <1>7, <1>8, <1>9, <1>10 DEF x

\* A list that has grown has no node of an object that owns none of its own.
LEMMA GrownApart ==
  ASSUME ListInv, NEW heap, NEW list, NEW own, Grown(heap, list, own),
         NEW p \in DOMAIN objects, own \cap NodesIn(nodes, objects[p]) = {}
  PROVE  NodesIn(heap, list) \cap NodesIn(heap, objects[p]) = {}
<1>1. /\ NodesIn(heap, objects[p]) = NodesIn(nodes, objects[p])
      /\ NodesIn(nodes, objects[p]) \subseteq 1..Len(nodes)
  BY OthersKept
<1>2. \A n \in NodesIn(heap, list) : n \in own \/ n > Len(nodes)
  BY DEF Grown
<1>3. Len(nodes) \in Nat
  BY DEF ListInv, HeapOK
<1>4. \A n \in 1..Len(nodes) : ~(n > Len(nodes))
  BY <1>3
<1> QED BY <1>1, <1>2, <1>4

\* A new object.
LEMMA AddsKeeps ==
  ASSUME ListInv, NEW heap, NEW list, Adds(heap, list)
  PROVE  ListInv'
<1> DEFINE longer == Append(objects, list)
           size == Len(objects)
<1>1. Grown(heap, list, {}) /\ nodes' = heap /\ objects' = longer
  BY DEF Adds
<1>2. heap \in Seq(Node) /\ list \in List /\ Linked(heap, list, ChainIn(heap, list))
  BY <1>1 DEF Grown
<1>3. objects \in Seq(List) /\ size \in Nat /\ DOMAIN objects = 1..size
  BY DEF ListInv, HeapOK
<1>4. /\ longer \in Seq(List) /\ Len(longer) = size + 1 /\ longer[size + 1] = list
      /\ \A k \in 1..size : longer[k] = objects[k]
  BY <1>2, <1>3, AppendItems
<1>5. DOMAIN longer = 1..size + 1
  BY <1>4
<1> HIDE DEF longer, size
<1>6. ASSUME NEW p \in 1..size
      PROVE  /\ Linked(heap, longer[p], ChainIn(heap, longer[p]))
             /\ NodesIn(heap, longer[p]) = NodesIn(nodes, objects[p])
             /\ NodesIn(heap, list) \cap NodesIn(heap, longer[p]) = {}
  <2>1. longer[p] = objects[p] /\ p \in DOMAIN objects
    BY <1>3, <1>4
  <2>2. {} \cap NodesIn(nodes, objects[p]) = {}
    OBVIOUS
  <2>3. /\ Linked(heap, objects[p], ChainIn(heap, objects[p]))
        /\ NodesIn(heap, objects[p]) = NodesIn(nodes, objects[p])
    BY <1>1, <2>1, <2>2, OthersKept
  <2>4. NodesIn(heap, list) \cap NodesIn(heap, objects[p]) = {}
    BY <1>1, <2>1, <2>2, GrownApart
  <2> QED BY <2>1, <2>3, <2>4
<1>7. AllLinked(heap, longer)
  <2> SUFFICES ASSUME NEW o \in 1..size + 1
               PROVE  Linked(heap, longer[o], ChainIn(heap, longer[o]))
    BY <1>5 DEF AllLinked
  <2>1. o \in 1..size \/ o = size + 1
    BY <1>3
  <2> QED BY <1>2, <1>4, <1>6, <2>1
<1>8. Apart(heap, longer)
  <2> SUFFICES ASSUME NEW o \in 1..size + 1, NEW p \in 1..size + 1, o # p
               PROVE  NodesIn(heap, longer[o]) \cap NodesIn(heap, longer[p]) = {}
    BY <1>5 DEF Apart
  <2>1. CASE o \in 1..size /\ p \in 1..size
    <3>1. NodesIn(nodes, objects[o]) \cap NodesIn(nodes, objects[p]) = {}
      BY <1>3, <2>1 DEF ListInv, Apart
    <3> QED BY <1>6, <2>1, <3>1
  <2>2. CASE o \in 1..size /\ p = size + 1
    BY <1>4, <1>6, <2>2
  <2>3. CASE o = size + 1 /\ p \in 1..size
    BY <1>4, <1>6, <2>3
  <2>4. \/ o \in 1..size /\ p \in 1..size
        \/ o \in 1..size /\ p = size + 1
        \/ o = size + 1 /\ p \in 1..size
    BY <1>3
  <2> QED BY <2>1, <2>2, <2>3, <2>4
<1> QED BY <1>1, <1>2, <1>4, <1>7, <1>8 DEF ListInv, HeapOK

\* An object that is changed where it is.
LEMMA ChangeKeeps ==
  ASSUME ListInv, NEW o \in DOMAIN objects, NEW heap, NEW list,
         Grown(heap, list, NodesIn(nodes, objects[o])),
         nodes' = heap, objects' = [objects EXCEPT ![o] = list]
  PROVE  ListInv'
<1> DEFINE changed == [objects EXCEPT ![o] = list]
           own == NodesIn(nodes, objects[o])
<1>1. heap \in Seq(Node) /\ list \in List /\ Linked(heap, list, ChainIn(heap, list))
  BY DEF Grown
<1>2. objects \in Seq(List)
  BY DEF ListInv, HeapOK
<1>3. /\ changed \in Seq(List) /\ DOMAIN changed = DOMAIN objects
      /\ \A p \in DOMAIN objects : changed[p] = IF p = o THEN list ELSE objects[p]
  BY <1>1, <1>2
<1> HIDE DEF changed
<1>4. ASSUME NEW p \in DOMAIN objects, p # o
      PROVE  /\ Linked(heap, changed[p], ChainIn(heap, changed[p]))
             /\ NodesIn(heap, changed[p]) = NodesIn(nodes, objects[p])
             /\ NodesIn(heap, list) \cap NodesIn(heap, changed[p]) = {}
  <2>1. changed[p] = objects[p]
    BY <1>3, <1>4
  <2>2. own \cap NodesIn(nodes, objects[p]) = {}
    BY <1>4 DEF ListInv, Apart
  <2>3. /\ Linked(heap, objects[p], ChainIn(heap, objects[p]))
        /\ NodesIn(heap, objects[p]) = NodesIn(nodes, objects[p])
    BY <2>2, OthersKept
  <2>4. NodesIn(heap, list) \cap NodesIn(heap, objects[p]) = {}
    BY <2>2, GrownApart
  <2> QED BY <2>1, <2>3, <2>4
<1>5. changed[o] = list
  BY <1>3
<1>6. AllLinked(heap, changed)
  BY <1>1, <1>3, <1>4, <1>5 DEF AllLinked
<1>7. Apart(heap, changed)
  <2> SUFFICES ASSUME NEW p \in DOMAIN objects, NEW q \in DOMAIN objects, p # q
               PROVE  NodesIn(heap, changed[p]) \cap NodesIn(heap, changed[q]) = {}
    BY <1>3 DEF Apart
  <2>1. CASE p # o /\ q # o
    <3>1. NodesIn(nodes, objects[p]) \cap NodesIn(nodes, objects[q]) = {}
      BY DEF ListInv, Apart
    <3> QED BY <1>4, <2>1, <3>1
  <2>2. CASE p = o /\ q # o
    BY <1>4, <1>5, <2>2
  <2>3. CASE p # o /\ q = o
    BY <1>4, <1>5, <2>3
  <2> QED BY <2>1, <2>2, <2>3
<1>8. nodes' = heap /\ objects' = changed
  BY DEF changed
<1> QED BY <1>1, <1>3, <1>6, <1>7, <1>8 DEF ListInv, HeapOK

LEMMA PerformsKeeps ==
  ASSUME ListInv, NEW o \in DOMAIN objects, NEW c, Performs(o, c)
  PROVE  ListInv'
<1>1. CASE Rejects(o, c)
  BY <1>1 DEF Rejects, ListInv, HeapOK
<1>2. CASE Changes(o, c)
  BY <1>2, ChangeKeeps DEF Changes
<1>3. CASE Makes(o, c)
  BY <1>3, AddsKeeps DEF Makes
<1> QED BY <1>1, <1>2, <1>3 DEF Performs

LEMMA InitLinked == Init => ListInv
BY DEF Init, ListInv, HeapOK, AllLinked, Apart

LEMMA NextLinked == ListInv /\ [Next]_vars => ListInv'
<1> SUFFICES ASSUME ListInv, [Next]_vars PROVE ListInv'
  OBVIOUS
<1>1. CASE Construct
  BY <1>1, ConstructMakes, AddsKeeps
<1>2. ASSUME NEW o \in DOMAIN objects, Copy(o) PROVE ListInv'
  BY <1>2, CopyMakes, AddsKeeps
<1>3. ASSUME NEW o \in DOMAIN objects,
             \/ AppendItem(o) \/ Prepend(o) \/ InsertItem(o) \/ GetSubSequence(o)
             \/ Concat(o) \/ MapItems(o) \/ Where(o) \/ Slice(o)
      PROVE  ListInv'
  <2>1. Performs(o, call')
    BY <1>3, OperationPerforms
  <2> QED BY <2>1, PerformsKeeps
<1>4. ASSUME UNCHANGED <<nodes, objects>> PROVE ListInv'
  BY <1>4 DEF ListInv, HeapOK
<1>5. ASSUME NEW o \in DOMAIN objects, GetEnumerator(o) PROVE ListInv'
  BY <1>4, <1>5 DEF GetEnumerator
<1>6. CASE MoveNext
  BY <1>4, <1>6 DEF MoveNext
<1>7. CASE Return
  BY <1>4, <1>7 DEF Return
<1>8. CASE UNCHANGED vars
  BY <1>4, <1>8 DEF vars
<1> QED BY <1>1, <1>2, <1>3, <1>5, <1>6, <1>7, <1>8 DEF Next

LEMMA LinkedInvariant == Spec => []ListInv
<1> QED BY InitLinked, NextLinked, PTL DEF Spec

(* Every list is one chain: as many nodes as it counts, from its head to   *)
(* its tail, no node twice and none of another object.  Whatever is called *)
(* on objects of either class, in any order and with any arguments, no     *)
(* insertion loses the tail, closes a cycle or relinks a node that another *)
(* object has (core/linked_list.h, core/list_sequence.h).                  *)
THEOREM ListSequenceChains == Spec => []ChainsOK
<1>1. ListInv => ChainsOK
  <2> SUFFICES ASSUME ListInv PROVE ChainsOK
    OBVIOUS
  <2>1. nodes \in Seq(Node) /\ objects \in Seq(List) /\ DOMAIN nodes = 1..Len(nodes)
    BY DEF ListInv, HeapOK
  <2>2. ASSUME NEW o \in DOMAIN objects
        PROVE  /\ ToSet(Chain(objects[o])) = NodesIn(nodes, objects[o])
               /\ NodesIn(nodes, objects[o]) \subseteq DOMAIN nodes
               /\ IsInjective(Chain(objects[o]))
               /\ NodeAt(nodes, objects[o], objects[o].length) = 0
               /\ objects[o].tail = IF objects[o].length = 0 THEN 0
                                    ELSE NodeAt(nodes, objects[o], objects[o].length - 1)
    <3> DEFINE list == objects[o]
               chain == ChainIn(nodes, list)
    <3>1. list \in List /\ Linked(nodes, list, chain)
      BY <2>1 DEF ListInv, AllLinked
    <3>2. Chain(list) = chain
      BY DEF Chain, ChainIn
    <3> HIDE DEF list, chain
    <3>3. NodeAt(nodes, list, list.length) = 0
      BY <2>1, <3>1, LinkedChain
    <3>4. /\ chain \in Seq(Nat) /\ Len(chain) = list.length /\ list.length \in Nat
          /\ \A j, k \in 1..Len(chain) : chain[j] = chain[k] => j = k
          /\ list.tail = IF Len(chain) = 0 THEN 0 ELSE chain[Len(chain)]
      BY <3>1 DEF Linked, List
    <3>5. DOMAIN chain = 1..list.length
      BY <3>4
    <3>6. ToSet(chain) = NodesIn(nodes, list)
      BY <3>5 DEF ToSet, NodesIn, chain
    <3>7. IsInjective(chain)
      BY <3>4, <3>5 DEF IsInjective
    <3>8. NodesIn(nodes, list) \subseteq 1..Len(nodes)
      BY <2>1, <3>1, NodesInHeap DEF chain
    <3>9. list.length # 0 => chain[list.length] = NodeAt(nodes, list, list.length - 1)
      BY <3>4 DEF ChainIn, chain
    <3>10. list.tail = IF list.length = 0 THEN 0 ELSE NodeAt(nodes, list, list.length - 1)
      BY <3>4, <3>9
    <3> QED BY <2>1, <3>2, <3>3, <3>6, <3>7, <3>8, <3>10 DEF list
  <2>3. Apart(nodes, objects)
    BY DEF ListInv
  <2> QED BY <2>2, <2>3 DEF ChainsOK, Apart
<1> QED BY <1>1, LinkedInvariant, PTL

-----------------------------------------------------------------------------
(* The refinement.                                                         *)

\* What the abstract specification knows of the objects in a heap.
ValuesIn(heap, objs) == [o \in DOMAIN objs |-> ContentsIn(heap, objs[o])]

ClassesOf(objs) == [o \in DOMAIN objs |-> objs[o].mutable]

\* The values of the objects there are.
LEMMA ValuesOfObjects ==
  ASSUME HeapOK
  PROVE  /\ ValuesIn(nodes, objects) = [o \in DOMAIN objects |-> Contents(objects[o])]
         /\ \A o \in DOMAIN objects : ValuesIn(nodes, objects)[o] = Contents(objects[o])
         /\ DOMAIN ValuesIn(nodes, objects) = DOMAIN objects
         /\ DOMAIN ClassesOf(objects) = DOMAIN objects
         /\ \A o \in DOMAIN objects : ClassesOf(objects)[o] = objects[o].mutable
<1>1. \A o \in DOMAIN objects : ContentsIn(nodes, objects[o]) = Contents(objects[o])
  BY DEF ContentsIn, Contents
<1> QED BY <1>1 DEF ValuesIn, ClassesOf

LEMMA ValuesType ==
  ASSUME NEW heap \in Seq(Node), NEW objs \in Seq(List), AllLinked(heap, objs)
  PROVE  /\ ValuesIn(heap, objs) \in Seq(Seq(Item)) /\ Len(ValuesIn(heap, objs)) = Len(objs)
         /\ \A o \in 1..Len(objs) : ValuesIn(heap, objs)[o] = ContentsIn(heap, objs[o])
         /\ ClassesOf(objs) \in Seq(BOOLEAN) /\ Len(ClassesOf(objs)) = Len(objs)
         /\ \A o \in 1..Len(objs) : ClassesOf(objs)[o] = objs[o].mutable
<1>1. DOMAIN objs = 1..Len(objs) /\ Len(objs) \in Nat
  OBVIOUS
<1>2. ASSUME NEW o \in 1..Len(objs)
      PROVE  ContentsIn(heap, objs[o]) \in Seq(Item) /\ objs[o].mutable \in BOOLEAN
  <2>1. objs[o] \in List /\ Linked(heap, objs[o], ChainIn(heap, objs[o]))
    BY <1>1 DEF AllLinked
  <2>2. ContentsIn(heap, objs[o]) \in Seq(Item)
    BY <2>1, LinkedChain
  <2> QED BY <2>1, <2>2 DEF List
<1>3. /\ ValuesIn(heap, objs) \in Seq(Seq(Item)) /\ Len(ValuesIn(heap, objs)) = Len(objs)
      /\ \A o \in 1..Len(objs) : ValuesIn(heap, objs)[o] = ContentsIn(heap, objs[o])
  BY <1>1, <1>2 DEF ValuesIn
<1>4. /\ ClassesOf(objs) \in Seq(BOOLEAN) /\ Len(ClassesOf(objs)) = Len(objs)
      /\ \A o \in 1..Len(objs) : ClassesOf(objs)[o] = objs[o].mutable
  BY <1>1, <1>2 DEF ClassesOf
<1> QED BY <1>3, <1>4

\* A sequence that has the items of another and one more.
LEMMA IsAppended ==
  ASSUME NEW S, NEW s \in Seq(S), NEW t \in Seq(S), NEW e \in S, Len(t) = Len(s) + 1,
         \A k \in 1..Len(s) : t[k] = s[k], t[Len(s) + 1] = e
  PROVE  t = Append(s, e)
OBVIOUS

\* A new object is a new value and a new class; no other value has changed.
LEMMA AddsValue ==
  ASSUME ListInv, ListInv', NEW heap, NEW list, Adds(heap, list)
  PROVE  /\ ValuesIn(nodes', objects') = Append(ValuesIn(nodes, objects), ContentsIn(heap, list))
         /\ ClassesOf(objects') = Append(ClassesOf(objects), list.mutable)
         /\ list.mutable \in BOOLEAN
<1> DEFINE longer == Append(objects, list)
           size == Len(objects)
           Line == Seq(Item)
           new == ContentsIn(heap, list)
           values == ValuesIn(nodes, objects)
           after == ValuesIn(heap, longer)
           classes == ClassesOf(objects)
           classesAfter == ClassesOf(longer)
           Class == BOOLEAN
<1>1. Grown(heap, list, {}) /\ nodes' = heap /\ objects' = longer
  BY DEF Adds
<1>2. heap \in Seq(Node) /\ list \in List /\ Linked(heap, list, ChainIn(heap, list))
  BY <1>1 DEF Grown
<1>3. /\ nodes \in Seq(Node) /\ objects \in Seq(List) /\ size \in Nat
      /\ DOMAIN objects = 1..size /\ AllLinked(nodes, objects)
  BY DEF ListInv, HeapOK
<1>4. /\ longer \in Seq(List) /\ Len(longer) = size + 1 /\ longer[size + 1] = list
      /\ \A k \in 1..size : longer[k] = objects[k]
  BY <1>2, <1>3, AppendItems
<1>5. AllLinked(heap, longer)
  <2>1. AllLinked(nodes', objects')
    BY DEF ListInv, AllLinked
  <2> HIDE DEF longer
  <2> QED BY <1>1, <2>1
<1> HIDE DEF longer
<1>6. new \in Line /\ list.mutable \in Class
  <2>1. new \in Line
    BY <1>2, LinkedChain
  <2> QED BY <1>2, <2>1 DEF List
<1>7. /\ values \in Seq(Line) /\ Len(values) = size
      /\ \A o \in 1..size : values[o] = ContentsIn(nodes, objects[o])
      /\ classes \in Seq(Class) /\ Len(classes) = size
      /\ \A o \in 1..size : classes[o] = objects[o].mutable
  BY <1>3, ValuesType
<1>8. /\ after \in Seq(Line) /\ Len(after) = size + 1
      /\ \A o \in 1..size + 1 : after[o] = ContentsIn(heap, longer[o])
      /\ classesAfter \in Seq(Class) /\ Len(classesAfter) = size + 1
      /\ \A o \in 1..size + 1 : classesAfter[o] = longer[o].mutable
  BY <1>2, <1>4, <1>5, ValuesType
<1> HIDE DEF size, Line, new, values, after, classes, classesAfter, Class
<1>9. ASSUME NEW o \in 1..size PROVE after[o] = values[o]
  <2>1. o \in DOMAIN objects /\ {} \cap NodesIn(nodes, objects[o]) = {}
    BY <1>3
  <2>2. ContentsIn(heap, objects[o]) = Contents(objects[o])
    BY <1>1, <2>1, OthersKept
  <2>3. ContentsIn(nodes, objects[o]) = Contents(objects[o])
    BY DEF ContentsIn, Contents
  <2>4. o \in 1..size + 1
    BY <1>3
  <2> QED BY <1>4, <1>7, <1>8, <2>2, <2>3, <2>4
<1>10. after[size + 1] = new
  <2>1. size + 1 \in 1..size + 1
    BY <1>3
  <2> QED BY <1>4, <1>8, <2>1 DEF new
<1>11. after = Append(values, new)
  BY <1>6, <1>7, <1>8, <1>9, <1>10, IsAppended
<1> DEFINE class == list.mutable
<1>12. class \in Class /\ \A o \in 1..size : classesAfter[o] = classes[o]
  <2>1. ASSUME NEW o \in 1..size PROVE classesAfter[o] = classes[o]
    <3>1. o \in 1..size + 1
      BY <1>3
    <3>2. classesAfter[o] = longer[o].mutable /\ longer[o] = objects[o]
      BY <1>4, <1>8, <3>1
    <3> QED BY <1>7, <3>2
  <2> QED BY <1>6, <2>1
<1>13. classesAfter[size + 1] = class
  <2>1. size + 1 \in 1..size + 1
    BY <1>3
  <2> QED BY <1>4, <1>8, <2>1
<1> HIDE DEF class
<1>14. classesAfter = Append(classes, class)
  BY <1>7, <1>8, <1>12, <1>13, IsAppended
<1> QED BY <1>1, <1>6, <1>11, <1>14 DEF after, values, new, classesAfter, classes, class, Class

\* A changed object is a changed value; nothing else has changed.
LEMMA ChangesValue ==
  ASSUME ListInv, NEW o \in DOMAIN objects, NEW heap, NEW list,
         Grown(heap, list, NodesIn(nodes, objects[o])), list.mutable = objects[o].mutable,
         nodes' = heap, objects' = [objects EXCEPT ![o] = list]
  PROVE  /\ ValuesIn(nodes', objects')
              = [ValuesIn(nodes, objects) EXCEPT ![o] = ContentsIn(heap, list)]
         /\ ClassesOf(objects') = ClassesOf(objects)
<1> DEFINE changed == [objects EXCEPT ![o] = list]
<1>1. /\ DOMAIN changed = DOMAIN objects
      /\ \A p \in DOMAIN objects : changed[p] = IF p = o THEN list ELSE objects[p]
  OBVIOUS
<1>2. nodes' = heap /\ objects' = changed
  OBVIOUS
<1> HIDE DEF changed
<1>3. ASSUME NEW p \in DOMAIN objects, p # o
      PROVE  ContentsIn(heap, objects[p]) = ContentsIn(nodes, objects[p])
  <2>1. NodesIn(nodes, objects[o]) \cap NodesIn(nodes, objects[p]) = {}
    BY <1>3 DEF ListInv, Apart
  <2>2. ContentsIn(heap, objects[p]) = Contents(objects[p])
    BY <2>1, <1>3, OthersKept
  <2>3. ContentsIn(nodes, objects[p]) = Contents(objects[p])
    BY DEF ContentsIn, Contents
  <2> QED BY <2>2, <2>3
<1>4. ValuesIn(heap, changed) = [ValuesIn(nodes, objects) EXCEPT ![o] = ContentsIn(heap, list)]
  <2>1. \A p \in DOMAIN objects :
          ContentsIn(heap, changed[p]) = IF p = o THEN ContentsIn(heap, list)
                                         ELSE ContentsIn(nodes, objects[p])
    BY <1>1, <1>3
  <2> QED BY <1>1, <2>1 DEF ValuesIn
<1>5. ClassesOf(changed) = ClassesOf(objects)
  <2>1. \A p \in DOMAIN objects : changed[p].mutable = objects[p].mutable
    BY <1>1
  <2> QED BY <1>1, <2>1 DEF ClassesOf
<1> QED BY <1>2, <1>4, <1>5

\* The abstract specification's view of the objects after a step.
LEMMA ValuesAfter ==
  /\ [o \in DOMAIN objects |-> Contents(objects[o])]' = ValuesIn(nodes', objects')
  /\ [o \in DOMAIN objects |-> objects[o].mutable]' = ClassesOf(objects')
  /\ [o \in DOMAIN objects |-> Contents(objects[o])] = ValuesIn(nodes, objects)
  /\ [o \in DOMAIN objects |-> objects[o].mutable] = ClassesOf(objects)
BY DEF ValuesIn, ClassesOf, Contents, ContentsIn

\* A constructor does what it promises.
LEMMA ConstructSimulates ==
  ASSUME ListInv, ListInv', NEW heap, NEW list, Adds(heap, list),
         \/ call'.op = "new" /\ ContentsIn(heap, list) = call'.args
         \/ /\ call'.op = "copy" /\ call'.object \in DOMAIN objects
            /\ ContentsIn(heap, list) = Contents(objects[call'.object])
  PROVE  Values!Construct
<1> DEFINE values == ValuesIn(nodes, objects)
           classes == ClassesOf(objects)
<1>1. /\ ValuesIn(nodes', objects') = Append(values, ContentsIn(heap, list))
      /\ ClassesOf(objects') = Append(classes, list.mutable)
      /\ list.mutable \in BOOLEAN
  BY AddsValue
<1>2. /\ DOMAIN values = DOMAIN objects
      /\ \A o \in DOMAIN objects : values[o] = Contents(objects[o])
  BY ValuesOfObjects DEF ListInv
<1> HIDE DEF values, classes
<1>3. \E class \in BOOLEAN : ClassesOf(objects') = Append(classes, class)
  BY <1>1
<1>4. \/ call'.op = "new" /\ ValuesIn(nodes', objects') = Append(values, call'.args)
      \/ /\ call'.op = "copy" /\ call'.object \in DOMAIN values
         /\ ValuesIn(nodes', objects') = Append(values, values[call'.object])
  BY <1>1, <1>2
<1> QED BY <1>3, <1>4, ValuesAfter DEF Values!Construct, values, classes

\* A call that is performed has the outcome that the specification names.
LEMMA PerformsSimulates ==
  ASSUME ListInv, ListInv', NEW o \in DOMAIN objects, Performs(o, call')
  PROVE  Values!Operate
<1> DEFINE values == ValuesIn(nodes, objects)
           classes == ClassesOf(objects)
           valuesAfter == ValuesIn(nodes', objects')
           classesAfter == ClassesOf(objects')
           value == Contents(objects[o])
           result == Values!Result(value, call')
<1>1. /\ nodes \in Seq(Node) /\ objects \in Seq(List) /\ AllLinked(nodes, objects)
      /\ Len(objects) \in Nat
  BY DEF ListInv, HeapOK
<1>2. /\ DOMAIN values = DOMAIN objects /\ values[o] = value
      /\ DOMAIN classes = DOMAIN objects /\ classes[o] = objects[o].mutable
  BY ValuesOfObjects DEF ListInv
<1>3. values \in Seq(Seq(Item)) /\ Len(values) = Len(objects)
  BY <1>1, ValuesType
<1>4. call'.object = o /\ call'.op \notin {"new", "copy", "none"}
  BY DEF Performs
<1> DEFINE Outcome == CASE ~Values!Accepted(value, call') -> values
                        [] Values!Accepted(value, call') /\ call'.op \in Values!Updates /\ classes[o] ->
                             [values EXCEPT ![o] = result]
                        [] OTHER -> Append(values, result)
<1>5. Values!Outcome(call') = Outcome
  BY <1>2, <1>4, ValuesAfter DEF Values!Outcome
<1>6. /\ valuesAfter = Outcome
      /\ classesAfter = IF Len(valuesAfter) = Len(values) THEN classes
                        ELSE Append(classes, classes[o])
  <2>1. CASE Rejects(o, call')
    <3>1. valuesAfter = values /\ classesAfter = classes
      BY <2>1 DEF Rejects
    <3>2. ~Values!Accepted(value, call')
      BY <2>1 DEF Rejects
    <3> HIDE DEF values, classes, valuesAfter, classesAfter, value, result
    <3> QED BY <3>1, <3>2
  <2>2. CASE Changes(o, call')
    <3>1. PICK heap, list :
            /\ Grown(heap, list, NodesIn(nodes, objects[o]))
            /\ list.mutable = objects[o].mutable
            /\ ContentsIn(heap, list) = result
            /\ nodes' = heap /\ objects' = [objects EXCEPT ![o] = list]
      BY <2>2 DEF Changes
    <3>2. Values!Accepted(value, call') /\ call'.op \in Values!Updates /\ objects[o].mutable
      BY <2>2 DEF Changes
    <3>3. valuesAfter = [values EXCEPT ![o] = ContentsIn(heap, list)] /\ classesAfter = classes
      BY <3>1, ChangesValue
    <3>4. classes[o]
      BY <1>2, <3>2
    <3>5. valuesAfter = [values EXCEPT ![o] = result]
      BY <3>1, <3>3
    <3>6. Len(valuesAfter) = Len(values)
      <4> HIDE DEF values, valuesAfter, result
      <4> QED BY <1>3, <3>5
    <3> HIDE DEF values, classes, valuesAfter, classesAfter, value, result
    <3> QED BY <3>2, <3>3, <3>4, <3>5, <3>6
  <2>3. CASE Makes(o, call')
    <3>1. PICK heap, list :
            /\ Adds(heap, list) /\ list.mutable = objects[o].mutable
            /\ ContentsIn(heap, list) = result
      BY <2>3 DEF Makes
    <3>2. Values!Accepted(value, call') /\ ~(call'.op \in Values!Updates /\ objects[o].mutable)
      BY <2>3 DEF Makes
    <3>3. /\ valuesAfter = Append(values, ContentsIn(heap, list))
          /\ classesAfter = Append(classes, list.mutable)
      BY <3>1, AddsValue
    <3>4. valuesAfter = Append(values, result) /\ classesAfter = Append(classes, classes[o])
      BY <1>2, <3>1, <3>3
    <3>5. ~(call'.op \in Values!Updates /\ classes[o])
      BY <1>2, <3>2
    <3>6. result \in Seq(Item)
      <4>1. Grown(heap, list, {})
        BY <3>1 DEF Adds
      <4>2. heap \in Seq(Node) /\ list \in List /\ Linked(heap, list, ChainIn(heap, list))
        BY <4>1 DEF Grown
      <4>3. ContentsIn(heap, list) \in Seq(Item)
        BY <4>2, LinkedChain
      <4> QED BY <3>1, <4>3
    <3>7. Len(valuesAfter) # Len(values)
      <4> DEFINE Line == Seq(Item)
      <4>1. values \in Seq(Line) /\ result \in Line /\ Len(values) \in Nat
        BY <1>1, <1>3, <3>6
      <4> HIDE DEF Line, values, valuesAfter, result
      <4>2. Len(valuesAfter) = Len(values) + 1
        BY <3>4, <4>1, AppendItems
      <4> QED BY <4>1, <4>2
    <3> HIDE DEF values, classes, valuesAfter, classesAfter, value, result
    <3> QED BY <3>2, <3>4, <3>5, <3>7
  <2> QED BY <2>1, <2>2, <2>3 DEF Performs
<1>7. valuesAfter = Values!Outcome(call')
  BY <1>5, <1>6
<1> HIDE DEF Outcome, values, classes, valuesAfter, classesAfter
<1>8. /\ call'.op \notin {"new", "copy", "none"} /\ call'.object \in DOMAIN values
      /\ valuesAfter = Values!Outcome(call')
      /\ classesAfter = IF Len(valuesAfter) = Len(values) THEN classes
                        ELSE Append(classes, classes[call'.object])
  BY <1>2, <1>4, <1>6, <1>7
<1> QED BY <1>8, ValuesAfter DEF Values!Operate, values, classes, valuesAfter, classesAfter

\* Every step is a step of the specification or changes nothing that it sees.
LEMMA StepSimulates ==
  ListInv /\ ListInv' /\ [Next]_vars
    => [Values!Construct \/ Values!Operate \/ Values!Return]_<<
          [o \in DOMAIN objects |-> Contents(objects[o])],
          [o \in DOMAIN objects |-> objects[o].mutable], call>>
<1> SUFFICES ASSUME ListInv, ListInv', [Next]_vars
             PROVE  \/ Values!Construct \/ Values!Operate \/ Values!Return
                    \/ UNCHANGED <<nodes, objects, call>>
  BY ValuesAfter
<1>1. CASE Construct
  <2>1. /\ call'.op = "new"
        /\ \E heap, list : Adds(heap, list) /\ ContentsIn(heap, list) = call'.args
    BY <1>1, ConstructMakes
  <2> QED BY <2>1, ConstructSimulates
<1>2. ASSUME NEW o \in DOMAIN objects, Copy(o) PROVE Values!Construct
  <2>1. /\ call'.op = "copy" /\ call'.object = o
        /\ \E heap, list :
             Adds(heap, list) /\ ContentsIn(heap, list) = Contents(objects[o])
    BY <1>2, CopyMakes
  <2> QED BY <2>1, ConstructSimulates
<1>3. ASSUME NEW o \in DOMAIN objects,
             \/ AppendItem(o) \/ Prepend(o) \/ InsertItem(o) \/ GetSubSequence(o)
             \/ Concat(o) \/ MapItems(o) \/ Where(o) \/ Slice(o)
      PROVE  Values!Operate
  BY <1>3, OperationPerforms, PerformsSimulates
<1>4. ASSUME NEW o \in DOMAIN objects, GetEnumerator(o)
      PROVE  UNCHANGED <<nodes, objects, call>>
  BY <1>4 DEF GetEnumerator
<1>5. CASE MoveNext
  BY <1>5 DEF MoveNext
<1>6. CASE Return
  BY <1>6, ValuesAfter DEF Return, NoCall, Values!Return, Values!NoCall
<1>7. CASE UNCHANGED vars
  BY <1>7 DEF vars
<1> QED BY <1>1, <1>2, <1>3, <1>4, <1>5, <1>6, <1>7 DEF Next

(* Whatever is called in whatever order, the objects have the values that  *)
(* sequence.h promises, each of the class it was made of: a mutable object *)
(* takes an update, an immutable one makes another object and stays as it  *)
(* is, and no linking, sharing or walking of list_sequence.h shows.        *)
THEOREM ListSequenceImplements == Spec => ImplementsSequence
<1>1. Init => Values!Init
  BY DEF Init, Values!Init, NoCall, Values!NoCall
<1>2. ListInv /\ ListInv' /\ [Next]_vars
        => [Values!Construct \/ Values!Operate \/ Values!Return]_<<
              [o \in DOMAIN objects |-> Contents(objects[o])],
              [o \in DOMAIN objects |-> objects[o].mutable], call>>
  BY StepSimulates
<1> QED BY <1>1, <1>2, LinkedInvariant, PTL DEF Spec, ImplementsSequence, Values!Spec

-----------------------------------------------------------------------------
(* Enumerations.  The nodes of a list keep their order, so that a pass,    *)
(* which goes on from a node to the next, leaves none of those behind that *)
(* were there when it began.                                               *)

\* The nodes of a sequence are nodes of the chain, in its order.
InOrder(chain, s) ==
  /\ s \in Seq(Nat)
  /\ \A k \in 1..Len(s) : \E i \in 1..Len(chain) : chain[i] = s[k]
  /\ \A j, k \in 1..Len(s) : j < k => Comes(chain, s[j], s[k])

(* A pass that is on a node has visited nodes up to it in the order of the *)
(* chain; a node that was there at its beginning was visited, or is still  *)
(* to come.                                                                *)
Passing(chain, c) ==
  /\ InOrder(chain, c.visited) /\ InOrder(chain, c.present)
  /\ c.visited # <<>> /\ c.visited[Len(c.visited)] = c.current
  /\ \A k \in 1..Len(c.present) :
       \/ \E j \in 1..Len(c.visited) : c.visited[j] = c.present[k]
       \/ Comes(chain, c.current, c.present[k])

Enumerates(chain, c) ==
  /\ c.head = 0 \/ \E i \in 1..Len(chain) : chain[i] = c.head
  /\ IF c.current = 0 THEN c.visited = <<>> ELSE Passing(chain, c)

CursorOK ==
  cursor # <<>> =>
    /\ cursor = <<cursor[1]>> /\ cursor[1].object \in DOMAIN objects
    /\ Enumerates(ChainIn(nodes, objects[cursor[1].object]), cursor[1])

EnumerationInv == ListInv /\ CursorOK /\ made \in Nat

\* In a chain without repetition, nodes come one after another.
LEMMA ComesOrders ==
  ASSUME NEW chain \in Seq(Nat),
         \A j, k \in 1..Len(chain) : chain[j] = chain[k] => j = k
  PROVE  /\ \A m, n : ~(Comes(chain, m, n) /\ Comes(chain, n, m))
         /\ \A m, n, p : Comes(chain, m, n) /\ Comes(chain, n, p) => Comes(chain, m, p)
<1>1. DOMAIN chain = 1..Len(chain) /\ Len(chain) \in Nat
  OBVIOUS
<1>2. ASSUME NEW m, NEW n, Comes(chain, m, n), Comes(chain, n, m) PROVE FALSE
  <2>1. PICK i \in 1..Len(chain), j \in 1..Len(chain) : i < j /\ chain[i] = m /\ chain[j] = n
    BY <1>1, <1>2 DEF Comes
  <2>2. PICK k \in 1..Len(chain), l \in 1..Len(chain) : k < l /\ chain[k] = n /\ chain[l] = m
    BY <1>1, <1>2 DEF Comes
  <2>3. j = k /\ i = l
    BY <2>1, <2>2
  <2> QED BY <1>1, <2>1, <2>2, <2>3
<1>3. ASSUME NEW m, NEW n, NEW p, Comes(chain, m, n), Comes(chain, n, p)
      PROVE  Comes(chain, m, p)
  <2>1. PICK i \in 1..Len(chain), j \in 1..Len(chain) : i < j /\ chain[i] = m /\ chain[j] = n
    BY <1>1, <1>3 DEF Comes
  <2>2. PICK k \in 1..Len(chain), l \in 1..Len(chain) : k < l /\ chain[k] = n /\ chain[l] = p
    BY <1>1, <1>3 DEF Comes
  <2>3. j = k
    BY <2>1, <2>2
  <2>4. i < l
    BY <1>1, <2>1, <2>2, <2>3
  <2> QED BY <1>1, <2>1, <2>2, <2>4 DEF Comes
<1> QED BY <1>2, <1>3

\* A pass does not mind nodes that are inserted.
LEMMA EnumeratesLonger ==
  ASSUME NEW chain, NEW longer, Keeps(chain, longer), NEW c, Enumerates(chain, c)
  PROVE  Enumerates(longer, c)
<1>1. ASSUME NEW s, InOrder(chain, s) PROVE InOrder(longer, s)
  BY <1>1 DEF InOrder, Keeps
<1>2. ASSUME c.head # 0 PROVE \E i \in 1..Len(longer) : longer[i] = c.head
  BY <1>2 DEF Keeps, Enumerates
<1>3. ASSUME Passing(chain, c) PROVE Passing(longer, c)
  BY <1>1, <1>3 DEF Passing, Keeps
<1> QED BY <1>2, <1>3 DEF Enumerates

LEMMA KeepsSame ==
  ASSUME NEW chain PROVE Keeps(chain, chain)
BY DEF Keeps

\* What the objects there were have kept of their chains.
ChainsKept ==
  \A o \in DOMAIN objects :
    /\ o \in DOMAIN objects'
    /\ Keeps(ChainIn(nodes, objects[o]), ChainIn(nodes', objects'[o]))

LEMMA AddsKeepsChains ==
  ASSUME ListInv, NEW heap, NEW list, Adds(heap, list)
  PROVE  ChainsKept
<1>1. Grown(heap, list, {}) /\ nodes' = heap /\ objects' = Append(objects, list)
  BY DEF Adds
<1>2. objects \in Seq(List) /\ list \in List
  BY <1>1 DEF ListInv, HeapOK, Grown
<1>3. ASSUME NEW o \in DOMAIN objects
      PROVE  /\ o \in DOMAIN objects'
             /\ Keeps(ChainIn(nodes, objects[o]), ChainIn(nodes', objects'[o]))
  <2>1. o \in DOMAIN objects' /\ objects'[o] = objects[o]
    BY <1>1, <1>2
  <2>2. {} \cap NodesIn(nodes, objects[o]) = {}
    OBVIOUS
  <2>3. ChainIn(heap, objects[o]) = ChainIn(nodes, objects[o])
    BY <1>1, <2>2, OthersKept
  <2>4. ChainIn(nodes', objects'[o]) = ChainIn(nodes, objects[o])
    BY <1>1, <2>1, <2>3
  <2> QED BY <2>1, <2>4, KeepsSame
<1> QED BY <1>3 DEF ChainsKept

LEMMA ChangeKeepsChains ==
  ASSUME ListInv, NEW o \in DOMAIN objects, NEW c, Changes(o, c)
  PROVE  ChainsKept
<1>1. PICK heap, list :
        /\ Grown(heap, list, NodesIn(nodes, objects[o]))
        /\ Keeps(ChainIn(nodes, objects[o]), ChainIn(heap, list))
        /\ nodes' = heap /\ objects' = [objects EXCEPT ![o] = list]
  BY DEF Changes
<1>2. objects \in Seq(List) /\ list \in List
  BY <1>1 DEF ListInv, HeapOK, Grown
<1>3. ASSUME NEW p \in DOMAIN objects
      PROVE  /\ p \in DOMAIN objects'
             /\ Keeps(ChainIn(nodes, objects[p]), ChainIn(nodes', objects'[p]))
  <2>1. p \in DOMAIN objects' /\ objects'[p] = IF p = o THEN list ELSE objects[p]
    BY <1>1, <1>2
  <2>2. CASE p = o
    BY <1>1, <2>1, <2>2
  <2>3. CASE p # o
    <3>1. NodesIn(nodes, objects[o]) \cap NodesIn(nodes, objects[p]) = {}
      BY <2>3 DEF ListInv, Apart
    <3>2. ChainIn(heap, objects[p]) = ChainIn(nodes, objects[p])
      BY <1>1, <3>1, OthersKept
    <3>3. ChainIn(nodes', objects'[p]) = ChainIn(nodes, objects[p])
      BY <1>1, <2>1, <2>3, <3>2
    <3> QED BY <2>1, <3>3, KeepsSame
  <2> QED BY <2>2, <2>3
<1> QED BY <1>3 DEF ChainsKept

LEMMA PerformsKeepsChains ==
  ASSUME ListInv, NEW o \in DOMAIN objects, NEW c, Performs(o, c)
  PROVE  ChainsKept
<1>1. CASE Rejects(o, c)
  BY <1>1, KeepsSame DEF Rejects, ChainsKept
<1>2. CASE Changes(o, c)
  BY <1>2, ChangeKeepsChains
<1>3. CASE Makes(o, c)
  BY <1>3, AddsKeepsChains DEF Makes
<1> QED BY <1>1, <1>2, <1>3 DEF Performs

\* The enumerator in use, if chains keep their nodes and it stays where it is.
LEMMA CursorKept ==
  ASSUME CursorOK, ChainsKept, cursor' = cursor
  PROVE  CursorOK'
<1> DEFINE c == cursor[1]
           o == c.object
<1>1. SUFFICES ASSUME cursor # <<>>
               PROVE  /\ cursor = <<c>> /\ o \in DOMAIN objects'
                      /\ Enumerates(ChainIn(nodes', objects'[o]), c)
  BY DEF CursorOK
<1>2. cursor = <<c>> /\ o \in DOMAIN objects /\ Enumerates(ChainIn(nodes, objects[o]), c)
  BY <1>1 DEF CursorOK
<1>3. /\ o \in DOMAIN objects'
      /\ Keeps(ChainIn(nodes, objects[o]), ChainIn(nodes', objects'[o]))
  BY <1>2 DEF ChainsKept
<1> HIDE DEF c, o
<1> QED BY <1>2, <1>3, EnumeratesLonger

\* An operation does not touch the enumerator.
LEMMA OperationsLeaveCursor ==
  ASSUME \/ Construct
         \/ \E o \in DOMAIN objects :
              \/ Copy(o) \/ AppendItem(o) \/ Prepend(o) \/ InsertItem(o)
              \/ GetSubSequence(o) \/ Concat(o) \/ MapItems(o) \/ Where(o) \/ Slice(o)
         \/ Return
  PROVE  cursor' = cursor /\ made' = made
<1>1. ASSUME NEW o, NEW m, Update(o, m) PROVE cursor' = cursor /\ made' = made
  BY <1>1 DEF Update, NewObject
<1>2. ASSUME NEW class, NEW items, Make(class, items) PROVE cursor' = cursor /\ made' = made
  BY <1>2 DEF Make, NewObject
<1>3. CASE Construct
  BY <1>2, <1>3 DEF Construct
<1>4. ASSUME NEW o, Copy(o) PROVE cursor' = cursor /\ made' = made
  BY <1>2, <1>4 DEF Copy
<1>5. ASSUME NEW o, AppendItem(o) PROVE cursor' = cursor /\ made' = made
  BY <1>1, <1>5 DEF AppendItem
<1>6. ASSUME NEW o, Prepend(o) PROVE cursor' = cursor /\ made' = made
  BY <1>1, <1>6 DEF Prepend
<1>7. ASSUME NEW o, InsertItem(o) PROVE cursor' = cursor /\ made' = made
  BY <1>1, <1>7 DEF InsertItem, Throw
<1>8. ASSUME NEW o, GetSubSequence(o) PROVE cursor' = cursor /\ made' = made
  BY <1>2, <1>8 DEF GetSubSequence, MakeLike, Throw
<1>9. ASSUME NEW o, Concat(o) PROVE cursor' = cursor /\ made' = made
  BY <1>2, <1>9 DEF Concat, MakeLike
<1>10. ASSUME NEW o, MapItems(o) PROVE cursor' = cursor /\ made' = made
  BY <1>2, <1>10 DEF MapItems, MakeLike
<1>11. ASSUME NEW o, Where(o) PROVE cursor' = cursor /\ made' = made
  BY <1>2, <1>11 DEF Where, MakeLike
<1>12. ASSUME NEW o, Slice(o) PROVE cursor' = cursor /\ made' = made
  BY <1>2, <1>12 DEF Slice, MakeLike, Throw
<1>13. CASE Return
  BY <1>13 DEF Return
<1> QED BY <1>3, <1>4, <1>5, <1>6, <1>7, <1>8, <1>9, <1>10, <1>11, <1>12, <1>13

\* A sequence in order of the chain to which a node behind its last is added.
LEMMA InOrderLonger ==
  ASSUME NEW chain \in Seq(Nat),
         \A j, k \in 1..Len(chain) : chain[j] = chain[k] => j = k,
         NEW s, InOrder(chain, s),
         NEW place \in 1..Len(chain),
         s # <<>> => Comes(chain, s[Len(s)], chain[place])
  PROVE  /\ InOrder(chain, Append(s, chain[place]))
         /\ Append(s, chain[place]) # <<>>
         /\ Append(s, chain[place])[Len(Append(s, chain[place]))] = chain[place]
         /\ \A k \in 1..Len(s) : \E j \in 1..Len(Append(s, chain[place])) :
              Append(s, chain[place])[j] = s[k]
<1> DEFINE node == chain[place]
           longer == Append(s, node)
           size == Len(s)
<1>1. s \in Seq(Nat) /\ node \in Nat /\ size \in Nat
  BY DEF InOrder
<1>2. \A i \in 1..Len(chain) : chain[i] = node => i = place
  OBVIOUS
<1> HIDE DEF node
<1>3. /\ longer \in Seq(Nat) /\ Len(longer) = size + 1 /\ longer # <<>>
      /\ \A k \in 1..size : longer[k] = s[k]
      /\ longer[size + 1] = node
  <2> DEFINE Ref == Nat
  <2>1. s \in Seq(Ref) /\ node \in Ref
    BY <1>1
  <2> HIDE DEF Ref
  <2>2. /\ longer \in Seq(Ref) /\ Len(longer) = size + 1 /\ longer # <<>>
        /\ \A k \in 1..size : longer[k] = s[k]
        /\ longer[size + 1] = node
    BY <2>1, AppendItems
  <2> QED BY <2>2 DEF Ref
<1> HIDE DEF longer
<1>4. ASSUME NEW k \in 1..Len(longer) PROVE \E i \in 1..Len(chain) : chain[i] = longer[k]
  <2>1. CASE k \in 1..size
    BY <1>3, <2>1 DEF InOrder
  <2>2. CASE k = size + 1
    BY <1>3, <2>2 DEF node
  <2> QED BY <1>1, <1>3, <2>1, <2>2
<1>5. ASSUME NEW k \in 1..size PROVE Comes(chain, s[k], node)
  <2>1. s # <<>> /\ Comes(chain, s[size], node)
    BY <1>1 DEF node
  <2>2. CASE k = size
    BY <2>1, <2>2
  <2>3. CASE k < size
    <3>1. size \in 1..size
      BY <1>1
    <3>2. Comes(chain, s[k], s[size])
      BY <2>3, <3>1 DEF InOrder, size
    <3> QED BY <2>1, <3>2, ComesOrders
  <2> QED BY <1>1, <2>2, <2>3
<1>6. ASSUME NEW j \in 1..Len(longer), NEW k \in 1..Len(longer), j < k
      PROVE  Comes(chain, longer[j], longer[k])
  <2>1. j \in 1..size
    BY <1>1, <1>3, <1>6
  <2>2. CASE k \in 1..size
    BY <1>3, <1>6, <2>1, <2>2 DEF InOrder, size
  <2>3. CASE k = size + 1
    BY <1>3, <1>5, <2>1, <2>3
  <2> QED BY <1>1, <1>3, <2>2, <2>3
<1>7. InOrder(chain, longer)
  BY <1>3, <1>4, <1>6 DEF InOrder
<1>8. \A k \in 1..size : k \in 1..Len(longer) /\ longer[k] = s[k]
  BY <1>1, <1>3
<1> QED BY <1>1, <1>3, <1>7, <1>8 DEF longer, node, size

\* The rest of a chain is in order.
LEMMA RestInOrder ==
  ASSUME NEW chain \in Seq(Nat),
         \A j, k \in 1..Len(chain) : chain[j] = chain[k] => j = k,
         NEW place \in 1..Len(chain)
  PROVE  LET rest == SubSeq(chain, place, Len(chain)) IN
         /\ InOrder(chain, rest)
         /\ \A k \in 1..Len(rest) : rest[k] = chain[place] \/ Comes(chain, chain[place], rest[k])
<1> DEFINE rest == SubSeq(chain, place, Len(chain))
           size == Len(chain)
<1>1. size \in Nat /\ DOMAIN chain = 1..size
  OBVIOUS
<1>2. /\ rest \in Seq(Nat) /\ Len(rest) = size - place + 1
      /\ \A k \in 1..Len(rest) : rest[k] = chain[place + k - 1]
  OBVIOUS
<1> HIDE DEF rest
<1>3. \A k \in 1..Len(rest) : place + k - 1 \in place..size
  BY <1>1, <1>2
<1>4. ASSUME NEW j \in place..size, NEW k \in place..size, j < k
      PROVE  Comes(chain, chain[j], chain[k])
  <2>1. j \in DOMAIN chain /\ k \in DOMAIN chain
    BY <1>1
  <2> QED BY <1>4, <2>1, ZenonT(30) DEF Comes
<1> HIDE DEF size
<1>5. ASSUME NEW j \in 1..Len(rest), NEW k \in 1..Len(rest), j < k
      PROVE  Comes(chain, rest[j], rest[k])
  <2> DEFINE a == place + j - 1
             b == place + k - 1
  <2>1. a \in place..size /\ b \in place..size /\ a < b /\ rest[j] = chain[a] /\ rest[k] = chain[b]
    BY <1>2, <1>3, <1>5
  <2> HIDE DEF a, b
  <2> QED BY <1>4, <2>1
<1>6. ASSUME NEW k \in 1..Len(rest)
      PROVE  /\ \E i \in 1..size : chain[i] = rest[k]
             /\ rest[k] = chain[place] \/ Comes(chain, chain[place], rest[k])
  <2> DEFINE b == place + k - 1
  <2>1. b \in place..size /\ rest[k] = chain[b] /\ place \in place..size /\ b \in 1..size
    BY <1>1, <1>2, <1>3 DEF size
  <2>2. b = place \/ place < b
    BY <2>1
  <2> HIDE DEF b
  <2> QED BY <1>4, <2>1, <2>2
<1>7. InOrder(chain, rest)
  BY <1>2, <1>5, <1>6 DEF InOrder, size
<1> QED BY <1>6, <1>7 DEF rest

-----------------------------------------------------------------------------
(* MoveNext.                                                               *)

\* The chain of the list that is enumerated, and the node that comes next.
Enumerated == ChainIn(nodes, objects[cursor[1].object])
NextNode == IF cursor[1].current = 0 THEN cursor[1].head ELSE nodes[cursor[1].current].next

\* What is known of the chain.
LEMMA EnumeratedFacts ==
  ASSUME EnumerationInv, cursor # <<>>
  PROVE  /\ cursor = <<cursor[1]>> /\ cursor[1].object \in DOMAIN objects
         /\ Enumerates(Enumerated, cursor[1])
         /\ Linked(nodes, objects[cursor[1].object], Enumerated)
         /\ Chain(objects[cursor[1].object]) = Enumerated
         /\ Enumerated \in Seq(Nat)
         /\ \A j, k \in 1..Len(Enumerated) : Enumerated[j] = Enumerated[k] => j = k
         /\ \A k \in 1..Len(Enumerated) : Enumerated[k] # 0
<1> DEFINE o == cursor[1].object
<1>1. cursor = <<cursor[1]>> /\ o \in DOMAIN objects /\ Enumerates(Enumerated, cursor[1])
  BY DEF EnumerationInv, CursorOK, Enumerated
<1>2. Linked(nodes, objects[o], Enumerated)
  BY <1>1 DEF EnumerationInv, ListInv, AllLinked, Enumerated
<1>3. Chain(objects[o]) = Enumerated
  BY DEF Chain, ChainIn, Enumerated
<1>4. /\ Enumerated \in Seq(Nat)
      /\ \A j, k \in 1..Len(Enumerated) : Enumerated[j] = Enumerated[k] => j = k
      /\ \A k \in 1..Len(Enumerated) : Enumerated[k] \in 1..Len(nodes)
  BY <1>2 DEF Linked
<1> QED BY <1>1, <1>2, <1>3, <1>4

\* A node that is next is in the chain, and behind the node the pass is on.
LEMMA NextInChain ==
  ASSUME EnumerationInv, cursor # <<>>, NextNode # 0
  PROVE  \E place \in 1..Len(Enumerated) :
           /\ NextNode = Enumerated[place]
           /\ cursor[1].current # 0 =>
                /\ Comes(Enumerated, cursor[1].current, NextNode)
                /\ \A n : Comes(Enumerated, cursor[1].current, n) =>
                      n = NextNode \/ Comes(Enumerated, NextNode, n)
<1> DEFINE c == cursor[1]
           chain == Enumerated
           size == Len(chain)
<1>1. /\ Enumerates(chain, c) /\ chain \in Seq(Nat) /\ size \in Nat
      /\ DOMAIN chain = 1..size
      /\ \A j, k \in 1..size : chain[j] = chain[k] => j = k
      /\ \A k \in 1..size : nodes[chain[k]].next = Following(chain, k)
  BY EnumeratedFacts DEF Linked
<1>2. CASE c.current = 0
  <2>1. NextNode = c.head
    BY <1>2 DEF NextNode
  <2> QED BY <1>1, <1>2, <2>1 DEF Enumerates
<1>3. CASE c.current # 0
  <2>1. InOrder(chain, c.visited) /\ c.visited # <<>> /\ c.visited[Len(c.visited)] = c.current
    BY <1>1, <1>3 DEF Enumerates, Passing
  <2>2. Len(c.visited) \in 1..Len(c.visited)
    <3>1. c.visited \in Seq(Nat)
      BY <2>1 DEF InOrder
    <3> QED BY <2>1, <3>1
  <2>3. PICK i \in 1..size : chain[i] = c.current
    BY <2>1, <2>2 DEF InOrder
  <2>4. NextNode = Following(chain, i)
    BY <1>1, <1>3, <2>3 DEF NextNode
  <2> DEFINE place == i + 1
  <2>5. i < size /\ NextNode = chain[place] /\ place \in 1..size
    BY <1>1, <2>4 DEF Following
  <2>6. Comes(chain, c.current, NextNode)
    <3>1. i < place
      OBVIOUS
    <3> HIDE DEF place
    <3> QED BY <1>1, <2>3, <2>5, <3>1 DEF Comes
  <2>7. ASSUME NEW n, Comes(chain, c.current, n) PROVE n = NextNode \/ Comes(chain, NextNode, n)
    <3>1. PICK j \in 1..size, k \in 1..size : j < k /\ chain[j] = c.current /\ chain[k] = n
      BY <1>1, <2>7 DEF Comes
    <3>2. j = i
      BY <1>1, <2>3, <3>1
    <3>3. k = place \/ place < k
      BY <1>1, <3>1, <3>2
    <3> HIDE DEF place
    <3> QED BY <1>1, <2>5, <3>1, <3>3 DEF Comes
  <2> HIDE DEF place
  <2> QED BY <1>3, <2>5, <2>6, <2>7
<1> QED BY <1>2, <1>3

\* A pass goes on in the order of the chain.
LEMMA VisitPasses ==
  ASSUME EnumerationInv, cursor # <<>>, NextNode # 0, Visit(cursor[1], NextNode)
  PROVE  \E after : cursor' = <<after>> /\ after.object = cursor[1].object
                     /\ after.current # 0 /\ Enumerates(Enumerated, after)
<1> DEFINE c == cursor[1]
           chain == Enumerated
           visited == Append(c.visited, NextNode)
           present == IF c.current = 0 THEN NodesFrom(c.object, c.head) ELSE c.present
           after == Pass(c.object, c.head, NextNode, visited, present)
<1>1. /\ Enumerates(chain, c) /\ chain \in Seq(Nat)
      /\ \A j, k \in 1..Len(chain) : chain[j] = chain[k] => j = k
      /\ Chain(objects[c.object]) = chain
      /\ DOMAIN chain = 1..Len(chain)
  BY EnumeratedFacts
<1>2. cursor' = <<after>>
  BY DEF Visit
<1>3. PICK place \in 1..Len(chain) :
        /\ NextNode = chain[place]
        /\ c.current # 0 => /\ Comes(chain, c.current, NextNode)
                            /\ \A n : Comes(chain, c.current, n) =>
                                  n = NextNode \/ Comes(chain, NextNode, n)
  BY NextInChain
<1> HIDE DEF chain
<1>4. /\ after.object = c.object /\ after.head = c.head /\ after.current = NextNode
      /\ after.visited = visited /\ after.present = present
  BY DEF Pass
<1>5. InOrder(chain, c.visited) /\ (c.visited # <<>> => c.visited[Len(c.visited)] = c.current)
  <2>1. InOrder(chain, <<>>)
    BY DEF InOrder
  <2> QED BY <1>1, <2>1 DEF Enumerates, Passing
<1>6. c.visited # <<>> => Comes(chain, c.visited[Len(c.visited)], chain[place])
  <2>1. c.visited # <<>> => c.current # 0
    BY <1>1 DEF Enumerates
  <2> QED BY <1>3, <1>5, <2>1
<1>7. /\ InOrder(chain, visited) /\ visited # <<>> /\ visited[Len(visited)] = NextNode
      /\ \A k \in 1..Len(c.visited) : \E j \in 1..Len(visited) : visited[j] = c.visited[k]
  <2> DEFINE s == c.visited
             longer == Append(s, chain[place])
  <2> HIDE DEF c
  <2>1. /\ InOrder(chain, s) /\ (s # <<>> => Comes(chain, s[Len(s)], chain[place]))
    BY <1>5, <1>6
  <2> HIDE DEF s
  <2>2. /\ InOrder(chain, longer) /\ longer # <<>> /\ longer[Len(longer)] = chain[place]
        /\ \A k \in 1..Len(s) : \E j \in 1..Len(longer) : longer[j] = s[k]
    BY <1>1, <2>1, InOrderLonger, SMTT(30)
  <2>3. visited = longer
    BY <1>3 DEF s
  <2> HIDE DEF visited, longer
  <2> QED BY <1>3, <2>2, <2>3 DEF s
<1> HIDE DEF visited, after
<1>8. /\ InOrder(chain, present)
      /\ \A k \in 1..Len(present) :
           \/ \E j \in 1..Len(visited) : visited[j] = present[k]
           \/ Comes(chain, NextNode, present[k])
  <2>1. \E j \in 1..Len(visited) : visited[j] = NextNode
    <3>1. visited \in Seq(Nat)
      BY <1>7 DEF InOrder
    <3>2. Len(visited) \in 1..Len(visited)
      BY <1>7, <3>1
    <3> QED BY <1>7, <3>2
  <2>2. CASE c.current = 0
    <3>1. NextNode = c.head /\ present = NodesFrom(c.object, c.head)
      BY <2>2 DEF NextNode
    <3>2. (CHOOSE k \in DOMAIN chain : chain[k] = NextNode) = place
      BY <1>1, <1>3
    <3>3. present = SubSeq(chain, place, Len(chain))
      BY <1>1, <3>1, <3>2 DEF NodesFrom
    <3> HIDE DEF present
    <3>4. /\ InOrder(chain, present)
          /\ \A k \in 1..Len(present) :
               present[k] = chain[place] \/ Comes(chain, chain[place], present[k])
      <4> DEFINE rest == SubSeq(chain, place, Len(chain))
      <4>1. /\ InOrder(chain, rest)
            /\ \A k \in 1..Len(rest) : rest[k] = chain[place] \/ Comes(chain, chain[place], rest[k])
        BY <1>1, RestInOrder
      <4> QED BY <3>3, <4>1
    <3> QED BY <1>3, <2>1, <3>4
  <2>3. CASE c.current # 0
    <3>1. present = c.present
      BY <2>3
    <3>2. /\ InOrder(chain, c.present)
          /\ \A k \in 1..Len(c.present) :
               \/ \E j \in 1..Len(c.visited) : c.visited[j] = c.present[k]
               \/ Comes(chain, c.current, c.present[k])
      BY <1>1, <2>3 DEF Enumerates, Passing
    <3> HIDE DEF present
    <3>3. ASSUME NEW k \in 1..Len(present)
          PROVE  \/ \E j \in 1..Len(visited) : visited[j] = present[k]
                 \/ Comes(chain, NextNode, present[k])
      <4>1. CASE \E j \in 1..Len(c.visited) : c.visited[j] = present[k]
        BY <1>7, <4>1
      <4>2. CASE Comes(chain, c.current, present[k])
        BY <1>3, <2>1, <2>3, <4>2
      <4> QED BY <3>1, <3>2, <4>1, <4>2
    <3> QED BY <3>1, <3>2, <3>3
  <2> QED BY <2>2, <2>3
<1> HIDE DEF present
<1>9. Passing(chain, after)
  BY <1>4, <1>7, <1>8 DEF Passing
<1>10. Enumerates(chain, after)
  BY <1>1, <1>4, <1>9 DEF Enumerates
<1> QED BY <1>2, <1>4, <1>10 DEF chain

\* A pass that ends has visited what there was.
LEMMA PassEnds ==
  ASSUME EnumerationInv, cursor # <<>>, cursor[1].current # 0, NextNode = 0
  PROVE  Complete(cursor[1])
<1> DEFINE c == cursor[1]
           chain == Enumerated
           size == Len(chain)
<1>1. /\ Enumerates(chain, c) /\ chain \in Seq(Nat) /\ size \in Nat
      /\ DOMAIN chain = 1..size
      /\ \A j, k \in 1..size : chain[j] = chain[k] => j = k
      /\ \A k \in 1..size : chain[k] # 0
      /\ \A k \in 1..size : nodes[chain[k]].next = Following(chain, k)
  BY EnumeratedFacts DEF Linked
<1>2. /\ InOrder(chain, c.visited) /\ InOrder(chain, c.present)
      /\ c.visited # <<>> /\ c.visited[Len(c.visited)] = c.current
      /\ \A k \in 1..Len(c.present) :
           \/ \E j \in 1..Len(c.visited) : c.visited[j] = c.present[k]
           \/ Comes(chain, c.current, c.present[k])
  BY <1>1 DEF Enumerates, Passing
<1>3. /\ c.visited \in Seq(Nat) /\ DOMAIN c.visited = 1..Len(c.visited)
      /\ c.present \in Seq(Nat) /\ DOMAIN c.present = 1..Len(c.present)
      /\ Len(c.visited) \in Nat
  BY <1>2 DEF InOrder
<1>4. \A m, n : ~(Comes(chain, m, n) /\ Comes(chain, n, m))
  BY <1>1, ComesOrders
<1>5. ASSUME NEW n PROVE ~Comes(chain, c.current, n)
  <2>1. Len(c.visited) \in 1..Len(c.visited)
    BY <1>2, <1>3
  <2>2. PICK i \in 1..size : chain[i] = c.current
    BY <1>2, <2>1 DEF InOrder
  <2>3. Following(chain, i) = 0
    BY <1>1, <2>2 DEF NextNode
  <2>4. ~(i < size)
    <3>1. CASE i < size
      <4>1. i + 1 \in 1..size /\ Following(chain, i) = chain[i + 1]
        BY <1>1, <3>1 DEF Following
      <4> QED BY <1>1, <2>3, <4>1
    <3> QED BY <3>1
  <2>5. ~(\E j \in 1..size, k \in 1..size : j < k /\ chain[j] = c.current)
    BY <1>1, <2>2, <2>4
  <2> QED BY <1>1, <2>5 DEF Comes
<1> HIDE DEF c, chain, size
<1>6. \A k \in 1..Len(c.present) : \E j \in 1..Len(c.visited) : c.visited[j] = c.present[k]
  BY <1>2, <1>5
<1>7. IsInjective(c.visited)
  <2> SUFFICES ASSUME NEW j \in 1..Len(c.visited), NEW k \in 1..Len(c.visited),
                      c.visited[j] = c.visited[k], j # k
               PROVE  FALSE
    BY <1>3 DEF IsInjective
  <2>1. j < k \/ k < j
    BY <1>3
  <2>2. Comes(chain, c.visited[j], c.visited[k]) \/ Comes(chain, c.visited[k], c.visited[j])
    BY <1>2, <2>1 DEF InOrder
  <2> QED BY <1>4, <2>2
<1>8. ToSet(c.present) \subseteq ToSet(c.visited)
  <2> SUFFICES ASSUME NEW k \in 1..Len(c.present) PROVE c.present[k] \in ToSet(c.visited)
    BY <1>3 DEF ToSet
  <2> QED BY <1>3, <1>6 DEF ToSet
<1>9. ASSUME NEW j \in DOMAIN c.present, NEW k \in DOMAIN c.present, j < k
      PROVE  Comes(c.visited, c.present[j], c.present[k])
  <2>1. Comes(chain, c.present[j], c.present[k])
    BY <1>2, <1>3, <1>9 DEF InOrder
  <2>2. PICK a \in 1..Len(c.visited), b \in 1..Len(c.visited) :
          c.visited[a] = c.present[j] /\ c.visited[b] = c.present[k]
    BY <1>3, <1>6
  <2>3. CASE a < b
    BY <1>3, <2>2, <2>3 DEF Comes
  <2>4. CASE b < a
    <3>1. Comes(chain, c.visited[b], c.visited[a])
      BY <1>2, <2>4 DEF InOrder
    <3> QED BY <1>4, <2>1, <2>2, <3>1
  <2>5. CASE a = b
    BY <1>4, <2>1, <2>2, <2>5
  <2>6. a < b \/ b < a \/ a = b
    BY <1>3
  <2> QED BY <2>3, <2>4, <2>5, <2>6
<1>10. Complete(c)
  BY <1>7, <1>8, <1>9 DEF Complete
<1> QED BY <1>10 DEF c

LEMMA MoveNextKeeps ==
  ASSUME EnumerationInv, MoveNext
  PROVE  CursorOK'
<1> DEFINE c == cursor[1]
<1>1. cursor # <<>> /\ Visit(c, NextNode) /\ UNCHANGED <<nodes, objects>>
  BY DEF MoveNext, NextNode
<1>2. /\ c.object \in DOMAIN objects /\ Enumerates(Enumerated, c)
  BY <1>1, EnumeratedFacts
<1>3. ASSUME NEW after, cursor' = <<after>>, after.object = c.object, Enumerates(Enumerated, after)
      PROVE  CursorOK'
  <2>1. cursor'[1] = after /\ cursor' = <<cursor'[1]>>
    BY <1>3
  <2>2. ChainIn(nodes', objects'[after.object]) = Enumerated
    BY <1>1, <1>3 DEF Enumerated
  <2>3. after.object \in DOMAIN objects'
    BY <1>1, <1>2, <1>3
  <2> QED BY <1>3, <2>1, <2>2, <2>3 DEF CursorOK
<1>4. CASE NextNode = 0
  <2> DEFINE after == Pass(c.object, c.head, 0, <<>>, <<>>)
  <2>1. cursor' = <<after>>
    BY <1>1, <1>4 DEF Visit
  <2>2. /\ after.object = c.object /\ after.head = c.head /\ after.current = 0
        /\ after.visited = <<>>
    BY DEF Pass
  <2> HIDE DEF after
  <2>3. Enumerates(Enumerated, after)
    BY <1>2, <2>2 DEF Enumerates
  <2> QED BY <1>3, <2>1, <2>2, <2>3
<1>5. CASE NextNode # 0
  BY <1>1, <1>3, <1>5, VisitPasses
<1> QED BY <1>4, <1>5

LEMMA EnumeratorStarts ==
  ASSUME ListInv, NEW o \in DOMAIN objects, GetEnumerator(o)
  PROVE  CursorOK'
<1> DEFINE after == Pass(o, objects[o].head, 0, <<>>, <<>>)
           chain == ChainIn(nodes, objects[o])
<1>1. cursor' = <<after>> /\ UNCHANGED <<nodes, objects>>
  BY DEF GetEnumerator
<1>2. /\ after.object = o /\ after.head = objects[o].head /\ after.current = 0
      /\ after.visited = <<>>
  BY DEF Pass
<1>3. /\ objects[o].head = Following(chain, 0) /\ Len(chain) \in Nat
  <2>1. nodes \in Seq(Node) /\ objects[o] \in List /\ Linked(nodes, objects[o], chain)
    BY DEF ListInv, HeapOK, AllLinked
  <2> QED BY <2>1, LinkedFacts
<1> HIDE DEF after, chain
<1>4. after.head = 0 \/ \E i \in 1..Len(chain) : chain[i] = after.head
  <2>1. CASE Len(chain) = 0
    BY <1>2, <1>3, <2>1 DEF Following
  <2>2. CASE Len(chain) # 0
    <3>1. 1 \in 1..Len(chain) /\ objects[o].head = chain[1]
      BY <1>3, <2>2 DEF Following
    <3> QED BY <1>2, <3>1
  <2> QED BY <2>1, <2>2
<1>5. Enumerates(chain, after)
  BY <1>2, <1>4 DEF Enumerates
<1>6. cursor'[1] = after /\ cursor' = <<cursor'[1]>>
  BY <1>1
<1>7. ChainIn(nodes', objects'[after.object]) = chain /\ after.object \in DOMAIN objects'
  BY <1>1, <1>2 DEF chain
<1> QED BY <1>5, <1>6, <1>7 DEF CursorOK

LEMMA NextEnumerates == EnumerationInv /\ [Next]_vars => EnumerationInv'
<1> SUFFICES ASSUME EnumerationInv, [Next]_vars PROVE CursorOK' /\ made' \in Nat
  BY NextLinked DEF EnumerationInv
<1>1. ListInv /\ CursorOK
  BY DEF EnumerationInv
<1>8. made' \in Nat
  <2>1. made \in Nat
    BY DEF EnumerationInv
  <2>2. ASSUME NEW o \in DOMAIN objects, GetEnumerator(o) PROVE made' \in Nat
    BY <2>1, <2>2 DEF GetEnumerator
  <2>3. CASE MoveNext
    BY <2>1, <2>3 DEF MoveNext
  <2>4. CASE UNCHANGED vars
    BY <2>1, <2>4 DEF vars
  <2> QED BY <2>1, <2>2, <2>3, <2>4, OperationsLeaveCursor DEF Next
<1>2. ASSUME Construct PROVE CursorOK'
  <2>1. ChainsKept
    BY <1>1, <1>2, ConstructMakes, AddsKeepsChains
  <2>2. cursor' = cursor
    BY <1>2, OperationsLeaveCursor
  <2> QED BY <1>1, <2>1, <2>2, CursorKept
<1>3. ASSUME NEW o \in DOMAIN objects, Copy(o) PROVE CursorOK'
  <2>1. ChainsKept
    BY <1>1, <1>3, CopyMakes, AddsKeepsChains
  <2>2. cursor' = cursor
    BY <1>3, OperationsLeaveCursor
  <2> QED BY <1>1, <2>1, <2>2, CursorKept
<1>4. ASSUME NEW o \in DOMAIN objects,
             \/ AppendItem(o) \/ Prepend(o) \/ InsertItem(o) \/ GetSubSequence(o)
             \/ Concat(o) \/ MapItems(o) \/ Where(o) \/ Slice(o)
      PROVE  CursorOK'
  <2>1. Performs(o, call')
    BY <1>1, <1>4, OperationPerforms
  <2>2. ChainsKept
    BY <1>1, <2>1, PerformsKeepsChains
  <2>3. cursor' = cursor
    BY <1>4, OperationsLeaveCursor
  <2> QED BY <1>1, <2>2, <2>3, CursorKept
<1>5. ASSUME NEW o \in DOMAIN objects, GetEnumerator(o) PROVE CursorOK'
  BY <1>1, <1>5, EnumeratorStarts
<1>6. ASSUME MoveNext PROVE CursorOK'
  BY <1>6, MoveNextKeeps
<1>7. ASSUME Return \/ UNCHANGED vars PROVE CursorOK'
  BY <1>1, <1>7 DEF Return, vars, CursorOK
<1> QED BY <1>2, <1>3, <1>4, <1>5, <1>6, <1>7, <1>8 DEF Next

(* A pass of an enumerator that comes to its end has given every item that *)
(* was in the list behind its head when it began, in order and no node     *)
(* twice, whatever was appended, prepended or inserted in between          *)
(* (LinkedList::Enumerator in core/linked_list.h).                         *)
THEOREM ListSequencePasses == Spec => PassComplete
<1>1. Init => EnumerationInv
  BY InitLinked DEF Init, EnumerationInv, CursorOK
<1> DEFINE Ends ==
      \A before \in ToSet(cursor), after \in ToSet(cursor') :
        made' = made /\ before.current # 0 /\ after.current = 0 => Complete(before)
<1>2. EnumerationInv /\ [Next]_vars => [Ends]_vars
  <2> SUFFICES ASSUME EnumerationInv, [Next]_vars,
                      NEW before \in ToSet(cursor), NEW after \in ToSet(cursor'),
                      made' = made, before.current # 0, after.current = 0
               PROVE  Complete(before)
    OBVIOUS
  <2>1. cursor # <<>> /\ before = cursor[1]
    <3>1. cursor # <<>>
      BY DEF ToSet
    <3>2. cursor = <<cursor[1]>>
      BY <3>1, EnumeratedFacts
    <3>3. DOMAIN cursor = {1}
      BY <3>2
    <3> QED BY <3>1, <3>3 DEF ToSet
  <2>2. CASE cursor' = cursor
    <3>1. after = before
      <4>1. cursor = <<cursor[1]>>
        BY <2>1, EnumeratedFacts
      <4>2. DOMAIN cursor = {1}
        BY <4>1
      <4> QED BY <2>1, <2>2, <4>2 DEF ToSet
    <3> QED BY <3>1
  <2>3. CASE MoveNext
    <3>1. Visit(cursor[1], NextNode)
      BY <2>3 DEF MoveNext, NextNode
    <3>2. CASE NextNode = 0
      BY <2>1, <3>2, PassEnds
    <3>3. CASE NextNode # 0
      <4>1. PICK next : cursor' = <<next>> /\ next.current # 0
        BY <2>1, <3>1, <3>3, VisitPasses
      <4>2. after = next
        BY <4>1 DEF ToSet
      <4> QED BY <4>1, <4>2
    <3> QED BY <3>2, <3>3
  <2>4. ASSUME NEW o \in DOMAIN objects, GetEnumerator(o) PROVE FALSE
    <3>1. made' = made + 1 /\ made \in Nat
      BY <2>4 DEF GetEnumerator, EnumerationInv
    <3> QED BY <3>1
  <2>5. CASE UNCHANGED vars
    BY <2>2, <2>5 DEF vars
  <2> QED BY <2>2, <2>3, <2>4, <2>5, OperationsLeaveCursor DEF Next
<1>3. Spec => []EnumerationInv
  BY <1>1, NextEnumerates, PTL DEF Spec
<1> QED BY <1>2, <1>3, PTL DEF Spec, PassComplete
=============================================================================
