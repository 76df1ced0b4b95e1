-------------------------- MODULE ArraySequenceProofs --------------------------
(***************************************************************************)
(* Proofs about ArraySequence, for any items, functions, arrays and        *)
(* indices and any bounds: the storage is sound, an enumeration gives only *)
(* what was stored, and whatever is called in whatever order, the objects  *)
(* have the values that SequenceValues says they have.                     *)
(***************************************************************************)
EXTENDS ArraySequence, SequenceLemmas

-----------------------------------------------------------------------------
(* The inductive invariant.                                                *)

(* An object knows the size of its array, has no more items than that, and *)
(* has written every cell that it counts as an item.                       *)
Object ==
  {object \in [mutable : BOOLEAN, data : Seq(Cell), count : Nat, capacity : Nat] :
     /\ object.capacity = Len(object.data)
     /\ object.count <= object.capacity
     /\ \A k \in 1..object.count : object.data[k] \in Item}

ObjectsOK == objects \in Seq(Object)

\* How many items an enumerator has given: one at every index but the last.
Given(c) == IF c.index < c.count THEN c.index + 1 ELSE c.count

Cursor ==
  [object : Nat, count : Nat, index : Int, visited : Seq(Item)]

(* The enumerator is of an object there is, whose count has not fallen     *)
(* since, and has given one item for every step; what it was given by an   *)
(* immutable object is what is still there.                                *)
CursorOK ==
  cursor # <<>> =>
    LET c == cursor[1] IN
    /\ cursor = <<c>>
    /\ c \in Cursor
    /\ c.object \in DOMAIN objects
    /\ c.count <= objects[c.object].count
    /\ -1 <= c.index /\ c.index <= c.count
    /\ Len(c.visited) = Given(c)
    /\ ~objects[c.object].mutable =>
         \A k \in 1..Len(c.visited) : c.visited[k] = objects[c.object].data[k]

StorageInv == ObjectsOK /\ CursorOK

-----------------------------------------------------------------------------
(* The capacity.  NewCapacity is defined by a recursive function, which    *)
(* stands for a CHOOSE: that there is such a function is shown by          *)
(* induction over the rounds.                                              *)

\* A round of the function in NewCapacity, and the function up to a round.
Round(size, capacity, required, n) ==
  IF n = 0 THEN IF capacity = 0 THEN 1 ELSE capacity
  ELSE IF size[n - 1] < required THEN 2 * size[n - 1] ELSE size[n - 1]

RoundsUpTo(size, capacity, required, n) ==
  \A i \in 0..n : size[i] = Round(size, capacity, required, i)

LEMMA RoundsExist ==
  ASSUME NEW capacity \in Nat, NEW required \in Nat
  PROVE  \E size \in [0..required -> Nat] : RoundsUpTo(size, capacity, required, required)
<1> DEFINE Some(n) == \E size \in [0..n -> Nat] : RoundsUpTo(size, capacity, required, n)
           T == {n \in Nat : Some(n)}
<1>1. Some(0)
  <2> DEFINE first == IF capacity = 0 THEN 1 ELSE capacity
             size == [i \in 0..0 |-> first]
  <2>1. size \in [0..0 -> Nat]
    OBVIOUS
  <2>2. RoundsUpTo(size, capacity, required, 0)
    BY DEF RoundsUpTo, Round
  <2> QED BY <2>1, <2>2
<1>2. ASSUME NEW n \in Nat, Some(n) PROVE Some(n + 1)
  <2>1. PICK old \in [0..n -> Nat] : RoundsUpTo(old, capacity, required, n)
    BY <1>2
  <2> DEFINE next == IF old[n] < required THEN 2 * old[n] ELSE old[n]
             size == [i \in 0..n + 1 |-> IF i <= n THEN old[i] ELSE next]
  <2>2. old[n] \in Nat /\ next \in Nat
    BY <2>1
  <2>3. size \in [0..n + 1 -> Nat]
    BY <2>1, <2>2
  <2>4. (\A i \in 0..n : size[i] = old[i]) /\ size[n + 1] = next
    OBVIOUS
  <2> HIDE DEF size
  <2>5. ASSUME NEW i \in 0..n + 1 PROVE size[i] = Round(size, capacity, required, i)
    <3>1. CASE i = 0
      <4>1. old[0] = Round(old, capacity, required, 0)
        BY <2>1 DEF RoundsUpTo
      <4>2. size[0] = old[0]
        BY <2>4
      <4> QED BY <3>1, <4>1, <4>2 DEF Round
    <3>2. CASE i \in 1..n
      <4>1. old[i] = Round(old, capacity, required, i)
        BY <2>1, <3>2 DEF RoundsUpTo
      <4>2. size[i] = old[i] /\ size[i - 1] = old[i - 1]
        BY <2>4, <3>2
      <4> QED BY <3>2, <4>1, <4>2 DEF Round
    <3>3. CASE i = n + 1
      <4>1. size[i - 1] = old[n] /\ size[i] = next /\ i > 0 /\ i # 0
        BY <2>4, <3>3
      <4> QED BY <2>2, <4>1 DEF Round
    <3> QED BY <3>1, <3>2, <3>3
  <2>6. RoundsUpTo(size, capacity, required, n + 1)
    BY <2>5 DEF RoundsUpTo
  <2> QED BY <2>3, <2>6
<1> HIDE DEF Some
<1>3. 0 \in T /\ \A n \in Nat : n \in T => n + 1 \in T
  BY <1>1, <1>2
<1>4. Nat \subseteq T
  <2> HIDE DEF T
  <2> QED BY <1>3, NatSetInduction
<1>5. Some(required)
  BY <1>4
<1> QED BY <1>5 DEF Some

\* The capacity found is enough: it has doubled often enough.
LEMMA CapacityEnough ==
  ASSUME NEW capacity \in Nat, NEW required \in Nat
  PROVE  NewCapacity(capacity, required) \in Nat /\ NewCapacity(capacity, required) >= required
<1> DEFINE Is(h) == h = [n \in 0..required |->
                           IF n = 0 THEN IF capacity = 0 THEN 1 ELSE capacity
                           ELSE IF h[n - 1] < required THEN 2 * h[n - 1] ELSE h[n - 1]]
           g == CHOOSE h : Is(h)
<1>1. PICK size \in [0..required -> Nat] : RoundsUpTo(size, capacity, required, required)
  BY RoundsExist
<1>2. Is(size)
  BY <1>1 DEF RoundsUpTo, Round
<1>3. NewCapacity(capacity, required) = g[required]
  BY DEF NewCapacity
<1>4. Is(g)
  <2> HIDE DEF Is
  <2> QED BY <1>2
<1> HIDE DEF g
<1>5. ASSUME NEW n \in 0..required PROVE g[n] = Round(g, capacity, required, n)
  BY <1>4 DEF Round
<1> HIDE DEF Is
<1> DEFINE T == {n \in Nat : n <= required =>
                   g[n] \in Nat /\ g[n] >= 1 /\ (g[n] >= required \/ g[n] > n)}
<1>6. 0 \in T
  <2>1. g[0] = IF capacity = 0 THEN 1 ELSE capacity
    BY <1>5 DEF Round
  <2> QED BY <2>1
<1>7. ASSUME NEW n \in Nat, n \in T PROVE n + 1 \in T
  <2> SUFFICES ASSUME n + 1 <= required
               PROVE  /\ g[n + 1] \in Nat /\ g[n + 1] >= 1
                      /\ g[n + 1] >= required \/ g[n + 1] > n + 1
    OBVIOUS
  <2>1. g[n] \in Nat /\ g[n] >= 1 /\ (g[n] >= required \/ g[n] > n)
    BY <1>7
  <2>2. n + 1 \in 0..required /\ (n + 1) - 1 = n /\ n + 1 > 0 /\ n + 1 # 0
    OBVIOUS
  <2>3. g[n + 1] = IF g[n] < required THEN 2 * g[n] ELSE g[n]
    <3>1. g[n + 1] = Round(g, capacity, required, n + 1)
      BY <1>5, <2>2
    <3> QED BY <2>1, <2>2, <3>1 DEF Round
  <2> QED BY <2>1, <2>3
<1>8. Nat \subseteq T
  <2> HIDE DEF T
  <2> QED BY <1>6, <1>7, NatSetInduction
<1>9. g[required] \in Nat /\ (g[required] >= required \/ g[required] > required)
  BY <1>8
<1> QED BY <1>3, <1>9

-----------------------------------------------------------------------------
(* The storage.                                                            *)

LEMMA ObjectType ==
  ASSUME NEW x \in Object
  PROVE  /\ x.mutable \in BOOLEAN /\ x.data \in Seq(Cell) /\ x.count \in Nat
         /\ x.capacity \in Nat /\ x.capacity = Len(x.data) /\ x.count <= Len(x.data)
         /\ \A k \in 1..x.count : x.data[k] \in Item
BY DEF Object

\* What makes an object.
LEMMA ObjectMade ==
  ASSUME NEW class \in BOOLEAN, NEW data \in Seq(Cell), NEW count \in 0..Len(data),
         \A k \in 1..count : data[k] \in Item
  PROVE  [mutable |-> class, data |-> data, count |-> count, capacity |-> Len(data)] \in Object
<1>1. Len(data) \in Nat /\ count \in Nat /\ count <= Len(data)
  OBVIOUS
<1> QED BY <1>1 DEF Object

LEMMA ContentsItems ==
  ASSUME NEW x \in Object
  PROVE  /\ Contents(x) \in Seq(Item) /\ Len(Contents(x)) = x.count
         /\ \A k \in 1..x.count : Contents(x)[k] = x.data[k]
<1>1. x.data \in Seq(Cell) /\ x.count \in 0..Len(x.data) /\ \A k \in 1..x.count : x.data[k] \in Item
  BY ObjectType
<1> DEFINE data == x.data
           count == x.count
           items == SubSeq(data, 1, count)
<1>2. Contents(x) = items
  BY DEF Contents
<1>3. data \in Seq(Cell) /\ count \in 0..Len(data) /\ \A k \in 1..count : data[k] \in Item
  BY <1>1
<1> HIDE DEF data, count
<1>4. items \in Seq(Cell) /\ Len(items) = count /\ \A k \in 1..count : items[k] = data[k]
  BY <1>3, PrefixItems
<1> HIDE DEF items
<1>5. items \in Seq(Item)
  BY <1>3, <1>4
<1> QED BY <1>2, <1>4, <1>5 DEF data, count

\* A result sized for its items holds them.
LEMMA ExactObject ==
  ASSUME NEW class \in BOOLEAN, NEW items \in Seq(Item)
  PROVE  /\ Exact(class, items) \in Object
         /\ Exact(class, items).mutable = class
         /\ Contents(Exact(class, items)) = items
<1>1. /\ items \in Seq(Cell) /\ Len(items) \in 0..Len(items)
      /\ \A k \in 1..Len(items) : items[k] \in Item
  BY DEF Cell
<1>2. Exact(class, items) \in Object
  BY <1>1, ObjectMade DEF Exact
<1>3. Exact(class, items).mutable = class
  BY DEF Exact
<1>4. Contents(Exact(class, items)) = SubSeq(items, 1, Len(items))
  BY DEF Exact, Contents
<1>5. SubSeq(items, 1, Len(items)) = items
  OBVIOUS
<1> QED BY <1>2, <1>3, <1>4, <1>5

\* An array that grows keeps its cells.
LEMMA ResizedItems ==
  ASSUME NEW data \in Seq(Cell), NEW size \in Nat, size >= Len(data)
  PROVE  /\ Resized(data, size) \in Seq(Cell) /\ Len(Resized(data, size)) = size
         /\ \A k \in 1..Len(data) : Resized(data, size)[k] = data[k]
<1> DEFINE s == [k \in 1..size |-> IF k <= Len(data) THEN data[k] ELSE Unset]
<1>1. ASSUME NEW k \in 1..size PROVE s[k] \in Cell
  BY DEF Cell
<1>2. s \in Seq(Cell)
  BY <1>1
<1>3. Len(s) = size /\ \A k \in 1..Len(data) : s[k] = data[k]
  OBVIOUS
<1> QED BY <1>2, <1>3 DEF Resized

\* What makes room for one item more changes nothing else.
LEMMA ReallocatedObject ==
  ASSUME NEW x \in Object
  PROVE  LET y == Reallocated(x, x.count + 1) IN
         /\ y \in Object
         /\ y.mutable = x.mutable
         /\ y.count = x.count
         /\ y.count < Len(y.data)
         /\ \A k \in 1..x.count : y.data[k] = x.data[k]
<1> DEFINE y == Reallocated(x, x.count + 1)
           size == NewCapacity(x.capacity, x.count + 1)
           longer == Resized(x.data, size)
<1>1. /\ x.mutable \in BOOLEAN /\ x.data \in Seq(Cell) /\ x.count \in Nat
      /\ x.capacity \in Nat /\ x.capacity = Len(x.data) /\ x.count <= Len(x.data)
      /\ \A k \in 1..x.count : x.data[k] \in Item
  BY ObjectType
<1>2. CASE x.count + 1 <= x.capacity
  <2>1. y = x
    BY <1>2 DEF Reallocated
  <2>2. x.count < Len(x.data)
    BY <1>1, <1>2
  <2> HIDE DEF y
  <2> QED BY <2>1, <2>2 DEF y
<1>3. CASE ~(x.count + 1 <= x.capacity)
  <2>1. x.count + 1 \in Nat
    BY <1>1
  <2>2. size \in Nat /\ size >= x.count + 1
    BY <1>1, <2>1, CapacityEnough
  <2> HIDE DEF size
  <2>3. size >= Len(x.data)
    BY <1>1, <1>3, <2>2
  <2>4. longer \in Seq(Cell) /\ Len(longer) = size /\ \A k \in 1..Len(x.data) : longer[k] = x.data[k]
    BY <1>1, <2>2, <2>3, ResizedItems
  <2> HIDE DEF longer
  <2>5. y = [x EXCEPT !.data = longer, !.capacity = size]
    BY <1>3 DEF Reallocated, longer, size
  <2>6. x = [mutable |-> x.mutable, data |-> x.data, count |-> x.count, capacity |-> x.capacity]
    BY DEF Object
  <2> HIDE DEF y
  <2>7. y = [mutable |-> x.mutable, data |-> longer, count |-> x.count, capacity |-> Len(longer)]
    BY <2>4, <2>5, <2>6
  <2>8. \A k \in 1..x.count : longer[k] = x.data[k] /\ longer[k] \in Item
    BY <1>1, <2>4
  <2>9. x.count \in 0..Len(longer) /\ x.count < Len(longer)
    BY <1>1, <2>2, <2>4
  <2>10. y \in Object
    BY <1>1, <2>4, <2>7, <2>8, <2>9, ObjectMade
  <2>11. y.mutable = x.mutable /\ y.count = x.count /\ y.data = longer
    BY <2>7
  <2> QED BY <2>8, <2>9, <2>10, <2>11 DEF y
<1> QED BY <1>2, <1>3

\* An insertion makes an object with the item inserted where it belongs.
LEMMA InsertedObject ==
  ASSUME NEW x \in Object, NEW item \in Item, NEW index \in 0..x.count
  PROVE  LET y == Inserted(x, item, index) IN
         /\ y \in Object
         /\ y.mutable = x.mutable
         /\ y.count = x.count + 1
         /\ Contents(y) = InsertAt(Contents(x), index + 1, item)
<1> DEFINE r == Reallocated(x, x.count + 1)
           moved == [k \in DOMAIN r.data |-> IF k \in index + 2..r.count + 1 THEN r.data[k - 1]
                                             ELSE r.data[k]]
           data == [moved EXCEPT ![index + 1] = item]
           y == Inserted(x, item, index)
<1>1. x.count \in Nat /\ \A k \in 1..x.count : x.data[k] \in Item
  BY ObjectType
<1>2. /\ r \in Object /\ r.mutable = x.mutable /\ r.count = x.count /\ r.count < Len(r.data)
      /\ \A k \in 1..x.count : r.data[k] = x.data[k]
  BY ReallocatedObject
<1> HIDE DEF r
<1>3. r.mutable \in BOOLEAN /\ r.data \in Seq(Cell) /\ r.capacity = Len(r.data)
  BY <1>2, ObjectType
<1>4. r = [mutable |-> r.mutable, data |-> r.data, count |-> r.count, capacity |-> r.capacity]
  BY <1>2 DEF Object
<1>5. DOMAIN r.data = 1..Len(r.data) /\ Len(r.data) \in Nat
  BY <1>3
<1>6. moved \in Seq(Cell) /\ Len(moved) = Len(r.data)
  <2>1. ASSUME NEW k \in 1..Len(r.data) PROVE moved[k] \in Cell
    <3>1. CASE k \in index + 2..r.count + 1
      <4>1. k - 1 \in 1..Len(r.data)
        BY <1>1, <1>2, <1>5, <3>1
      <4> QED BY <1>3, <1>5, <3>1, <4>1
    <3>2. CASE k \notin index + 2..r.count + 1
      BY <1>3, <1>5, <3>2
    <3> QED BY <3>1, <3>2
  <2>2. moved = [k \in 1..Len(r.data) |-> moved[k]]
    BY <1>5
  <2> HIDE DEF moved
  <2> QED BY <1>5, <2>1, <2>2
<1>7. \A k \in 1..Len(r.data) :
        moved[k] = IF k \in index + 2..x.count + 1 THEN r.data[k - 1] ELSE r.data[k]
  BY <1>2, <1>5
<1>8. Shifted(r, index) = [r EXCEPT !.data = moved]
  BY DEF Shifted
<1> HIDE DEF moved
<1>9. /\ data \in Seq(Cell) /\ Len(data) = Len(r.data) /\ data[index + 1] = item
      /\ \A k \in 1..Len(r.data) : k # index + 1 => data[k] = moved[k]
  <2>1. index + 1 \in 1..Len(r.data)
    BY <1>1, <1>2, <1>5
  <2>2. item \in Cell
    BY DEF Cell
  <2> QED BY <1>6, <2>1, <2>2
<1> HIDE DEF data
<1>10. /\ \A k \in 1..index : data[k] = x.data[k]
       /\ \A k \in index + 1..x.count : data[k + 1] = x.data[k]
  <2>1. ASSUME NEW k \in 1..index PROVE data[k] = x.data[k]
    <3>1. k \in 1..Len(r.data) /\ k # index + 1 /\ k \notin index + 2..x.count + 1 /\ k \in 1..x.count
      BY <1>1, <1>2, <1>5
    <3> QED BY <1>2, <1>7, <1>9, <3>1
  <2>2. ASSUME NEW k \in index + 1..x.count PROVE data[k + 1] = x.data[k]
    <3>1. k + 1 \in 1..Len(r.data) /\ k + 1 # index + 1 /\ k + 1 \in index + 2..x.count + 1
          /\ k \in 1..x.count /\ (k + 1) - 1 = k
      BY <1>1, <1>2, <1>5
    <3>2. data[k + 1] = r.data[k]
      BY <1>7, <1>9, <3>1
    <3> QED BY <1>2, <3>1, <3>2
  <2> QED BY <2>1, <2>2
<1>11. y = [mutable |-> x.mutable, data |-> data, count |-> x.count + 1, capacity |-> Len(data)]
  <2> DEFINE roomy == Shifted(r, index)
  <2>1. roomy = [mutable |-> r.mutable, data |-> moved, count |-> r.count, capacity |-> r.capacity]
    BY <1>4, <1>8
  <2>2. y = [roomy EXCEPT !.data[index + 1] = item, !.count = @ + 1]
    BY DEF Inserted, r
  <2> HIDE DEF roomy, y
  <2>3. y = [mutable |-> r.mutable, data |-> data, count |-> r.count + 1, capacity |-> r.capacity]
    BY <2>1, <2>2 DEF data
  <2> QED BY <1>2, <1>3, <1>9, <2>3
<1> HIDE DEF y
<1>12. ASSUME NEW k \in 1..x.count + 1 PROVE data[k] \in Item
  <2>1. CASE k \in 1..index
    BY <1>1, <1>10, <2>1
  <2>2. CASE k = index + 1
    BY <1>9, <2>2
  <2>3. CASE k \in index + 2..x.count + 1
    <3>1. k - 1 \in index + 1..x.count /\ k - 1 \in 1..x.count /\ (k - 1) + 1 = k
      BY <1>1, <2>3
    <3>2. data[k] = x.data[k - 1]
      BY <1>10, <3>1
    <3> QED BY <1>1, <3>1, <3>2
  <2> QED BY <1>1, <2>1, <2>2, <2>3
<1>13. y \in Object
  <2>1. x.count + 1 \in 0..Len(data) /\ x.mutable \in BOOLEAN
    BY <1>1, <1>2, <1>3, <1>5, <1>9
  <2> QED BY <1>9, <1>11, <1>12, <2>1, ObjectMade
<1>14. y.mutable = x.mutable /\ y.count = x.count + 1 /\ y.data = data
  BY <1>11
<1>15. Contents(y) = InsertAt(Contents(x), index + 1, item)
  <2> DEFINE s == Contents(x)
             t == Contents(y)
             u == InsertAt(s, index + 1, item)
  <2>1. s \in Seq(Item) /\ Len(s) = x.count /\ \A k \in 1..x.count : s[k] = x.data[k]
    BY ContentsItems
  <2>2. t \in Seq(Item) /\ Len(t) = x.count + 1 /\ \A k \in 1..x.count + 1 : t[k] = data[k]
    BY <1>13, <1>14, ContentsItems
  <2> HIDE DEF s, t
  <2>3. index + 1 \in 1..Len(s) + 1 /\ (index + 1) - 1 = index
    BY <1>1, <2>1
  <2>4. /\ u \in Seq(Item) /\ Len(u) = Len(s) + 1 /\ u[index + 1] = item
        /\ \A k \in 1..index : u[k] = s[k]
        /\ \A k \in index + 1..Len(s) : u[k + 1] = s[k]
    BY <2>1, <2>3, InsertAtItems
  <2> HIDE DEF u
  <2>5. ASSUME NEW k \in 1..x.count + 1 PROVE t[k] = u[k]
    <3>1. CASE k \in 1..index
      <4>1. k \in 1..x.count
        BY <1>1, <3>1
      <4>2. t[k] = data[k] /\ u[k] = s[k] /\ s[k] = x.data[k] /\ data[k] = x.data[k]
        BY <1>1, <1>10, <2>1, <2>2, <2>4, <3>1, <4>1
      <4> QED BY <4>2
    <3>2. CASE k = index + 1
      BY <1>9, <2>2, <2>4, <3>2
    <3>3. CASE k \in index + 2..x.count + 1
      <4>1. k - 1 \in index + 1..x.count /\ k - 1 \in 1..x.count /\ (k - 1) + 1 = k
        BY <1>1, <3>3
      <4>2. t[k] = x.data[k - 1]
        BY <1>10, <2>2, <4>1
      <4>3. u[k] = s[k - 1]
        BY <2>1, <2>4, <4>1
      <4> QED BY <2>1, <4>1, <4>2, <4>3
    <3> QED BY <1>1, <3>1, <3>2, <3>3
  <2>6. t = u
    BY <1>1, <2>1, <2>2, <2>4, <2>5, SameItems
  <2> QED BY <2>6 DEF s, t, u
<1> QED BY <1>13, <1>14, <1>15 DEF y
-----------------------------------------------------------------------------
(* What the operations do.                                                 *)

(* A call on object o either throws, or gives a mutable object the value   *)
(* that the abstract specification names, or makes an object of the class  *)
(* of o that has that value.  A value that is given is a longer one.       *)
Rejects(o, c) ==
  ~Values!Accepted(Contents(objects[o]), c) /\ objects' = objects

Changes(o, c) ==
  /\ Values!Accepted(Contents(objects[o]), c)
  /\ c.op \in Values!Updates /\ objects[o].mutable
  /\ \E x \in Object :
       /\ x.mutable = objects[o].mutable
       /\ x.count = objects[o].count + 1
       /\ Contents(x) = Values!Result(Contents(objects[o]), c)
       /\ objects' = [objects EXCEPT ![o] = x]

Makes(o, c) ==
  /\ Values!Accepted(Contents(objects[o]), c)
  /\ ~(c.op \in Values!Updates /\ objects[o].mutable)
  /\ \E x \in Object :
       /\ x.mutable = objects[o].mutable
       /\ Contents(x) = Values!Result(Contents(objects[o]), c)
       /\ objects' = Append(objects, x)

Performs(o, c) ==
  /\ c.object = o /\ c.op \notin {"new", "copy", "none"}
  /\ UNCHANGED cursor
  /\ Rejects(o, c) \/ Changes(o, c) \/ Makes(o, c)

\* The operators of the community modules are the same in both modules.
LEMMA InsertAtSame ==
  \A s, i, e : Values!InsertAt(s, i, e) = InsertAt(s, i, e)
BY DEF Values!InsertAt, InsertAt

LEMMA FlattenSame ==
  \A seqs : Values!FlattenSeq(seqs) = FlattenSeq(seqs)
BY DEF Values!FlattenSeq, FlattenSeq

\* An insertion that is accepted.
LEMMA InsertionPerforms ==
  ASSUME ObjectsOK, NEW o \in DOMAIN objects, NEW item \in Item,
         NEW index \in 0..objects[o].count, NEW c,
         c.object = o, c.op \in {"append", "prepend", "insert_at"},
         Values!Accepted(Contents(objects[o]), c),
         Values!Result(Contents(objects[o]), c) = InsertAt(Contents(objects[o]), index + 1, item),
         Update(o, Inserted(objects[o], item, index))
  PROVE  Performs(o, c)
<1> DEFINE x == objects[o]
           y == Inserted(x, item, index)
<1>1. x \in Object
  BY DEF ObjectsOK
<1>2. /\ y \in Object /\ y.mutable = x.mutable /\ y.count = x.count + 1
      /\ Contents(y) = InsertAt(Contents(x), index + 1, item)
  BY <1>1, InsertedObject
<1>3. Contents(y) = Values!Result(Contents(x), c)
  BY <1>2
<1>4. c.op \in Values!Updates /\ c.op \notin {"new", "copy", "none"}
  BY DEF Values!Updates
<1>5. Update(o, y)
  OBVIOUS
<1> HIDE DEF y
<1>6. CASE y.mutable
  <2>1. objects' = [objects EXCEPT ![o] = y] /\ UNCHANGED cursor
    BY <1>5, <1>6 DEF Update
  <2>2. Changes(o, c)
    BY <1>2, <1>3, <1>4, <1>6, <2>1 DEF Changes
  <2> QED BY <1>4, <2>1, <2>2 DEF Performs
<1>7. CASE ~y.mutable
  <2>1. objects' = Append(objects, y) /\ UNCHANGED cursor
    BY <1>5, <1>7 DEF Update, Make
  <2>2. Makes(o, c)
    BY <1>2, <1>3, <1>4, <1>7, <2>1 DEF Makes
  <2> QED BY <1>4, <2>1, <2>2 DEF Performs
<1> QED BY <1>6, <1>7

LEMMA AppendPerforms ==
  ASSUME ObjectsOK, NEW o \in DOMAIN objects, AppendItem(o)
  PROVE  Performs(o, call')
<1> DEFINE x == objects[o]
<1>1. PICK item \in Added :
        Called("append", o, <<item>>) /\ Update(o, Inserted(x, item, x.count))
  BY DEF AppendItem
<1>2. x \in Object /\ item \in Item
  BY ArraySequenceAssumption DEF ObjectsOK
<1>3. x.count \in 0..x.count /\ Len(Contents(x)) = x.count
  BY <1>2, ObjectType, ContentsItems
<1>4. call'.op = "append" /\ call'.object = o /\ call'.args[1] = item
  BY <1>1 DEF Called
<1>5. Values!Accepted(Contents(x), call')
  BY <1>4 DEF Values!Accepted
<1>6. Values!Result(Contents(x), call') = InsertAt(Contents(x), x.count + 1, item)
  BY <1>3, <1>4, InsertAtSame DEF Values!Result, Values!InsertPosition, Values!Updates
<1> QED BY <1>1, <1>2, <1>3, <1>4, <1>5, <1>6, InsertionPerforms

LEMMA PrependPerforms ==
  ASSUME ObjectsOK, NEW o \in DOMAIN objects, Prepend(o)
  PROVE  Performs(o, call')
<1> DEFINE x == objects[o]
<1>1. PICK item \in Added :
        Called("prepend", o, <<item>>) /\ Update(o, Inserted(x, item, 0))
  BY DEF Prepend
<1>2. x \in Object /\ item \in Item
  BY ArraySequenceAssumption DEF ObjectsOK
<1>3. 0 \in 0..x.count
  BY <1>2, ObjectType
<1>4. call'.op = "prepend" /\ call'.object = o /\ call'.args[1] = item
  BY <1>1 DEF Called
<1>5. Values!Accepted(Contents(x), call')
  BY <1>4 DEF Values!Accepted
<1>6. Values!Result(Contents(x), call') = InsertAt(Contents(x), 0 + 1, item)
  BY <1>4, InsertAtSame DEF Values!Result, Values!InsertPosition, Values!Updates
<1> QED BY <1>1, <1>2, <1>3, <1>4, <1>5, <1>6, InsertionPerforms

LEMMA InsertPerforms ==
  ASSUME ObjectsOK, NEW o \in DOMAIN objects, InsertItem(o)
  PROVE  Performs(o, call')
<1> DEFINE x == objects[o]
<1>1. PICK item \in Added, index \in Index :
        /\ Called("insert_at", o, <<item, index>>)
        /\ IF index < 0 \/ index > x.count THEN Throw ELSE Update(o, Inserted(x, item, index))
  BY DEF InsertItem
<1>2. x \in Object /\ item \in Item /\ index \in Int
  BY ArraySequenceAssumption DEF ObjectsOK
<1>3. x.count \in Nat /\ Len(Contents(x)) = x.count
  BY <1>2, ObjectType, ContentsItems
<1>4. call'.op = "insert_at" /\ call'.object = o /\ call'.args[1] = item /\ call'.args[2] = index
  BY <1>1 DEF Called
<1>5. Values!Accepted(Contents(x), call') <=> index \in 0..x.count
  BY <1>3, <1>4 DEF Values!Accepted
<1>6. Values!Result(Contents(x), call') = InsertAt(Contents(x), index + 1, item)
  BY <1>4, InsertAtSame DEF Values!Result, Values!InsertPosition, Values!Updates
<1>7. CASE index \in 0..x.count
  <2>1. Update(o, Inserted(x, item, index))
    BY <1>1, <1>2, <1>3, <1>7
  <2> QED BY <1>2, <1>4, <1>5, <1>6, <1>7, <2>1, InsertionPerforms
<1>8. CASE index \notin 0..x.count
  <2>1. Throw
    BY <1>1, <1>2, <1>3, <1>8
  <2>2. Rejects(o, call') /\ UNCHANGED cursor
    BY <1>5, <1>8, <2>1 DEF Rejects, Throw
  <2> QED BY <1>4, <2>2 DEF Performs
<1> QED BY <1>7, <1>8
\* A result that is made like the object.
LEMMA MakingPerforms ==
  ASSUME ObjectsOK, NEW o \in DOMAIN objects, NEW items \in Seq(Item), NEW c,
         c.object = o, c.op \in {"get_sub_sequence", "concat", "map", "where", "slice"},
         Values!Accepted(Contents(objects[o]), c),
         Values!Result(Contents(objects[o]), c) = items,
         MakeLike(o, items)
  PROVE  Performs(o, c)
<1> DEFINE x == objects[o]
           y == Exact(x.mutable, items)
<1>1. x \in Object
  BY DEF ObjectsOK
<1>2. x.mutable \in BOOLEAN
  BY <1>1, ObjectType
<1>3. y \in Object /\ y.mutable = x.mutable /\ Contents(y) = items
  BY <1>2, ExactObject
<1>4. c.op \notin Values!Updates /\ c.op \notin {"new", "copy", "none"}
  BY DEF Values!Updates
<1>5. objects' = Append(objects, y) /\ UNCHANGED cursor
  BY DEF MakeLike, Make
<1> HIDE DEF y
<1>6. Makes(o, c)
  BY <1>3, <1>4, <1>5 DEF Makes
<1> QED BY <1>4, <1>5, <1>6 DEF Performs

LEMMA SubSequencePerforms ==
  ASSUME ObjectsOK, NEW o \in DOMAIN objects, GetSubSequence(o)
  PROVE  Performs(o, call')
<1> DEFINE x == objects[o]
           value == Contents(x)
<1>1. PICK start \in Index, end \in Index :
        /\ Called("get_sub_sequence", o, <<start, end>>)
        /\ IF start < 0 \/ end < 0 \/ start >= x.count \/ end >= x.count \/ start > end
           THEN Throw
           ELSE MakeLike(o, [k \in 1..end - start + 1 |-> x.data[start + k]])
  BY DEF GetSubSequence
<1>2. x \in Object /\ start \in Int /\ end \in Int
  BY ArraySequenceAssumption DEF ObjectsOK
<1>3. /\ x.count \in Nat /\ value \in Seq(Item) /\ Len(value) = x.count
      /\ \A k \in 1..x.count : value[k] = x.data[k]
  BY <1>2, ObjectType, ContentsItems
<1>4. /\ call'.op = "get_sub_sequence" /\ call'.object = o
      /\ call'.args[1] = start /\ call'.args[2] = end
  BY <1>1 DEF Called
<1> HIDE DEF value
<1>5. Values!Accepted(value, call')
        <=> start \in 0..x.count - 1 /\ end \in 0..x.count - 1 /\ start <= end
  BY <1>3, <1>4 DEF Values!Accepted, Values!IsIndex
<1>6. Values!Result(value, call') = SubSeq(value, start + 1, end + 1)
  BY <1>4 DEF Values!Result, Values!Updates
<1>7. CASE start \in 0..x.count - 1 /\ end \in 0..x.count - 1 /\ start <= end
  <2> DEFINE items == [k \in 1..end - start + 1 |-> x.data[start + k]]
             part == SubSeq(value, start + 1, end + 1)
  <2>1. MakeLike(o, items)
    BY <1>1, <1>2, <1>3, <1>7
  <2>2. end - start + 1 \in Nat
    BY <1>2, <1>7
  <2>3. \A k \in 1..end - start + 1 : start + k \in 1..x.count /\ x.data[start + k] = value[start + k]
    BY <1>2, <1>3, <1>7
  <2>4. part \in Seq(Item) /\ Len(part) = end - start + 1
        /\ \A k \in 1..end - start + 1 : part[k] = value[start + k]
    BY <1>2, <1>3, <1>7, <2>3
  <2>5. items \in Seq(Item) /\ Len(items) = end - start + 1
    <3>1. \A k \in 1..end - start + 1 : items[k] \in Item
      BY <1>3, <2>3
    <3> QED BY <2>2, <3>1
  <2>6. \A k \in 1..end - start + 1 : items[k] = part[k]
    BY <2>3, <2>4
  <2> HIDE DEF items, part
  <2>7. items = part
    BY <2>4, <2>5, <2>6, SameItems
  <2>8. Values!Accepted(Contents(x), call') /\ Values!Result(Contents(x), call') = items
    BY <1>5, <1>6, <1>7, <2>7 DEF value, part
  <2> QED BY <1>4, <2>1, <2>5, <2>8, MakingPerforms
<1>8. CASE ~(start \in 0..x.count - 1 /\ end \in 0..x.count - 1 /\ start <= end)
  <2>1. Throw
    BY <1>1, <1>2, <1>3, <1>8
  <2>2. Rejects(o, call') /\ UNCHANGED cursor
    BY <1>5, <1>8, <2>1 DEF Rejects, Throw, value
  <2> QED BY <1>4, <2>2 DEF Performs
<1> QED BY <1>7, <1>8

LEMMA ConcatPerforms ==
  ASSUME ObjectsOK, NEW o \in DOMAIN objects, Concat(o)
  PROVE  Performs(o, call')
<1> DEFINE x == objects[o]
<1>1. PICK other \in DOMAIN objects :
        Called("concat", o, <<other>>) /\ MakeLike(o, Contents(x) \o Contents(objects[other]))
  BY DEF Concat
<1>2. x \in Object /\ objects[other] \in Object
  BY DEF ObjectsOK
<1>3. Contents(x) \in Seq(Item) /\ Contents(objects[other]) \in Seq(Item)
  BY <1>2, ContentsItems
<1>4. Contents(x) \o Contents(objects[other]) \in Seq(Item)
  BY <1>3, ConcatItems
<1>5. call'.op = "concat" /\ call'.object = o /\ call'.args[1] = other
  BY <1>1 DEF Called
<1>6. Values!Accepted(Contents(x), call')
  BY <1>5 DEF Values!Accepted
<1>7. Values!Result(Contents(x), call') = Contents(x) \o Contents(objects[other])
  BY <1>5 DEF Values!Result, Values!Updates
<1> QED BY <1>1, <1>4, <1>5, <1>6, <1>7, MakingPerforms

LEMMA MapPerforms ==
  ASSUME ObjectsOK, NEW o \in DOMAIN objects, MapItems(o)
  PROVE  Performs(o, call')
<1> DEFINE x == objects[o]
           value == Contents(x)
           items == [k \in DOMAIN value |-> Func[value[k]]]
<1>1. Called("map", o, <<>>) /\ MakeLike(o, items)
  BY DEF MapItems
<1>2. x \in Object
  BY DEF ObjectsOK
<1>3. value \in Seq(Item)
  BY <1>2, ContentsItems
<1>4. items \in Seq(Item)
  <2> HIDE DEF value
  <2>1. DOMAIN value = 1..Len(value) /\ Len(value) \in Nat /\ \A k \in 1..Len(value) : Func[value[k]] \in Item
    BY <1>3, ArraySequenceAssumption
  <2> QED BY <2>1
<1>5. call'.op = "map" /\ call'.object = o
  BY <1>1 DEF Called
<1>6. Values!Accepted(value, call')
  BY <1>5 DEF Values!Accepted
<1>7. Values!Result(value, call') = items
  <2> HIDE DEF value
  <2> QED BY <1>5 DEF Values!Result, Values!Updates
<1> HIDE DEF items
<1> QED BY <1>1, <1>4, <1>5, <1>6, <1>7, MakingPerforms

LEMMA WherePerforms ==
  ASSUME ObjectsOK, NEW o \in DOMAIN objects, Where(o)
  PROVE  Performs(o, call')
<1> DEFINE x == objects[o]
           value == Contents(x)
           parts == [k \in DOMAIN value |-> IF value[k] \in Chosen THEN <<value[k]>> ELSE <<>>]
           items == FlattenSeq(parts)
<1>1. Called("where", o, <<>>) /\ MakeLike(o, items)
  BY DEF Where
<1>2. x \in Object
  BY DEF ObjectsOK
<1>3. value \in Seq(Item)
  BY <1>2, ContentsItems
<1>4. items \in Seq(Item)
  <2> HIDE DEF value
  <2>1. /\ DOMAIN value = 1..Len(value) /\ Len(value) \in Nat
        /\ \A k \in 1..Len(value) : parts[k] \in Seq(Item)
    BY <1>3
  <2>2. parts \in Seq(Seq(Item))
    BY <2>1
  <2> HIDE DEF parts
  <2> QED BY <2>2, FlattenType
<1>5. call'.op = "where" /\ call'.object = o
  BY <1>1 DEF Called
<1>6. Values!Accepted(value, call')
  BY <1>5 DEF Values!Accepted
<1>7. Values!Result(value, call') = items
  <2> HIDE DEF value
  <2>1. Values!Result(value, call') = Values!Kept(value)
    BY <1>5 DEF Values!Result, Values!Updates
  <2>2. Values!Kept(value) = Values!FlattenSeq(parts)
    BY DEF Values!Kept
  <2> HIDE DEF parts
  <2> QED BY <2>1, <2>2, FlattenSame
<1> HIDE DEF items
<1> QED BY <1>1, <1>4, <1>5, <1>6, <1>7, MakingPerforms
\* Removing more items than there are leaves none, as removing all of them does.
LEMMA NothingRemains ==
  ASSUME NEW s \in Seq(Item), NEW m \in Int, m > Len(s)
  PROVE  SubSeq(s, m, Len(s)) = <<>>
OBVIOUS

LEMMA SlicePerforms ==
  ASSUME ObjectsOK, NEW o \in DOMAIN objects, Slice(o)
  PROVE  Performs(o, call')
<1> DEFINE x == objects[o]
           value == Contents(x)
           length == x.count
<1>1. PICK index \in Index, count \in Index, other \in 0..Len(objects) :
        LET start   == IF index < 0 THEN index + length ELSE index
            removed == IF count > length - start THEN length - start ELSE count
        IN  /\ Called("slice", o, <<index, count, other>>)
            /\ IF count < 0 \/ length = 0 \/ start < 0 \/ start >= length
               THEN Throw
               ELSE MakeLike(o, SubSeq(value, 1, start)
                                  \o (IF other = 0 THEN <<>> ELSE Contents(objects[other]))
                                  \o SubSeq(value, start + removed + 1, length))
  BY DEF Slice
<1> DEFINE start   == IF index < 0 THEN index + length ELSE index
           removed == IF count > length - start THEN length - start ELSE count
           between == IF other = 0 THEN <<>> ELSE Contents(objects[other])
           before  == SubSeq(value, 1, start)
           behind  == SubSeq(value, start + removed + 1, length)
           Good    == count >= 0 /\ start \in 0..length - 1
<1>2. x \in Object /\ index \in Int /\ count \in Int
  BY ArraySequenceAssumption DEF ObjectsOK
<1>3. length \in Nat /\ value \in Seq(Item) /\ Len(value) = length
  BY <1>2, ObjectType, ContentsItems
<1>4. /\ call'.op = "slice" /\ call'.object = o
      /\ call'.args[1] = index /\ call'.args[2] = count /\ call'.args[3] = other
  BY <1>1 DEF Called
<1>5. between \in Seq(Item)
  <2>1. CASE other = 0
    BY <2>1
  <2>2. CASE other # 0
    <3>1. other \in DOMAIN objects
      BY <2>2 DEF ObjectsOK
    <3>2. objects[other] \in Object
      BY <3>1 DEF ObjectsOK
    <3> QED BY <2>2, <3>2, ContentsItems
  <2> QED BY <2>1, <2>2
<1>6. start \in Int
  BY <1>2, <1>3
<1>7. IF Good THEN MakeLike(o, before \o between \o behind) ELSE Throw
  <2>1. Good <=> ~(count < 0 \/ length = 0 \/ start < 0 \/ start >= length)
    <3> HIDE DEF start, length
    <3> QED BY <1>2, <1>3, <1>6
  <2>2. IF count < 0 \/ length = 0 \/ start < 0 \/ start >= length
        THEN Throw ELSE MakeLike(o, before \o between \o behind)
    BY <1>1
  <2> HIDE DEF Good, start, before, between, behind
  <2> QED BY <2>1, <2>2
<1>8. Values!FromEnd(value, index) = start
  BY <1>3 DEF Values!FromEnd
<1>9. Values!Accepted(value, call') <=> Good
  <2> HIDE DEF start
  <2>1. Values!Accepted(value, call') <=> count >= 0 /\ start \in 0..Len(value) - 1
    BY <1>4, <1>8 DEF Values!Accepted, Values!IsIndex
  <2> QED BY <1>3, <2>1
<1>10. Values!Replacement(call') = between
  <2>1. CASE other = 0
    BY <1>4, <2>1 DEF Values!Replacement
  <2>2. CASE other # 0
    <3>1. other \in DOMAIN objects
      BY <2>2 DEF ObjectsOK
    <3> QED BY <1>4, <2>2, <3>1 DEF Values!Replacement
  <2> QED BY <2>1, <2>2
<1>11. Values!Result(value, call')
         = before \o between \o SubSeq(value, start + count + 1, length)
  <2> HIDE DEF start, between, value
  <2>1. Values!Result(value, call') = Values!Spliced(value, index, count, between)
    BY <1>4, <1>10 DEF Values!Result, Values!Updates
  <2>2. Values!Spliced(value, index, count, between)
          = SubSeq(value, 1, start) \o between \o SubSeq(value, start + count + 1, Len(value))
    BY <1>8 DEF Values!Spliced
  <2> QED BY <1>3, <2>1, <2>2
<1>12. CASE Good
  <2>1. SubSeq(value, start + count + 1, length) = behind
    <3> HIDE DEF start, value, length
    <3>1. CASE count > length - start
      <4>1. start + count + 1 \in Int /\ start + count + 1 > Len(value)
        BY <1>2, <1>3, <1>6, <3>1
      <4>2. start + removed + 1 \in Int /\ start + removed + 1 > Len(value)
        BY <1>2, <1>3, <1>6, <3>1
      <4>3. SubSeq(value, start + count + 1, Len(value)) = <<>>
        BY <1>3, <4>1, NothingRemains
      <4> HIDE DEF removed
      <4>4. SubSeq(value, start + removed + 1, Len(value)) = <<>>
        BY <1>3, <4>2, NothingRemains
      <4> QED BY <1>3, <4>3, <4>4
    <3>2. CASE ~(count > length - start)
      BY <3>2
    <3> QED BY <3>1, <3>2
  <2>2. before \in Seq(Item) /\ behind \in Seq(Item)
    <3> HIDE DEF value
    <3>1. start \in 0..Len(value)
      BY <1>3, <1>12
    <3>2. before \in Seq(Item)
      <4> HIDE DEF start
      <4> QED BY <1>3, <3>1, PrefixItems
    <3>3. start + removed \in 0..Len(value)
      <4> HIDE DEF start, length
      <4> QED BY <1>2, <1>3, <1>6, <1>12, <3>1
    <3>4. SubSeq(value, start + removed + 1, Len(value)) \in Seq(Item)
      <4> DEFINE n == start + removed
      <4> HIDE DEF n
      <4>1. n \in 0..Len(value)
        BY <3>3 DEF n
      <4>2. SubSeq(value, n + 1, Len(value)) \in Seq(Item)
        BY <1>3, <4>1, SuffixItems
      <4> QED BY <4>2 DEF n
    <3>5. behind = SubSeq(value, start + removed + 1, Len(value))
      BY <1>3
    <3> QED BY <3>2, <3>4, <3>5
  <2> HIDE DEF before, behind, between, Good, start, removed
  <2> DEFINE items == before \o between \o behind
  <2>3. items \in Seq(Item)
    <3>1. before \o between \in Seq(Item)
      BY <1>5, <2>2, ConcatItems
    <3> QED BY <2>2, <3>1, ConcatItems
  <2>4. MakeLike(o, items)
    BY <1>7, <1>12
  <2>5. Values!Result(value, call') = items
    BY <1>11, <2>1
  <2>6. Values!Accepted(value, call')
    BY <1>9, <1>12
  <2> HIDE DEF items
  <2> QED BY <1>4, <2>3, <2>4, <2>5, <2>6, MakingPerforms
<1>13. CASE ~Good
  <2> HIDE DEF Good, before, behind, between
  <2>1. Throw
    BY <1>7, <1>13
  <2>2. Rejects(o, call') /\ UNCHANGED cursor
    BY <1>9, <1>13, <2>1 DEF Rejects, Throw
  <2> QED BY <1>4, <2>2 DEF Performs
<1> QED BY <1>12, <1>13

\* Every operation of an object performs the call that it makes.
LEMMA OperationPerforms ==
  ASSUME ObjectsOK, NEW o \in DOMAIN objects,
         \/ AppendItem(o) \/ Prepend(o) \/ InsertItem(o) \/ GetSubSequence(o)
         \/ Concat(o) \/ MapItems(o) \/ Where(o) \/ Slice(o)
  PROVE  Performs(o, call')
BY AppendPerforms, PrependPerforms, InsertPerforms, SubSequencePerforms,
   ConcatPerforms, MapPerforms, WherePerforms, SlicePerforms

\* A constructor makes an object of the items it is given.
LEMMA ConstructMakes ==
  ASSUME Construct
  PROVE  /\ call'.op = "new" /\ UNCHANGED cursor
         /\ \E x \in Object : Contents(x) = call'.args /\ objects' = Append(objects, x)
<1>1. PICK class \in BOOLEAN, items \in Initial :
        Called("new", 0, items) /\ Make(Exact(class, items))
  BY DEF Construct
<1>2. items \in Seq(Item)
  BY ArraySequenceAssumption
<1>3. Exact(class, items) \in Object /\ Contents(Exact(class, items)) = items
  BY <1>2, ExactObject
<1>4. call'.op = "new" /\ call'.args = items
  BY <1>1 DEF Called
<1>5. objects' = Append(objects, Exact(class, items)) /\ UNCHANGED cursor
  BY <1>1 DEF Make
<1> QED BY <1>3, <1>4, <1>5

\* A copy has the items, whatever its class.
LEMMA CopyMakes ==
  ASSUME ObjectsOK, NEW o \in DOMAIN objects, Copy(o)
  PROVE  /\ call'.op = "copy" /\ call'.object = o /\ UNCHANGED cursor
         /\ \E x \in Object : Contents(x) = Contents(objects[o]) /\ objects' = Append(objects, x)
<1> DEFINE x == objects[o]
<1>1. PICK class \in BOOLEAN :
        Called("copy", o, <<>>) /\ Make([x EXCEPT !.mutable = class])
  BY DEF Copy
<1> DEFINE y == [x EXCEPT !.mutable = class]
<1>2. x \in Object
  BY DEF ObjectsOK
<1>3. x = [mutable |-> x.mutable, data |-> x.data, count |-> x.count, capacity |-> x.capacity]
  BY <1>2 DEF Object
<1>4. /\ x.data \in Seq(Cell) /\ x.capacity = Len(x.data) /\ x.count \in 0..Len(x.data)
      /\ \A k \in 1..x.count : x.data[k] \in Item
  BY <1>2, ObjectType
<1>5. y = [mutable |-> class, data |-> x.data, count |-> x.count, capacity |-> Len(x.data)]
  BY <1>3, <1>4
<1>6. Make(y)
  BY <1>1
<1> HIDE DEF y
<1>7. y \in Object
  BY <1>4, <1>5, ObjectMade
<1>8. Contents(y) = Contents(x)
  BY <1>5 DEF Contents
<1>9. call'.op = "copy" /\ call'.object = o
  BY <1>1 DEF Called
<1>10. objects' = Append(objects, y) /\ UNCHANGED cursor
  BY <1>6 DEF Make
<1> QED BY <1>7, <1>8, <1>9, <1>10
-----------------------------------------------------------------------------
(* The invariant.                                                          *)

LEMMA InitStorage == Init => StorageInv
<1> SUFFICES ASSUME Init PROVE StorageInv
  OBVIOUS
<1>1. ObjectsOK
  BY DEF Init, ObjectsOK
<1>2. CursorOK
  BY DEF Init, CursorOK
<1> QED BY <1>1, <1>2 DEF StorageInv

\* An enumerator does not mind objects that are added, or mutable ones that grow.
LEMMA CursorKept ==
  ASSUME CursorOK, ObjectsOK, ObjectsOK', cursor' = cursor,
         \A k \in DOMAIN objects :
           /\ k \in DOMAIN objects'
           /\ objects[k].count <= objects'[k].count
           /\ objects'[k] = objects[k] \/ objects'[k].mutable
  PROVE  CursorOK'
<1> SUFFICES ASSUME cursor # <<>> PROVE CursorOK'
  BY DEF CursorOK
<1> DEFINE c == cursor[1]
           x == objects[c.object]
           y == objects'[c.object]
<1>1. /\ cursor = <<c>> /\ c \in Cursor /\ c.object \in DOMAIN objects
      /\ c.count <= x.count /\ -1 <= c.index /\ c.index <= c.count
      /\ Len(c.visited) = Given(c)
      /\ ~x.mutable => \A k \in 1..Len(c.visited) : c.visited[k] = x.data[k]
  BY DEF CursorOK
<1>2. c.object \in DOMAIN objects' /\ x.count <= y.count /\ (y = x \/ y.mutable)
  BY <1>1
<1>3. x \in Object /\ y \in Object
  BY <1>1, <1>2 DEF ObjectsOK
<1>4. x.count \in Nat /\ y.count \in Nat /\ c.count \in Nat
  BY <1>1, <1>3, ObjectType DEF Cursor
<1>5. c.count <= y.count
  BY <1>1, <1>2, <1>4
<1>6. ~y.mutable => \A k \in 1..Len(c.visited) : c.visited[k] = y.data[k]
  BY <1>1, <1>2
<1>7. cursor'[1] = c
  OBVIOUS
<1> HIDE DEF c
<1> QED BY <1>1, <1>2, <1>5, <1>6, <1>7 DEF CursorOK

\* A new object.
LEMMA AppendKeeps ==
  ASSUME StorageInv, NEW x \in Object, objects' = Append(objects, x), UNCHANGED cursor
  PROVE  StorageInv'
<1>1. objects \in Seq(Object)
  BY DEF StorageInv, ObjectsOK
<1>2. /\ objects' \in Seq(Object) /\ Len(objects') = Len(objects) + 1
      /\ \A k \in 1..Len(objects) : objects'[k] = objects[k]
  BY <1>1, AppendItems
<1>3. DOMAIN objects = 1..Len(objects) /\ DOMAIN objects' = 1..Len(objects') /\ Len(objects) \in Nat
  BY <1>1, <1>2
<1>4. \A k \in DOMAIN objects : k \in DOMAIN objects' /\ objects'[k] = objects[k]
  BY <1>2, <1>3
<1>5. \A k \in DOMAIN objects : objects[k].count \in Nat
  BY <1>1, ObjectType
<1>6. \A k \in DOMAIN objects : objects[k].count <= objects'[k].count
  BY <1>4, <1>5
<1>7. ObjectsOK'
  BY <1>2 DEF ObjectsOK
<1>8. CursorOK'
  BY <1>4, <1>6, <1>7, CursorKept DEF StorageInv
<1> QED BY <1>7, <1>8 DEF StorageInv

\* A call that is performed.
LEMMA PerformsKeeps ==
  ASSUME StorageInv, NEW o \in DOMAIN objects, NEW c, Performs(o, c)
  PROVE  StorageInv'
<1>1. UNCHANGED cursor
  BY DEF Performs
<1>2. CASE Rejects(o, c)
  BY <1>1, <1>2 DEF Rejects, StorageInv, ObjectsOK, CursorOK
<1>3. CASE Makes(o, c)
  <2>1. PICK x \in Object : objects' = Append(objects, x)
    BY <1>3 DEF Makes
  <2> QED BY <1>1, <2>1, AppendKeeps
<1>4. CASE Changes(o, c)
  <2>1. PICK x \in Object :
          /\ x.mutable = objects[o].mutable
          /\ x.count = objects[o].count + 1
          /\ objects' = [objects EXCEPT ![o] = x]
    BY <1>4 DEF Changes
  <2>2. objects \in Seq(Object)
    BY DEF StorageInv, ObjectsOK
  <2>3. objects' \in Seq(Object) /\ DOMAIN objects' = DOMAIN objects
    BY <2>1, <2>2
  <2>4. x.mutable
    BY <1>4, <2>1 DEF Changes
  <2>5. \A k \in DOMAIN objects : objects'[k] = IF k = o THEN x ELSE objects[k]
    BY <2>1, <2>2
  <2>6. \A k \in DOMAIN objects : objects[k].count \in Nat
    BY <2>2, ObjectType
  <2>7. \A k \in DOMAIN objects :
          /\ k \in DOMAIN objects'
          /\ objects[k].count <= objects'[k].count
    BY <2>1, <2>3, <2>5, <2>6
  <2>8. \A k \in DOMAIN objects : objects'[k] = objects[k] \/ objects'[k].mutable
    BY <2>4, <2>5
  <2>9. ObjectsOK'
    BY <2>3 DEF ObjectsOK
  <2>10. CursorOK'
    BY <1>1, <2>7, <2>8, <2>9, CursorKept DEF StorageInv
  <2> QED BY <2>9, <2>10 DEF StorageInv
<1> QED BY <1>2, <1>3, <1>4 DEF Performs

\* An enumerator is made for the items there are.
LEMMA GetEnumeratorKeeps ==
  ASSUME StorageInv, NEW o \in DOMAIN objects, GetEnumerator(o)
  PROVE  StorageInv'
<1> DEFINE c == [object |-> o, count |-> objects[o].count, index |-> -1, visited |-> <<>>]
<1>1. cursor' = <<c>> /\ objects' = objects
  BY DEF GetEnumerator
<1>2. objects \in Seq(Object)
  BY DEF StorageInv, ObjectsOK
<1>3. objects[o].count \in Nat /\ o \in Nat
  BY <1>2, ObjectType
<1>4. c \in Cursor
  <2>1. <<>> \in Seq(Item) /\ -1 \in Int
    OBVIOUS
  <2> QED BY <1>3, <2>1 DEF Cursor
<1>5. /\ c.object = o /\ c.count = objects[o].count /\ c.index = -1 /\ c.visited = <<>>
      /\ Len(c.visited) = 0
  OBVIOUS
<1>6. cursor'[1] = c
  BY <1>1
<1> HIDE DEF c
<1>7. Len(c.visited) = Given(c)
  BY <1>3, <1>5 DEF Given
<1>8. CursorOK'
  BY <1>1, <1>3, <1>4, <1>5, <1>6, <1>7 DEF CursorOK
<1> QED BY <1>1, <1>2, <1>8 DEF StorageInv, ObjectsOK

\* An enumerator moves on and gives an item, until it has given all.
LEMMA MoveNextKeeps ==
  ASSUME StorageInv, MoveNext
  PROVE  StorageInv'
<1> DEFINE c == cursor[1]
           x == objects[c.object]
           index == c.index + 1
           item == x.data[index + 1]
           d == cursor'[1]
<1>1. cursor # <<>> /\ c.index < c.count /\ objects' = objects
  BY DEF MoveNext
<1>2. /\ c \in Cursor /\ c.object \in DOMAIN objects
      /\ c.count <= x.count /\ -1 <= c.index
      /\ Len(c.visited) = Given(c)
      /\ ~x.mutable => \A k \in 1..Len(c.visited) : c.visited[k] = x.data[k]
  BY <1>1 DEF StorageInv, CursorOK
<1>3. c.object \in Nat /\ c.count \in Nat /\ c.index \in Int /\ c.visited \in Seq(Item)
  BY <1>2 DEF Cursor
<1>4. x \in Object
  BY <1>2 DEF StorageInv, ObjectsOK
<1>5. x.count \in Nat /\ \A k \in 1..x.count : x.data[k] \in Item
  BY <1>4, ObjectType
<1>6. c = [object |-> c.object, count |-> c.count, index |-> c.index, visited |-> c.visited]
  BY <1>2 DEF Cursor
<1>7. Len(c.visited) = c.index + 1
  BY <1>1, <1>2 DEF Given
<1>8. cursor' = << IF index < c.count
                   THEN [[c EXCEPT !.index = index] EXCEPT !.visited = Append(@, item)]
                   ELSE [c EXCEPT !.index = index] >>
  <2>1. LET moved == [c EXCEPT !.index = index]
        IN  cursor' = << IF index < moved.count
                         THEN [moved EXCEPT !.visited =
                                 Append(@, objects[moved.object].data[index + 1])]
                         ELSE moved >>
    BY DEF MoveNext
  <2> DEFINE moved == [c EXCEPT !.index = index]
  <2>2. moved.count = c.count /\ moved.object = c.object
    BY <1>6
  <2> HIDE DEF c, index
  <2> QED BY <2>1, <2>2
<1>9. CASE index < c.count
  <2> DEFINE visited == Append(c.visited, item)
  <2>1. item \in Item
    <3> HIDE DEF x, c
    <3>1. index + 1 \in 1..x.count
      BY <1>2, <1>3, <1>5, <1>9
    <3> QED BY <1>5, <3>1
  <2>2. cursor' = << [object |-> c.object, count |-> c.count, index |-> index, visited |-> visited] >>
    <3>1. [[c EXCEPT !.index = index] EXCEPT !.visited = Append(@, item)]
            = [object |-> c.object, count |-> c.count, index |-> index, visited |-> visited]
      <4> DEFINE moved == [c EXCEPT !.index = index]
      <4> HIDE DEF c, index, item
      <4>1. moved = [object |-> c.object, count |-> c.count, index |-> index, visited |-> c.visited]
        BY <1>6
      <4> HIDE DEF moved
      <4>2. [moved EXCEPT !.visited = Append(@, item)]
              = [object |-> c.object, count |-> c.count, index |-> index, visited |-> visited]
        <5>1. moved.visited = c.visited
          BY <4>1
        <5> HIDE DEF visited
        <5>2. [moved EXCEPT !.visited = visited]
                = [object |-> c.object, count |-> c.count, index |-> index, visited |-> visited]
          BY <4>1
        <5> QED BY <5>1, <5>2 DEF visited
      <4> QED BY <4>2 DEF moved
    <3> QED BY <1>8, <1>9, <3>1
  <2>3. /\ visited \in Seq(Item) /\ Len(visited) = index + 1
        /\ \A k \in 1..Len(c.visited) : visited[k] = c.visited[k]
        /\ visited[index + 1] = item
    <3> HIDE DEF item, c
    <3> QED BY <1>3, <1>7, <2>1, AppendItems
  <2> HIDE DEF visited
  <2>4. /\ d.object = c.object /\ d.count = c.count /\ d.index = index /\ d.visited = visited
        /\ cursor' = <<d>>
    BY <2>2
  <2>5. d \in Cursor
    BY <1>3, <2>2, <2>3 DEF Cursor
  <2>6. ~x.mutable => \A k \in 1..Len(visited) : visited[k] = x.data[k]
    <3> HAVE ~x.mutable
    <3> TAKE k \in 1..Len(visited)
    <3>1. CASE k \in 1..Len(c.visited)
      BY <1>2, <2>3, <3>1
    <3>2. CASE k \notin 1..Len(c.visited)
      <4>1. k = index + 1
        BY <1>3, <1>7, <2>3, <3>2
      <4> QED BY <2>3, <4>1
    <3> QED BY <3>1, <3>2
  <2>7. Len(visited) = Given(d)
    BY <1>9, <2>3, <2>4 DEF Given
  <2> HIDE DEF d, x, c
  <2>8. -1 <= index /\ index <= c.count
    BY <1>2, <1>3, <1>9
  <2>9. CursorOK'
    <3> USE DEF d
    <3>1. CursorOK' <=>
            (cursor' # <<>> =>
               /\ cursor' = <<d>> /\ d \in Cursor /\ d.object \in DOMAIN objects'
               /\ d.count <= objects'[d.object].count /\ -1 <= d.index /\ d.index <= d.count
               /\ Len(d.visited) = Given(d)
               /\ ~objects'[d.object].mutable =>
                    \A k \in 1..Len(d.visited) : d.visited[k] = objects'[d.object].data[k])
      BY DEF CursorOK
    <3> HIDE DEF d
    <3> QED BY <1>1, <1>2, <2>4, <2>5, <2>6, <2>7, <2>8, <3>1 DEF x
  <2> QED BY <1>1, <2>9 DEF StorageInv, ObjectsOK
<1>10. CASE ~(index < c.count)
  <2>1. cursor' = << [object |-> c.object, count |-> c.count, index |-> index, visited |-> c.visited] >>
    <3>1. [c EXCEPT !.index = index]
            = [object |-> c.object, count |-> c.count, index |-> index, visited |-> c.visited]
      BY <1>6
    <3> QED BY <1>8, <1>10, <3>1
  <2>2. index = c.count
    BY <1>1, <1>3, <1>10
  <2>3. /\ d.object = c.object /\ d.count = c.count /\ d.index = index /\ d.visited = c.visited
        /\ cursor' = <<d>>
    BY <2>1
  <2>4. d \in Cursor
    BY <1>3, <2>1 DEF Cursor
  <2>5. Len(d.visited) = Given(d)
    BY <1>3, <1>7, <2>2, <2>3 DEF Given
  <2> HIDE DEF d, x, c
  <2>6. -1 <= index /\ index <= c.count
    BY <1>2, <1>3, <2>2
  <2>7. CursorOK'
    <3> USE DEF d
    <3>1. CursorOK' <=>
            (cursor' # <<>> =>
               /\ cursor' = <<d>> /\ d \in Cursor /\ d.object \in DOMAIN objects'
               /\ d.count <= objects'[d.object].count /\ -1 <= d.index /\ d.index <= d.count
               /\ Len(d.visited) = Given(d)
               /\ ~objects'[d.object].mutable =>
                    \A k \in 1..Len(d.visited) : d.visited[k] = objects'[d.object].data[k])
      BY DEF CursorOK
    <3> HIDE DEF d
    <3> QED BY <1>1, <1>2, <2>3, <2>4, <2>5, <2>6, <3>1 DEF x
  <2> QED BY <1>1, <2>7 DEF StorageInv, ObjectsOK
<1> QED BY <1>9, <1>10

LEMMA NextStorage == StorageInv /\ [Next]_vars => StorageInv'
<1> SUFFICES ASSUME StorageInv, [Next]_vars PROVE StorageInv'
  OBVIOUS
<1>1. ObjectsOK
  BY DEF StorageInv
<1>2. CASE Construct
  BY <1>2, ConstructMakes, AppendKeeps
<1>3. ASSUME NEW o \in DOMAIN objects, Copy(o) PROVE StorageInv'
  BY <1>1, <1>3, CopyMakes, AppendKeeps
<1>4. ASSUME NEW o \in DOMAIN objects,
             \/ AppendItem(o) \/ Prepend(o) \/ InsertItem(o) \/ GetSubSequence(o)
             \/ Concat(o) \/ MapItems(o) \/ Where(o) \/ Slice(o)
      PROVE  StorageInv'
  <2>1. Performs(o, call')
    BY <1>1, <1>4, OperationPerforms
  <2> QED BY <2>1, PerformsKeeps
<1>5. ASSUME NEW o \in DOMAIN objects, GetEnumerator(o) PROVE StorageInv'
  BY <1>5, GetEnumeratorKeeps
<1>6. CASE MoveNext
  BY <1>6, MoveNextKeeps
<1>7. CASE Return
  BY <1>7 DEF Return, StorageInv, ObjectsOK, CursorOK
<1>8. CASE UNCHANGED vars
  BY <1>8 DEF vars, StorageInv, ObjectsOK, CursorOK
<1> QED BY <1>2, <1>3, <1>4, <1>5, <1>6, <1>7, <1>8 DEF Next

LEMMA StorageInvariant == Spec => []StorageInv
<1> QED BY InitStorage, NextStorage, PTL DEF Spec
(* Every object knows the size of its array and has no more items than     *)
(* that, each of them an item that was stored: no call, on objects of      *)
(* either class, in any order and with any arguments, leaves a cell in use *)
(* that reserve, insert_at or a result did not write (array_sequence.h,    *)
(* dynamic_array.h).                                                       *)
THEOREM ArraySequenceTypes == Spec => []TypeOK
<1>1. StorageInv => TypeOK
  <2> SUFFICES ASSUME StorageInv, NEW o \in DOMAIN objects
               PROVE  /\ objects[o].data \in Seq(Cell)
                      /\ objects[o].capacity = Len(objects[o].data)
                      /\ objects[o].count \in 0..objects[o].capacity
                      /\ Contents(objects[o]) \in Seq(Item)
    BY DEF TypeOK
  <2>1. objects[o] \in Object
    BY DEF StorageInv, ObjectsOK
  <2>2. /\ objects[o].data \in Seq(Cell) /\ objects[o].count \in Nat
        /\ objects[o].capacity \in Nat /\ objects[o].capacity = Len(objects[o].data)
        /\ objects[o].count <= Len(objects[o].data)
    BY <2>1, ObjectType
  <2>3. Contents(objects[o]) \in Seq(Item)
    BY <2>1, ContentsItems
  <2> QED BY <2>2, <2>3
<1> QED BY <1>1, StorageInvariant, PTL

(* An enumeration never gives a cell that was not written, nor more items  *)
(* than there were when it began, however the mutable object grows and     *)
(* moves meanwhile; over an immutable object it gives the items in order.  *)
THEOREM ArraySequenceEnumerations == Spec => []EnumerationSound
<1>1. StorageInv => EnumerationSound
  <2> SUFFICES ASSUME StorageInv, cursor # <<>>
               PROVE  /\ cursor[1].visited \in Seq(Item)
                      /\ Len(cursor[1].visited) <= cursor[1].count
                      /\ ~objects[cursor[1].object].mutable =>
                           IsPrefix(cursor[1].visited, Contents(objects[cursor[1].object]))
    BY DEF EnumerationSound
  <2> DEFINE c == cursor[1]
             x == objects[c.object]
             s == c.visited
             t == Contents(x)
  <2>1. /\ c \in Cursor /\ c.object \in DOMAIN objects
        /\ c.count <= x.count /\ c.index <= c.count /\ Len(s) = Given(c)
        /\ ~x.mutable => \A k \in 1..Len(s) : s[k] = x.data[k]
    BY DEF StorageInv, CursorOK
  <2>2. s \in Seq(Item) /\ c.count \in Nat /\ c.index \in Int
    BY <2>1 DEF Cursor
  <2>3. x \in Object
    BY <2>1 DEF StorageInv, ObjectsOK
  <2>4. x.count \in Nat /\ t \in Seq(Item) /\ Len(t) = x.count /\ \A k \in 1..x.count : t[k] = x.data[k]
    BY <2>3, ObjectType, ContentsItems
  <2>5. Len(s) <= c.count
    BY <2>1, <2>2 DEF Given
  <2> HIDE DEF s, t, x, c
  <2>6. ASSUME ~x.mutable PROVE IsPrefix(s, t)
    <3>1. Len(s) \in 0..Len(t) /\ Len(s) \in 0..Len(s)
      BY <2>1, <2>2, <2>4, <2>5
    <3>2. SubSeq(t, 1, Len(s)) \in Seq(Item) /\ Len(SubSeq(t, 1, Len(s))) = Len(s)
          /\ \A k \in 1..Len(s) : SubSeq(t, 1, Len(s))[k] = t[k]
      BY <2>4, <3>1, PrefixItems
    <3>3. \A k \in 1..Len(s) : s[k] = t[k]
      BY <2>1, <2>4, <2>6, <3>1
    <3>4. SubSeq(t, 1, Len(s)) = s
      BY <2>2, <3>2, <3>3, SameItems
    <3>5. SubSeq(s, 1, Len(s)) = s
      BY <2>2
    <3> QED BY <3>1, <3>4, <3>5 DEF IsPrefix
  <2> QED BY <2>2, <2>5, <2>6 DEF s, t, x, c
<1> QED BY <1>1, StorageInvariant, PTL

-----------------------------------------------------------------------------
(* The refinement.                                                         *)

\* What the abstract specification knows of the objects.
ValuesOf(objs) == [o \in DOMAIN objs |-> Contents(objs[o])]

ClassesOf(objs) == [o \in DOMAIN objs |-> objs[o].mutable]

LEMMA ValuesType ==
  ASSUME NEW objs \in Seq(Object)
  PROVE  /\ ValuesOf(objs) \in Seq(Seq(Item)) /\ Len(ValuesOf(objs)) = Len(objs)
         /\ \A o \in 1..Len(objs) : ValuesOf(objs)[o] = Contents(objs[o])
         /\ ClassesOf(objs) \in Seq(BOOLEAN) /\ Len(ClassesOf(objs)) = Len(objs)
         /\ \A o \in 1..Len(objs) : ClassesOf(objs)[o] = objs[o].mutable
<1>1. DOMAIN objs = 1..Len(objs) /\ Len(objs) \in Nat
  OBVIOUS
<1>2. \A o \in 1..Len(objs) : Contents(objs[o]) \in Seq(Item) /\ objs[o].mutable \in BOOLEAN
  BY ContentsItems, ObjectType
<1>3. /\ ValuesOf(objs) \in Seq(Seq(Item)) /\ Len(ValuesOf(objs)) = Len(objs)
      /\ \A o \in 1..Len(objs) : ValuesOf(objs)[o] = Contents(objs[o])
  BY <1>1, <1>2 DEF ValuesOf
<1>4. /\ ClassesOf(objs) \in Seq(BOOLEAN) /\ Len(ClassesOf(objs)) = Len(objs)
      /\ \A o \in 1..Len(objs) : ClassesOf(objs)[o] = objs[o].mutable
  BY <1>1, <1>2 DEF ClassesOf
<1> QED BY <1>3, <1>4

\* A new object is a new value and a new class.
LEMMA ValuesAppend ==
  ASSUME NEW objs \in Seq(Object), NEW x \in Object
  PROVE  /\ ValuesOf(Append(objs, x)) = Append(ValuesOf(objs), Contents(x))
         /\ ClassesOf(Append(objs, x)) = Append(ClassesOf(objs), x.mutable)
<1> DEFINE longer == Append(objs, x)
           values == Append(ValuesOf(objs), Contents(x))
           classes == Append(ClassesOf(objs), x.mutable)
           Line == Seq(Item)
<1>1. longer \in Seq(Object) /\ Len(longer) = Len(objs) + 1 /\ longer[Len(objs) + 1] = x
      /\ \A k \in 1..Len(objs) : longer[k] = objs[k]
  BY AppendItems
<1> HIDE DEF longer
<1>2. Len(objs) \in Nat /\ Contents(x) \in Line /\ x.mutable \in BOOLEAN
  BY ContentsItems, ObjectType
<1>3. values = ValuesOf(longer)
  <2>1. /\ ValuesOf(objs) \in Seq(Line) /\ Len(ValuesOf(objs)) = Len(objs)
        /\ \A o \in 1..Len(objs) : ValuesOf(objs)[o] = Contents(objs[o])
    BY ValuesType
  <2>2. /\ ValuesOf(longer) \in Seq(Line) /\ Len(ValuesOf(longer)) = Len(objs) + 1
        /\ \A o \in 1..Len(objs) + 1 : ValuesOf(longer)[o] = Contents(longer[o])
    BY <1>1, ValuesType
  <2> DEFINE new == Contents(x)
             old == ValuesOf(objs)
  <2> HIDE DEF Line, new, old
  <2>3. new \in Line /\ old \in Seq(Line)
    BY <1>2, <2>1 DEF new, old
  <2>4. /\ Append(old, new) \in Seq(Line) /\ Len(Append(old, new)) = Len(old) + 1
        /\ Append(old, new)[Len(old) + 1] = new
        /\ \A k \in 1..Len(old) : Append(old, new)[k] = old[k]
    BY <2>3, AppendItems
  <2>5. values = Append(old, new)
    BY DEF old, new
  <2> HIDE DEF values
  <2>6. Len(old) = Len(objs) /\ \A o \in 1..Len(objs) : old[o] = Contents(objs[o])
    BY <2>1 DEF old
  <2>7. ASSUME NEW k \in 1..Len(objs) + 1 PROVE values[k] = ValuesOf(longer)[k]
    <3>1. CASE k \in 1..Len(objs)
      BY <1>1, <1>2, <2>2, <2>4, <2>5, <2>6, <3>1
    <3>2. CASE k = Len(objs) + 1
      BY <1>1, <2>2, <2>4, <2>5, <2>6, <3>2 DEF new
    <3> QED BY <1>2, <3>1, <3>2
  <2>8. values \in Seq(Line) /\ Len(values) = Len(objs) + 1
    BY <2>4, <2>5, <2>6
  <2> QED BY <2>2, <2>7, <2>8, SameItems
<1>4. classes = ClassesOf(longer)
  <2>1. /\ ClassesOf(objs) \in Seq(BOOLEAN) /\ Len(ClassesOf(objs)) = Len(objs)
        /\ \A o \in 1..Len(objs) : ClassesOf(objs)[o] = objs[o].mutable
    BY ValuesType
  <2>2. /\ ClassesOf(longer) \in Seq(BOOLEAN) /\ Len(ClassesOf(longer)) = Len(objs) + 1
        /\ \A o \in 1..Len(objs) + 1 : ClassesOf(longer)[o] = longer[o].mutable
    BY <1>1, ValuesType
  <2> DEFINE new == x.mutable
             old == ClassesOf(objs)
             Class == BOOLEAN
  <2> HIDE DEF new, old, Class
  <2>3. new \in Class /\ old \in Seq(Class)
    BY <1>2, <2>1 DEF new, old, Class
  <2>4. /\ Append(old, new) \in Seq(Class) /\ Len(Append(old, new)) = Len(old) + 1
        /\ Append(old, new)[Len(old) + 1] = new
        /\ \A k \in 1..Len(old) : Append(old, new)[k] = old[k]
    BY <2>3, AppendItems
  <2>5. classes = Append(old, new)
    BY DEF old, new
  <2> HIDE DEF classes
  <2>6. Len(old) = Len(objs) /\ \A o \in 1..Len(objs) : old[o] = objs[o].mutable
    BY <2>1 DEF old
  <2>7. ASSUME NEW k \in 1..Len(objs) + 1 PROVE classes[k] = ClassesOf(longer)[k]
    <3>1. CASE k \in 1..Len(objs)
      BY <1>1, <1>2, <2>2, <2>4, <2>5, <2>6, <3>1
    <3>2. CASE k = Len(objs) + 1
      BY <1>1, <2>2, <2>4, <2>5, <2>6, <3>2 DEF new
    <3> QED BY <1>2, <3>1, <3>2
  <2>8. classes \in Seq(Class) /\ Len(classes) = Len(objs) + 1 /\ ClassesOf(longer) \in Seq(Class)
    BY <2>2, <2>4, <2>5, <2>6 DEF Class
  <2> QED BY <2>2, <2>7, <2>8, SameItems
<1> QED BY <1>3, <1>4 DEF longer

\* A changed object is a changed value; its class is the same.
LEMMA ValuesExcept ==
  ASSUME NEW objs \in Seq(Object), NEW x \in Object, NEW o \in DOMAIN objs,
         x.mutable = objs[o].mutable
  PROVE  /\ ValuesOf([objs EXCEPT ![o] = x]) = [ValuesOf(objs) EXCEPT ![o] = Contents(x)]
         /\ ClassesOf([objs EXCEPT ![o] = x]) = ClassesOf(objs)
<1> DEFINE changed == [objs EXCEPT ![o] = x]
<1>1. /\ DOMAIN changed = DOMAIN objs
      /\ \A k \in DOMAIN objs : changed[k] = IF k = o THEN x ELSE objs[k]
  OBVIOUS
<1> HIDE DEF changed
<1>2. ValuesOf(changed) = [ValuesOf(objs) EXCEPT ![o] = Contents(x)]
  BY <1>1 DEF ValuesOf
<1>3. ClassesOf(changed) = ClassesOf(objs)
  <2>1. \A k \in DOMAIN objs : changed[k].mutable = objs[k].mutable
    BY <1>1
  <2> QED BY <1>1, <2>1 DEF ClassesOf
<1> QED BY <1>2, <1>3 DEF changed
\* A constructor does what it promises.
LEMMA ConstructSimulates ==
  ASSUME ObjectsOK, NEW x \in Object, objects' = Append(objects, x),
         \/ call'.op = "new" /\ Contents(x) = call'.args
         \/ /\ call'.op = "copy" /\ call'.object \in DOMAIN objects
            /\ Contents(x) = Contents(objects[call'.object])
  PROVE  Values!Construct
<1>1. objects \in Seq(Object)
  BY DEF ObjectsOK
<1>2. /\ ValuesOf(objects') = Append(ValuesOf(objects), Contents(x))
      /\ ClassesOf(objects') = Append(ClassesOf(objects), x.mutable)
  BY <1>1, ValuesAppend
<1>3. x.mutable \in BOOLEAN
  BY ObjectType
<1>4. /\ DOMAIN ValuesOf(objects) = DOMAIN objects
      /\ \A o \in DOMAIN objects : ValuesOf(objects)[o] = Contents(objects[o])
  BY DEF ValuesOf
<1>5. \E class \in BOOLEAN : ClassesOf(objects') = Append(ClassesOf(objects), class)
  BY <1>2, <1>3
<1>6. \/ call'.op = "new" /\ ValuesOf(objects') = Append(ValuesOf(objects), call'.args)
      \/ /\ call'.op = "copy" /\ call'.object \in DOMAIN ValuesOf(objects)
         /\ ValuesOf(objects') = Append(ValuesOf(objects), ValuesOf(objects)[call'.object])
  BY <1>2, <1>4
<1> QED BY <1>5, <1>6 DEF Values!Construct, ValuesOf, ClassesOf

\* A call that is performed has the outcome that the specification names.
LEMMA PerformsSimulates ==
  ASSUME ObjectsOK, NEW o \in DOMAIN objects, Performs(o, call')
  PROVE  Values!Operate
<1> DEFINE values == ValuesOf(objects)
           classes == ClassesOf(objects)
           value == Contents(objects[o])
           result == Values!Result(value, call')
<1>1. objects \in Seq(Object)
  BY DEF ObjectsOK
<1>2. /\ values \in Seq(Seq(Item)) /\ Len(values) = Len(objects) /\ DOMAIN values = DOMAIN objects
      /\ values[o] = value
      /\ DOMAIN classes = DOMAIN objects /\ classes[o] = objects[o].mutable
  <2>1. values \in Seq(Seq(Item)) /\ Len(values) = Len(objects)
    BY <1>1, ValuesType
  <2> QED BY <2>1 DEF ValuesOf, ClassesOf
<1>3. call'.object = o /\ call'.op \notin {"new", "copy", "none"}
  BY DEF Performs
<1>4. Len(objects) \in Nat
  BY <1>1
<1> DEFINE Outcome == CASE ~Values!Accepted(value, call') -> values
                        [] Values!Accepted(value, call') /\ call'.op \in Values!Updates /\ classes[o] ->
                             [values EXCEPT ![o] = result]
                        [] OTHER -> Append(values, result)
<1>5. Values!Outcome(call') = Outcome
  BY <1>2, <1>3 DEF Values!Outcome, ValuesOf, ClassesOf
<1>6. /\ ValuesOf(objects') = Outcome
      /\ ClassesOf(objects') = IF Len(ValuesOf(objects')) = Len(values) THEN classes
                               ELSE Append(classes, classes[o])
  <2>1. CASE Rejects(o, call')
    <3>1. ValuesOf(objects') = values /\ ClassesOf(objects') = classes
      BY <2>1 DEF Rejects
    <3>2. ~Values!Accepted(value, call')
      BY <2>1 DEF Rejects
    <3> HIDE DEF values, classes, value, result
    <3> QED BY <3>1, <3>2
  <2>2. CASE Changes(o, call')
    <3>1. PICK x \in Object :
            x.mutable = objects[o].mutable /\ Contents(x) = result
            /\ objects' = [objects EXCEPT ![o] = x]
      BY <2>2 DEF Changes
    <3>2. Values!Accepted(value, call') /\ call'.op \in Values!Updates /\ objects[o].mutable
      BY <2>2 DEF Changes
    <3>3. ValuesOf(objects') = [values EXCEPT ![o] = result] /\ ClassesOf(objects') = classes
      BY <1>1, <3>1, ValuesExcept
    <3>4. classes[o]
      BY <1>2, <3>2
    <3>5. Len(ValuesOf(objects')) = Len(values)
      <4> HIDE DEF values
      <4> QED BY <1>2, <3>3
    <3> HIDE DEF values, classes, value, result
    <3> QED BY <3>2, <3>3, <3>4, <3>5
  <2>3. CASE Makes(o, call')
    <3>1. PICK x \in Object :
            x.mutable = objects[o].mutable /\ Contents(x) = result
            /\ objects' = Append(objects, x)
      BY <2>3 DEF Makes
    <3>2. Values!Accepted(value, call') /\ ~(call'.op \in Values!Updates /\ objects[o].mutable)
      BY <2>3 DEF Makes
    <3>3. /\ ValuesOf(objects') = Append(values, result)
          /\ ClassesOf(objects') = Append(classes, objects[o].mutable)
      BY <1>1, <3>1, ValuesAppend
    <3>4. ClassesOf(objects') = Append(classes, classes[o])
      BY <1>2, <3>3
    <3>5. ~(call'.op \in Values!Updates /\ classes[o])
      BY <1>2, <3>2
    <3>6. Len(ValuesOf(objects')) # Len(values)
      <4>1. Len(ValuesOf(objects')) = Len(objects) + 1
        <5> DEFINE longer == Append(objects, x)
        <5>1. longer \in Seq(Object) /\ Len(longer) = Len(objects) + 1 /\ objects' = longer
          BY <1>1, <3>1, AppendItems
        <5> HIDE DEF longer
        <5>2. Len(ValuesOf(longer)) = Len(longer)
          BY <5>1, ValuesType
        <5> QED BY <5>1, <5>2
      <4>2. Len(values) = Len(objects)
        BY <1>2
      <4> HIDE DEF values
      <4> QED BY <1>4, <4>1, <4>2
    <3> HIDE DEF values, classes, value, result
    <3> QED BY <3>2, <3>3, <3>4, <3>5, <3>6
  <2> QED BY <2>1, <2>2, <2>3 DEF Performs
<1>7. ValuesOf(objects') = Values!Outcome(call')
  BY <1>5, <1>6
<1> HIDE DEF Outcome
<1> QED BY <1>2, <1>3, <1>6, <1>7 DEF Values!Operate, ValuesOf, ClassesOf

\* Every step is a step of the specification or changes nothing that it sees.
LEMMA StepSimulates ==
  ObjectsOK /\ [Next]_vars
    => [Values!Construct \/ Values!Operate \/ Values!Return]_<<ValuesOf(objects), ClassesOf(objects), call>>
<1> SUFFICES ASSUME ObjectsOK, [Next]_vars
             PROVE  \/ Values!Construct \/ Values!Operate \/ Values!Return
                    \/ UNCHANGED <<objects, call>>
  OBVIOUS
<1>1. CASE Construct
  BY <1>1, ConstructMakes, ConstructSimulates
<1>2. ASSUME NEW o \in DOMAIN objects, Copy(o) PROVE Values!Construct
  BY <1>2, CopyMakes, ConstructSimulates
<1>3. ASSUME NEW o \in DOMAIN objects,
             \/ AppendItem(o) \/ Prepend(o) \/ InsertItem(o) \/ GetSubSequence(o)
             \/ Concat(o) \/ MapItems(o) \/ Where(o) \/ Slice(o)
      PROVE  Values!Operate
  BY <1>3, OperationPerforms, PerformsSimulates
<1>4. ASSUME NEW o \in DOMAIN objects, GetEnumerator(o) PROVE UNCHANGED <<objects, call>>
  BY <1>4 DEF GetEnumerator
<1>5. CASE MoveNext
  BY <1>5 DEF MoveNext
<1>6. CASE Return
  BY <1>6 DEF Return, NoCall, Values!Return, Values!NoCall
<1>7. CASE UNCHANGED vars
  BY <1>7 DEF vars
<1> QED BY <1>1, <1>2, <1>3, <1>4, <1>5, <1>6, <1>7 DEF Next

(* Whatever is called in whatever order, the objects have the values that  *)
(* sequence.h promises, each of the class it was made of: a mutable object *)
(* takes an update, an immutable one makes another object and stays as it  *)
(* is, and no capacity, shifting or copying of array_sequence.h shows.     *)
THEOREM ArraySequenceImplements == Spec => ImplementsSequence
<1>1. Init => Values!Init
  BY DEF Init, Values!Init, NoCall, Values!NoCall
<1>2. StorageInv /\ [Next]_vars
        => [Values!Construct \/ Values!Operate \/ Values!Return]_<<
              [o \in DOMAIN objects |-> Contents(objects[o])],
              [o \in DOMAIN objects |-> objects[o].mutable], call>>
  BY StepSimulates DEF StorageInv, ValuesOf, ClassesOf
<1> QED BY <1>1, <1>2, StorageInvariant, PTL DEF Spec, ImplementsSequence, Values!Spec
=============================================================================
