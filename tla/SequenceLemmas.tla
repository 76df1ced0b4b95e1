----------------------------- MODULE SequenceLemmas -----------------------------
(***************************************************************************)
(* What the proofs of several modules need of the natural numbers and of   *)
(* the sequence operators of the community modules.                        *)
(***************************************************************************)
EXTENDS Integers, SequencesExt, WellFoundedInduction, TLAPS

-----------------------------------------------------------------------------
(* Induction over the natural numbers, with a set for the predicate.       *)

\* A well-founded relation on the natural numbers that has the pairs in order.
LEMMA NatLess ==
  \E R : IsWellFoundedOn(R, Nat) /\ \A m, n \in Nat : m < n => <<m, n>> \in R
<1>1. IsWellFoundedOn(OpToRel(<, Nat), Nat)
  BY NatLessThanWellFounded
<1>2. \A m, n \in Nat : m < n => <<m, n>> \in OpToRel(<, Nat)
  BY DEF OpToRel
<1> QED BY <1>1, <1>2

\* Numbers that there are some of have a smallest one.
LEMMA Smallest ==
  ASSUME NEW T, T \subseteq Nat, T # {}
  PROVE  \E n \in T : \A m \in T : n <= m
<1>1. PICK R : IsWellFoundedOn(R, Nat) /\ \A m, n \in Nat : m < n => <<m, n>> \in R
  BY NatLess
<1>2. IsWellFoundedOn(R, Nat)
  BY <1>1
<1>3. PICK n \in T : \A m \in T : ~ (<<m, n>> \in R)
  BY <1>2, WFMin, Zenon
<1>4. \A m \in T : ~(m < n)
  BY <1>1, <1>3, Zenon
<1> QED BY <1>4

\* A set that has 0 and the successor of each number in it has them all.
LEMMA NatSetInduction ==
  ASSUME NEW T, 0 \in T, \A n \in Nat : n \in T => n + 1 \in T
  PROVE  Nat \subseteq T
<1> DEFINE U == Nat \ T
<1>1. SUFFICES ASSUME U # {} PROVE FALSE
  OBVIOUS
<1>2. PICK n \in U : \A m \in U : n <= m
  <2> HIDE DEF U
  <2>1. U \subseteq Nat
    BY DEF U
  <2> QED BY <1>1, <2>1, Smallest
<1>3. n # 0 /\ n \in Nat /\ n \notin T
  OBVIOUS
<1>4. n - 1 \in Nat /\ n - 1 \notin U
  BY <1>2, <1>3
<1>5. n - 1 \in T
  BY <1>4
<1>6. (n - 1) + 1 \in T
  BY <1>4, <1>5
<1>7. n \in T
  BY <1>3, <1>6
<1> QED BY <1>3, <1>7

-----------------------------------------------------------------------------
(* Concatenations.                                                         *)

\* The type and the items of a concatenation.
LEMMA ConcatItems ==
  ASSUME NEW S, NEW s \in Seq(S), NEW t \in Seq(S)
  PROVE  /\ s \o t \in Seq(S) /\ Len(s \o t) = Len(s) + Len(t)
         /\ \A k \in 1..Len(s) : (s \o t)[k] = s[k]
         /\ \A k \in 1..Len(t) : (s \o t)[Len(s) + k] = t[k]
OBVIOUS

\* Sequences of one length with the same items are the same.
LEMMA SameItems ==
  ASSUME NEW S, NEW s \in Seq(S), NEW t \in Seq(S), Len(s) = Len(t),
         \A k \in 1..Len(s) : s[k] = t[k]
  PROVE  s = t
OBVIOUS

LEMMA ConcatEmpty ==
  ASSUME NEW S, NEW s \in Seq(S)
  PROVE  s \o <<>> = s /\ <<>> \o s = s
OBVIOUS

LEMMA ConcatIsEmpty ==
  ASSUME NEW S, NEW s \in Seq(S), NEW t \in Seq(S), s \o t = <<>>
  PROVE  s = <<>> /\ t = <<>>
<1>1. Len(s \o t) = Len(s) + Len(t) /\ Len(s) \in Nat /\ Len(t) \in Nat
  BY ConcatItems
<1>2. Len(s \o t) = 0
  OBVIOUS
<1>3. Len(s) = 0 /\ Len(t) = 0
  BY <1>1, <1>2
<1> QED BY <1>3

\* Concatenation is associative.
LEMMA ConcatAssociative ==
  ASSUME NEW S, NEW s \in Seq(S), NEW t \in Seq(S), NEW u \in Seq(S)
  PROVE  (s \o t) \o u = s \o (t \o u)
<1> DEFINE left == (s \o t) \o u
           right == s \o (t \o u)
<1>1. s \o t \in Seq(S) /\ t \o u \in Seq(S) /\ Len(s \o t) = Len(s) + Len(t)
      /\ Len(t \o u) = Len(t) + Len(u)
  BY ConcatItems
<1>2. left \in Seq(S) /\ right \in Seq(S) /\ Len(left) = Len(right)
  BY <1>1, ConcatItems
<1>3. \A k \in 1..Len(left) : left[k] = right[k]
  BY <1>1
<1> HIDE DEF left, right
<1>4. left = right
  BY <1>2, <1>3, SameItems
<1> QED BY <1>4 DEF left, right

\* The same, closed: the provers go astray in nested concatenations.
Associates(s, t, u) == (s \o t) \o u = s \o (t \o u)

LEMMA ConcatAssociates ==
  ASSUME NEW S, NEW s \in Seq(S), NEW t \in Seq(S), NEW u \in Seq(S)
  PROVE  Associates(s, t, u)
BY ConcatAssociative DEF Associates

\* The type and the items of what an item was appended to.
LEMMA AppendItems ==
  ASSUME NEW S, NEW s \in Seq(S), NEW e \in S
  PROVE  /\ Append(s, e) \in Seq(S) /\ Len(Append(s, e)) = Len(s) + 1
         /\ \A k \in 1..Len(s) : Append(s, e)[k] = s[k]
         /\ Append(s, e)[Len(s) + 1] = e
         /\ Append(s, e) # <<>>
OBVIOUS

\* Appending is to concatenate one item.
LEMMA AppendConcat ==
  ASSUME NEW S, NEW s \in Seq(S), NEW e \in S
  PROVE  Append(s, e) = s \o <<e>>
OBVIOUS

\* The items up to a place, and those after it.
LEMMA PrefixItems ==
  ASSUME NEW S, NEW s \in Seq(S), NEW n \in 0..Len(s)
  PROVE  /\ SubSeq(s, 1, n) \in Seq(S) /\ Len(SubSeq(s, 1, n)) = n
         /\ \A k \in 1..n : SubSeq(s, 1, n)[k] = s[k]
OBVIOUS

LEMMA SuffixItems ==
  ASSUME NEW S, NEW s \in Seq(S), NEW n \in 0..Len(s)
  PROVE  /\ SubSeq(s, n + 1, Len(s)) \in Seq(S) /\ Len(SubSeq(s, n + 1, Len(s))) = Len(s) - n
         /\ \A k \in 1..Len(s) - n : SubSeq(s, n + 1, Len(s))[k] = s[n + k]
OBVIOUS

\* A sequence with items is its front and its last item.
LEMMA FrontAndLast ==
  ASSUME NEW S, NEW s \in Seq(S), s # <<>>
  PROVE  /\ Len(s) >= 1 /\ s[Len(s)] \in S
         /\ SubSeq(s, 1, Len(s) - 1) \in Seq(S) /\ Len(SubSeq(s, 1, Len(s) - 1)) = Len(s) - 1
         /\ s = Append(SubSeq(s, 1, Len(s) - 1), s[Len(s)])
<1> DEFINE front == SubSeq(s, 1, Len(s) - 1)
           t == Append(front, s[Len(s)])
<1>1. Len(s) >= 1 /\ s[Len(s)] \in S
  OBVIOUS
<1>2. front \in Seq(S) /\ Len(front) = Len(s) - 1 /\ \A k \in 1..Len(s) - 1 : front[k] = s[k]
  <2>1. Len(s) - 1 \in 0..Len(s)
    BY <1>1
  <2> QED BY <2>1, PrefixItems
<1> HIDE DEF front
<1>3. t \in Seq(S) /\ Len(t) = Len(s) /\ \A k \in 1..Len(s) : s[k] = t[k]
  BY <1>1, <1>2
<1> HIDE DEF t
<1>4. s = t
  BY <1>3, SameItems
<1> QED BY <1>1, <1>2, <1>4 DEF t, front

\* A sequence is its items up to any place, then those after it.
LEMMA CutAnywhere ==
  ASSUME NEW S, NEW s \in Seq(S), NEW n \in 0..Len(s)
  PROVE  /\ SubSeq(s, 1, n) \in Seq(S) /\ Len(SubSeq(s, 1, n)) = n
         /\ SubSeq(s, n + 1, Len(s)) \in Seq(S) /\ Len(SubSeq(s, n + 1, Len(s))) = Len(s) - n
         /\ s = SubSeq(s, 1, n) \o SubSeq(s, n + 1, Len(s))
<1> DEFINE a == SubSeq(s, 1, n)
           b == SubSeq(s, n + 1, Len(s))
           t == a \o b
<1>1. a \in Seq(S) /\ Len(a) = n /\ \A k \in 1..n : a[k] = s[k]
  BY PrefixItems
<1>2. b \in Seq(S) /\ Len(b) = Len(s) - n /\ \A k \in 1..Len(s) - n : b[k] = s[n + k]
  BY SuffixItems
<1> HIDE DEF a, b
<1>3. t \in Seq(S) /\ Len(t) = Len(s)
  <2>1. Len(t) = Len(a) + Len(b) /\ t \in Seq(S)
    BY <1>1, <1>2, ConcatItems
  <2>2. Len(a) + Len(b) = Len(s)
    BY <1>1, <1>2
  <2> QED BY <2>1, <2>2
<1>4. \A k \in 1..Len(s) : s[k] = t[k]
  <2> TAKE k \in 1..Len(s)
  <2>1. CASE k <= n
    BY <1>1, <1>2, <2>1
  <2>2. CASE k > n
    <3>1. k - n \in 1..Len(s) - n /\ n + (k - n) = k
      BY <2>2
    <3>2. b[k - n] = s[k]
      BY <1>2, <3>1
    <3>3. t[Len(a) + (k - n)] = b[k - n]
      BY <1>1, <1>2, <3>1, ConcatItems
    <3>4. Len(a) + (k - n) = k
      BY <1>1, <3>1
    <3> HIDE DEF t
    <3> QED BY <3>2, <3>3, <3>4
  <2>3. k <= n \/ k > n
    OBVIOUS
  <2> HIDE DEF t
  <2> QED BY <2>1, <2>2, <2>3
<1> HIDE DEF t
<1>5. s = t
  BY <1>3, <1>4, SameItems
<1> QED BY <1>1, <1>2, <1>5 DEF t, a, b

\* What a concatenation begins with, and what comes after that.
LEMMA ConcatParts ==
  ASSUME NEW S, NEW s \in Seq(S), NEW t \in Seq(S)
  PROVE  /\ SubSeq(s \o t, 1, Len(s)) = s
         /\ SubSeq(s \o t, Len(s) + 1, Len(s \o t)) = t
<1> DEFINE u == s \o t
<1>1. /\ u \in Seq(S) /\ Len(u) = Len(s) + Len(t)
      /\ \A k \in 1..Len(s) : u[k] = s[k]
      /\ \A k \in 1..Len(t) : u[Len(s) + k] = t[k]
  BY ConcatItems
<1> HIDE DEF u
<1>2. SubSeq(u, 1, Len(s)) = s
  BY <1>1
<1>3. SubSeq(u, Len(s) + 1, Len(u)) = t
  <2> DEFINE b == SubSeq(u, Len(s) + 1, Len(u))
  <2>1. b \in Seq(S) /\ Len(b) = Len(t) /\ \A k \in 1..Len(b) : b[k] = t[k]
    BY <1>1
  <2> HIDE DEF b
  <2>2. b = t
    BY <2>1, SameItems
  <2> QED BY <2>2 DEF b
<1> QED BY <1>2, <1>3 DEF u

-----------------------------------------------------------------------------
(* FlattenSeq.  It is defined by a recursive function, which stands for a  *)
(* CHOOSE: that there is such a function, and but one, is shown by         *)
(* induction over the length.                                              *)

\* The function in the definition of FlattenSeq, up to a place.
FlattenStep(seqs, f, i) == IF i = 1 THEN seqs[i] ELSE f[i - 1] \o seqs[i]

FlattensUpTo(f, seqs, n) == \A i \in 1..n : f[i] = FlattenStep(seqs, f, i)

\* What continues such a function.
LEMMA FlattensLonger ==
  ASSUME NEW S, NEW seqs, NEW n \in Nat, seqs[n + 1] \in Seq(S),
         NEW f \in [1..n -> Seq(S)], FlattensUpTo(f, seqs, n)
  PROVE  \E g \in [1..n + 1 -> Seq(S)] : FlattensUpTo(g, seqs, n + 1)
<1> DEFINE value == FlattenStep(seqs, f, n + 1)
           g == [i \in 1..n + 1 |-> IF i <= n THEN f[i] ELSE value]
<1>1. value \in Seq(S)
  <2>1. CASE n = 0
    BY <2>1 DEF FlattenStep
  <2>2. CASE n # 0
    <3>1. n + 1 # 1 /\ (n + 1) - 1 = n /\ n \in 1..n
      BY <2>2
    <3>2. f[n] \in Seq(S) /\ value = f[n] \o seqs[n + 1]
      BY <3>1 DEF FlattenStep
    <3> HIDE DEF value
    <3> QED BY <3>2, ConcatItems
  <2> QED BY <2>1, <2>2
<1> HIDE DEF value
<1>2. g \in [1..n + 1 -> Seq(S)]
  BY <1>1
<1>3. (\A i \in 1..n : g[i] = f[i]) /\ g[n + 1] = value
  OBVIOUS
<1> HIDE DEF g
<1>4. ASSUME NEW i \in 1..n + 1 PROVE FlattenStep(seqs, g, i) = FlattenStep(seqs, f, i)
  <2>1. CASE i = 1
    BY <2>1 DEF FlattenStep
  <2>2. CASE i # 1
    <3>1. i - 1 \in 1..n
      BY <2>2
    <3>2. g[i - 1] = f[i - 1]
      BY <1>3, <3>1
    <3> QED BY <2>2, <3>2 DEF FlattenStep
  <2> QED BY <2>1, <2>2
<1>5. ASSUME NEW i \in 1..n + 1 PROVE g[i] = FlattenStep(seqs, g, i)
  <2>1. CASE i \in 1..n
    BY <1>3, <1>4, <2>1 DEF FlattensUpTo
  <2>2. CASE i = n + 1
    BY <1>3, <1>4, <2>2 DEF value
  <2> QED BY <2>1, <2>2
<1> QED BY <1>2, <1>5 DEF FlattensUpTo

LEMMA FlattensExists ==
  ASSUME NEW S, NEW seqs \in Seq(Seq(S))
  PROVE  \E f \in [1..Len(seqs) -> Seq(S)] : FlattensUpTo(f, seqs, Len(seqs))
<1> DEFINE Some(n) == \E f \in [1..n -> Seq(S)] : FlattensUpTo(f, seqs, n)
           T == {n \in Nat : n <= Len(seqs) => Some(n)}
<1>1. Some(0)
  <2> DEFINE none == [i \in 1..0 |-> <<>>]
  <2>1. none \in [1..0 -> Seq(S)]
    OBVIOUS
  <2>2. FlattensUpTo(none, seqs, 0)
    BY DEF FlattensUpTo
  <2> QED BY <2>1, <2>2
<1>2. ASSUME NEW n \in Nat, n + 1 <= Len(seqs), Some(n) PROVE Some(n + 1)
  <2>1. seqs[n + 1] \in Seq(S)
    BY <1>2
  <2>2. PICK f \in [1..n -> Seq(S)] : FlattensUpTo(f, seqs, n)
    BY <1>2
  <2> QED BY <2>1, <2>2, FlattensLonger
<1> HIDE DEF Some
<1>3. Len(seqs) \in Nat
  OBVIOUS
<1>4. 0 \in T /\ \A n \in Nat : n \in T => n + 1 \in T
  BY <1>1, <1>2, <1>3
<1>5. Nat \subseteq T
  <2> HIDE DEF T
  <2> QED BY <1>4, NatSetInduction
<1>6. Some(Len(seqs))
  BY <1>3, <1>5
<1> QED BY <1>6 DEF Some

\* Sequences that begin alike are flattened alike there.
LEMMA FlattensAgree ==
  ASSUME NEW s, NEW t, NEW m \in Nat, \A k \in 1..m : s[k] = t[k],
         NEW f, NEW g, FlattensUpTo(f, s, m), FlattensUpTo(g, t, m)
  PROVE  \A k \in 1..m : f[k] = g[k]
<1> DEFINE T == {k \in Nat : k \in 1..m => f[k] = g[k]}
<1>1. 0 \in T
  OBVIOUS
<1>2. ASSUME NEW k \in Nat, k \in T, k + 1 \in 1..m PROVE f[k + 1] = g[k + 1]
  <2>1. f[k + 1] = FlattenStep(s, f, k + 1)
    BY <1>2 DEF FlattensUpTo
  <2>2. g[k + 1] = FlattenStep(t, g, k + 1)
    BY <1>2 DEF FlattensUpTo
  <2>3. s[k + 1] = t[k + 1]
    BY <1>2
  <2>4. CASE k = 0
    BY <2>1, <2>2, <2>3, <2>4 DEF FlattenStep
  <2>5. CASE k # 0
    <3>1. f[k] = g[k] /\ (k + 1) - 1 = k /\ k + 1 # 1
      BY <1>2, <2>5
    <3> QED BY <2>1, <2>2, <2>3, <3>1 DEF FlattenStep
  <2> QED BY <2>4, <2>5
<1>3. \A k \in Nat : k \in T => k + 1 \in T
  BY <1>2
<1>4. Nat \subseteq T
  <2> HIDE DEF T
  <2> QED BY <1>1, <1>3, NatSetInduction
<1> QED BY <1>4

\* FlattenSeq is the last value of that function.
LEMMA FlattenValue ==
  ASSUME NEW S, NEW seqs \in Seq(Seq(S)), seqs # <<>>
  PROVE  \E f \in [1..Len(seqs) -> Seq(S)] :
           FlattensUpTo(f, seqs, Len(seqs)) /\ FlattenSeq(seqs) = f[Len(seqs)]
<1> DEFINE Is(h) == h = [i \in 1..Len(seqs) |-> IF i = 1 THEN seqs[i] ELSE h[i - 1] \o seqs[i]]
           g == CHOOSE h : Is(h)
<1>1. PICK f \in [1..Len(seqs) -> Seq(S)] : FlattensUpTo(f, seqs, Len(seqs))
  BY FlattensExists
<1>2. Is(f)
  BY <1>1 DEF FlattensUpTo, FlattenStep
<1>3. Len(seqs) \in Nat /\ Len(seqs) # 0 /\ Len(seqs) \in 1..Len(seqs)
  OBVIOUS
<1>4. FlattenSeq(seqs) = g[Len(seqs)]
  BY <1>3 DEF FlattenSeq
<1>5. Is(g)
  <2> HIDE DEF Is
  <2> QED BY <1>2
<1> HIDE DEF g
<1>6. FlattensUpTo(g, seqs, Len(seqs))
  <2> SUFFICES ASSUME NEW i \in 1..Len(seqs)
               PROVE  g[i] = IF i = 1 THEN seqs[i] ELSE g[i - 1] \o seqs[i]
    BY DEF FlattensUpTo, FlattenStep
  <2> QED BY <1>5
<1> HIDE DEF Is
<1>7. f[Len(seqs)] = g[Len(seqs)]
  <2>1. \A k \in 1..Len(seqs) : f[k] = g[k]
    BY <1>1, <1>3, <1>6, FlattensAgree
  <2> QED BY <1>3, <2>1
<1> QED BY <1>1, <1>4, <1>7

LEMMA FlattenEmpty == FlattenSeq(<<>>) = <<>>
BY DEF FlattenSeq

\* What is flattened has the items of its parts.
LEMMA FlattenType ==
  ASSUME NEW S, NEW seqs \in Seq(Seq(S))
  PROVE  FlattenSeq(seqs) \in Seq(S)
<1>1. CASE seqs = <<>>
  <2>1. <<>> \in Seq(S)
    OBVIOUS
  <2> QED BY <1>1, <2>1, FlattenEmpty
<1>2. CASE seqs # <<>>
  <2>1. Len(seqs) \in 1..Len(seqs)
    BY <1>2
  <2>2. PICK f \in [1..Len(seqs) -> Seq(S)] : FlattenSeq(seqs) = f[Len(seqs)]
    BY <1>2, FlattenValue
  <2> QED BY <2>1, <2>2
<1> QED BY <1>1, <1>2

\* One part more comes at the end.
LEMMA FlattenAppend ==
  ASSUME NEW S, NEW seqs \in Seq(Seq(S)), NEW part \in Seq(S)
  PROVE  FlattenSeq(Append(seqs, part)) = FlattenSeq(seqs) \o part
<1> DEFINE longer == Append(seqs, part)
           m == Len(seqs)
           n == m + 1
<1>1. longer \in Seq(Seq(S)) /\ Len(longer) = n /\ longer # <<>> /\ longer[n] = part
  BY AppendItems
<1>2. \A k \in 1..m : seqs[k] = longer[k]
  OBVIOUS
<1>3. m \in Nat /\ n \in Nat /\ m <= n /\ n \in 1..n /\ n - 1 = m
  OBVIOUS
<1> HIDE DEF longer
<1>4. PICK g : FlattensUpTo(g, longer, n) /\ FlattenSeq(longer) = g[n]
  BY <1>1, FlattenValue
<1>5. g[n] = IF n = 1 THEN longer[n] ELSE g[n - 1] \o longer[n]
  BY <1>3, <1>4 DEF FlattensUpTo, FlattenStep
<1>6. CASE seqs = <<>>
  <2>1. n = 1
    BY <1>6
  <2>2. FlattenSeq(longer) = part
    BY <1>1, <1>4, <1>5, <2>1
  <2> QED BY <1>6, <2>2, FlattenEmpty, ConcatEmpty DEF longer
<1>7. CASE seqs # <<>>
  <2>1. PICK f : FlattensUpTo(f, seqs, m) /\ FlattenSeq(seqs) = f[m]
    BY <1>7, FlattenValue
  <2>2. n # 1 /\ m \in 1..m
    BY <1>7
  <2> HIDE DEF m, n
  <2>3. FlattensUpTo(g, longer, m)
    BY <1>3, <1>4 DEF FlattensUpTo
  <2>4. \A k \in 1..m : f[k] = g[k]
    BY <1>2, <1>3, <2>1, <2>3, FlattensAgree
  <2> QED BY <1>1, <1>3, <1>4, <1>5, <2>1, <2>2, <2>4 DEF longer
<1> QED BY <1>6, <1>7

LEMMA FlattenOne ==
  ASSUME NEW S, NEW part \in Seq(S)
  PROVE  FlattenSeq(<<part>>) = part
<1>1. <<>> \in Seq(Seq(S)) /\ <<part>> = Append(<<>>, part)
  OBVIOUS
<1>2. FlattenSeq(<<part>>) = FlattenSeq(<<>>) \o part
  BY <1>1, FlattenAppend
<1> QED BY <1>2, FlattenEmpty, ConcatEmpty

\* Flattening goes through a concatenation.
LEMMA FlattenConcat ==
  ASSUME NEW S, NEW s \in Seq(Seq(S)), NEW t \in Seq(Seq(S))
  PROVE  FlattenSeq(s \o t) = FlattenSeq(s) \o FlattenSeq(t)
<1> DEFINE Holds(u) == FlattenSeq(s \o u) = FlattenSeq(s) \o FlattenSeq(u)
           T == {n \in Nat : \A u \in Seq(Seq(S)) : Len(u) = n => Holds(u)}
<1>1. FlattenSeq(s) \in Seq(S)
  BY FlattenType
<1>2. 0 \in T
  <2> SUFFICES ASSUME NEW u \in Seq(Seq(S)), Len(u) = 0 PROVE Holds(u)
    OBVIOUS
  <2>1. u = <<>> /\ s \o u = s
    OBVIOUS
  <2>2. FlattenSeq(u) = <<>>
    BY <2>1, FlattenEmpty
  <2>3. FlattenSeq(s) \o <<>> = FlattenSeq(s)
    BY <1>1, ConcatEmpty
  <2> QED BY <2>1, <2>2, <2>3
<1>3. ASSUME NEW n \in Nat, n \in T PROVE n + 1 \in T
  <2> SUFFICES ASSUME NEW u \in Seq(Seq(S)), Len(u) = n + 1 PROVE Holds(u)
    OBVIOUS
  <2> DEFINE front == SubSeq(u, 1, Len(u) - 1)
             last == u[Len(u)]
  <2>1. front \in Seq(Seq(S)) /\ Len(front) = n /\ last \in Seq(S) /\ u = Append(front, last)
    BY FrontAndLast
  <2> HIDE DEF front, last
  <2>2. FlattenSeq(s \o front) = FlattenSeq(s) \o FlattenSeq(front)
    BY <1>3, <2>1
  <2>3. s \o u = Append(s \o front, last)
    <3>1. s \o front \in Seq(Seq(S)) /\ <<last>> \in Seq(Seq(S))
      BY <2>1, ConcatItems
    <3>2. Append(s \o front, last) = (s \o front) \o <<last>>
      BY <2>1, <3>1, AppendConcat
    <3>3. u = front \o <<last>>
      BY <2>1, AppendConcat
    <3> QED BY <2>1, <3>1, <3>2, <3>3, ConcatAssociative
  <2>4. FlattenSeq(s \o u) = FlattenSeq(s \o front) \o last
    <3>1. s \o front \in Seq(Seq(S))
      BY <2>1, ConcatItems
    <3> QED BY <2>1, <2>3, <3>1, FlattenAppend
  <2>5. FlattenSeq(u) = FlattenSeq(front) \o last
    BY <2>1, FlattenAppend
  <2>6. FlattenSeq(front) \in Seq(S)
    BY <2>1, FlattenType
  <2>7. (FlattenSeq(s) \o FlattenSeq(front)) \o last = FlattenSeq(s) \o (FlattenSeq(front) \o last)
    <3>1. last \in Seq(S)
      BY <2>1
    <3>2. Associates(FlattenSeq(s), FlattenSeq(front), last)
      BY <1>1, <2>6, <3>1, ConcatAssociates
    <3> QED BY <3>2 DEF Associates
  <2> QED BY <2>2, <2>4, <2>5, <2>7
<1>4. Nat \subseteq T
  <2> HIDE DEF T
  <2> QED BY <1>2, <1>3, NatSetInduction
<1>5. Len(t) \in T
  BY <1>4
<1> QED BY <1>5

-----------------------------------------------------------------------------
(* Sequences put together from a part for each item of another.            *)

PartMaps(S, R) == [S -> Seq(R)]

FlatMap(f, s) == FlattenSeq([k \in DOMAIN s |-> f[s[k]]])

LEMMA FlatMapType ==
  ASSUME NEW S, NEW R, NEW f \in PartMaps(S, R), NEW s \in Seq(S)
  PROVE  /\ [k \in DOMAIN s |-> f[s[k]]] \in Seq(Seq(R))
         /\ FlatMap(f, s) \in Seq(R)
<1>1. [k \in DOMAIN s |-> f[s[k]]] \in Seq(Seq(R))
  <2>1. DOMAIN s = 1..Len(s) /\ Len(s) \in Nat /\ \A k \in 1..Len(s) : f[s[k]] \in Seq(R)
    BY DEF PartMaps
  <2> QED BY <2>1
<1>2. FlatMap(f, s) \in Seq(R)
  BY <1>1, FlattenType DEF FlatMap
<1> QED BY <1>1, <1>2

LEMMA FlatMapEmpty ==
  ASSUME NEW f
  PROVE  FlatMap(f, <<>>) = <<>>
<1>1. [k \in DOMAIN <<>> |-> f[<<>>[k]]] = <<>>
  OBVIOUS
<1> QED BY <1>1, FlattenEmpty DEF FlatMap

LEMMA FlatMapOne ==
  ASSUME NEW S, NEW R, NEW f \in PartMaps(S, R), NEW e \in S
  PROVE  FlatMap(f, <<e>>) = f[e]
<1>1. [k \in DOMAIN <<e>> |-> f[<<e>>[k]]] = <<f[e]>>
  OBVIOUS
<1>2. f[e] \in Seq(R)
  BY DEF PartMaps
<1> QED BY <1>1, <1>2, FlattenOne DEF FlatMap

LEMMA FlatMapConcat ==
  ASSUME NEW S, NEW R, NEW f \in PartMaps(S, R), NEW s \in Seq(S), NEW t \in Seq(S)
  PROVE  FlatMap(f, s \o t) = FlatMap(f, s) \o FlatMap(f, t)
<1> DEFINE Parts(u) == [k \in DOMAIN u |-> f[u[k]]]
           both == Parts(s) \o Parts(t)
<1>1. ASSUME NEW u \in Seq(S)
      PROVE  /\ Parts(u) \in Seq(Seq(R)) /\ Len(Parts(u)) = Len(u)
             /\ \A k \in 1..Len(u) : Parts(u)[k] = f[u[k]]
  <2>1. Parts(u) \in Seq(Seq(R))
    BY FlatMapType
  <2>2. DOMAIN u = 1..Len(u) /\ Len(u) \in Nat
    OBVIOUS
  <2> QED BY <2>1, <2>2
<1>2. /\ s \o t \in Seq(S) /\ Len(s \o t) = Len(s) + Len(t)
      /\ \A k \in 1..Len(s) : (s \o t)[k] = s[k]
      /\ \A k \in 1..Len(t) : (s \o t)[Len(s) + k] = t[k]
  BY ConcatItems
<1>3. Len(s) \in Nat /\ Len(t) \in Nat
  OBVIOUS
<1> HIDE DEF Parts
<1>4. /\ both \in Seq(Seq(R)) /\ Len(both) = Len(s) + Len(t)
      /\ \A k \in 1..Len(s) : both[k] = Parts(s)[k]
      /\ \A k \in 1..Len(t) : both[Len(s) + k] = Parts(t)[k]
  <2> DEFINE a == Parts(s)
             b == Parts(t)
  <2>1. a \in Seq(Seq(R)) /\ b \in Seq(Seq(R)) /\ Len(a) = Len(s) /\ Len(b) = Len(t)
    BY <1>1
  <2> HIDE DEF a, b
  <2>2. /\ a \o b \in Seq(Seq(R)) /\ Len(a \o b) = Len(a) + Len(b)
        /\ \A k \in 1..Len(a) : (a \o b)[k] = a[k]
        /\ \A k \in 1..Len(b) : (a \o b)[Len(a) + k] = b[k]
    <3> DEFINE Q == Seq(R)
    <3>1. a \in Seq(Q) /\ b \in Seq(Q)
      BY <2>1
    <3> HIDE DEF Q
    <3>2. /\ a \o b \in Seq(Q) /\ Len(a \o b) = Len(a) + Len(b)
          /\ \A k \in 1..Len(a) : (a \o b)[k] = a[k]
          /\ \A k \in 1..Len(b) : (a \o b)[Len(a) + k] = b[k]
      BY <3>1, ConcatItems
    <3> QED BY <3>2 DEF Q
  <2>3. both = a \o b
    BY DEF a, b
  <2> HIDE DEF both
  <2>4. \A k \in 1..Len(s) : both[k] = a[k]
    BY <2>1, <2>2, <2>3
  <2>5. \A k \in 1..Len(t) : both[Len(s) + k] = b[k]
    BY <2>1, <2>2, <2>3
  <2> QED BY <2>1, <2>2, <2>3, <2>4, <2>5 DEF a, b
<1> HIDE DEF both
<1>5. ASSUME NEW k \in 1..Len(both) PROVE Parts(s \o t)[k] = both[k]
  <2>1. k \in 1..Len(s) + Len(t)
    BY <1>4
  <2>2. Parts(s \o t)[k] = f[(s \o t)[k]]
    BY <1>1, <1>2, <2>1
  <2>3. CASE k \in 1..Len(s)
    <3>1. both[k] = f[s[k]]
      BY <1>1, <1>4, <2>3
    <3> QED BY <1>2, <2>2, <2>3, <3>1
  <2>4. CASE k \notin 1..Len(s)
    <3>1. k - Len(s) \in 1..Len(t) /\ Len(s) + (k - Len(s)) = k
      BY <1>3, <2>1, <2>4
    <3>2. both[k] = f[t[k - Len(s)]]
      BY <1>1, <1>4, <3>1
    <3>3. (s \o t)[k] = t[k - Len(s)]
      BY <1>2, <3>1
    <3> QED BY <2>2, <3>2, <3>3
  <2> QED BY <2>3, <2>4
<1>6. Parts(s \o t) = both
  <2>1. Parts(s \o t) \in Seq(Seq(R)) /\ Len(Parts(s \o t)) = Len(both)
    BY <1>1, <1>2, <1>4
  <2> QED BY <1>4, <1>5, <2>1, SameItems
<1>7. FlattenSeq(both) = FlattenSeq(Parts(s)) \o FlattenSeq(Parts(t))
  BY <1>1, FlattenConcat DEF both
<1> QED BY <1>6, <1>7 DEF FlatMap, Parts

\* Parts of one item each, the item itself, give the sequence again.
LEMMA FlatMapSame ==
  ASSUME NEW S, NEW f, \A e \in S : f[e] = <<e>>, NEW s \in Seq(S)
  PROVE  FlatMap(f, s) = s
<1> DEFINE g == [e \in S |-> <<e>>]
           T == {n \in Nat : \A u \in Seq(S) : Len(u) = n => FlatMap(g, u) = u}
<1>1. g \in PartMaps(S, S)
  BY DEF PartMaps
<1>2. \A e \in S : g[e] = <<e>>
  OBVIOUS
<1> HIDE DEF g, T
<1>3. ASSUME NEW u \in Seq(S), NEW e \in S
      PROVE  FlatMap(g, u \o <<e>>) = FlatMap(g, u) \o <<e>>
  <2> DEFINE one == <<e>>
  <2>1. one \in Seq(S)
    OBVIOUS
  <2> HIDE DEF one
  <2>2. FlatMap(g, u \o one) = FlatMap(g, u) \o FlatMap(g, one)
    BY <1>1, <2>1, FlatMapConcat
  <2> USE DEF one
  <2>3. FlatMap(g, <<e>>) = <<e>>
    BY <1>1, <1>2, FlatMapOne
  <2> QED BY <2>2, <2>3
<1> USE DEF T
<1>4. 0 \in T
  <2> SUFFICES ASSUME NEW u \in Seq(S), Len(u) = 0 PROVE FlatMap(g, u) = u
    OBVIOUS
  <2>1. u = <<>>
    OBVIOUS
  <2> QED BY <2>1, FlatMapEmpty
<1>5. ASSUME NEW n \in Nat, n \in T PROVE n + 1 \in T
  <2> SUFFICES ASSUME NEW u \in Seq(S), Len(u) = n + 1 PROVE FlatMap(g, u) = u
    OBVIOUS
  <2> DEFINE front == SubSeq(u, 1, Len(u) - 1)
             last == u[Len(u)]
  <2>1. u # <<>>
    OBVIOUS
  <2>2. front \in Seq(S) /\ Len(front) = n /\ last \in S /\ u = Append(front, last)
    BY <2>1, FrontAndLast
  <2> HIDE DEF front, last
  <2>3. FlatMap(g, front) = front
    BY <1>5, <2>2
  <2>4. u = front \o <<last>>
    BY <2>2, AppendConcat
  <2> QED BY <1>3, <2>2, <2>3, <2>4
<1>6. Nat \subseteq T
  <2> HIDE DEF T
  <2> QED BY <1>4, <1>5, NatSetInduction
<1>7. FlatMap(g, s) = s
  BY <1>6
<1>8. [k \in DOMAIN s |-> f[s[k]]] = [k \in DOMAIN s |-> g[s[k]]]
  BY <1>2
<1> QED BY <1>7, <1>8 DEF FlatMap

-----------------------------------------------------------------------------
(* Prefixes.                                                               *)

LEMMA ConcatPrefix ==
  ASSUME NEW S, NEW s \in Seq(S), NEW t \in Seq(S)
  PROVE  IsPrefix(s, s \o t)
<1>1. SubSeq(s \o t, 1, Len(s)) = s /\ Len(s \o t) = Len(s) + Len(t)
  BY ConcatParts, ConcatItems
<1>2. SubSeq(s, 1, Len(s)) = s
  OBVIOUS
<1> QED BY <1>1, <1>2 DEF IsPrefix

\* What is put at the end leaves the beginnings alone.
LEMMA ConcatBeginning ==
  ASSUME NEW S, NEW s \in Seq(S), NEW t \in Seq(S), NEW n \in 0..Len(s)
  PROVE  SubSeq(s \o t, 1, n) = SubSeq(s, 1, n)
<1> DEFINE u == s \o t
<1>1. u \in Seq(S) /\ Len(u) = Len(s) + Len(t) /\ \A k \in 1..Len(s) : u[k] = s[k]
  BY ConcatItems
<1> HIDE DEF u
<1>2. n \in 0..Len(u)
  BY <1>1
<1>3. SubSeq(u, 1, n) \in Seq(S) /\ Len(SubSeq(u, 1, n)) = n /\ \A k \in 1..n : SubSeq(u, 1, n)[k] = u[k]
  BY <1>1, <1>2, PrefixItems
<1>4. SubSeq(s, 1, n) \in Seq(S) /\ Len(SubSeq(s, 1, n)) = n /\ \A k \in 1..n : SubSeq(s, 1, n)[k] = s[k]
  BY PrefixItems
<1>5. \A k \in 1..n : SubSeq(u, 1, n)[k] = SubSeq(s, 1, n)[k]
  BY <1>1, <1>3, <1>4
<1>6. SubSeq(u, 1, n) = SubSeq(s, 1, n)
  BY <1>3, <1>4, <1>5, SameItems
<1> QED BY <1>6 DEF u

\* A beginning, what follows it up to a later place, and the beginning up to there.
LEMMA BeginningGrows ==
  ASSUME NEW S, NEW s \in Seq(S), NEW n \in Nat, NEW m \in 0..Len(s), n <= m
  PROVE  /\ SubSeq(s, n + 1, m) \in Seq(S) /\ Len(SubSeq(s, n + 1, m)) = m - n
         /\ SubSeq(s, 1, n) \in Seq(S) /\ SubSeq(s, 1, m) \in Seq(S)
         /\ SubSeq(s, 1, m) = SubSeq(s, 1, n) \o SubSeq(s, n + 1, m)
<1> DEFINE a == SubSeq(s, 1, m)
<1>1. a \in Seq(S) /\ Len(a) = m /\ \A k \in 1..m : a[k] = s[k]
  BY PrefixItems
<1>2. SubSeq(s, 1, n) = SubSeq(a, 1, n)
  BY <1>1
<1>3. SubSeq(s, n + 1, m) = SubSeq(a, n + 1, m)
  BY <1>1
<1> HIDE DEF a
<1>4. n \in 0..Len(a)
  BY <1>1
<1>5. /\ SubSeq(a, 1, n) \in Seq(S)
      /\ SubSeq(a, n + 1, Len(a)) \in Seq(S) /\ Len(SubSeq(a, n + 1, Len(a))) = Len(a) - n
      /\ a = SubSeq(a, 1, n) \o SubSeq(a, n + 1, Len(a))
  BY <1>1, <1>4, CutAnywhere
<1> QED BY <1>1, <1>2, <1>3, <1>5 DEF a

-----------------------------------------------------------------------------
(* Insertions.                                                             *)

\* What InsertAt makes of a sequence, position by position.
LEMMA InsertAtItems ==
  ASSUME NEW S, NEW s \in Seq(S), NEW e \in S, NEW i \in 1..Len(s) + 1
  PROVE  /\ InsertAt(s, i, e) \in Seq(S)
         /\ Len(InsertAt(s, i, e)) = Len(s) + 1
         /\ \A k \in 1..i - 1 : InsertAt(s, i, e)[k] = s[k]
         /\ InsertAt(s, i, e)[i] = e
         /\ \A k \in i..Len(s) : InsertAt(s, i, e)[k + 1] = s[k]
<1> DEFINE before == SubSeq(s, 1, i - 1)
           after  == SubSeq(s, i, Len(s))
<1>1. before \in Seq(S) /\ Len(before) = i - 1 /\ \A k \in 1..i - 1 : before[k] = s[k]
  OBVIOUS
<1>2. after \in Seq(S) /\ Len(after) = Len(s) - i + 1 /\ \A k \in i..Len(s) : after[k - i + 1] = s[k]
  OBVIOUS
<1>3. InsertAt(s, i, e) = before \o <<e>> \o after
  BY DEF InsertAt
<1> HIDE DEF before, after
<1>4. before \o <<e>> \in Seq(S) /\ Len(before \o <<e>>) = i /\ (before \o <<e>>)[i] = e
  BY <1>1
<1>5. \A k \in 1..i - 1 : (before \o <<e>>)[k] = before[k]
  BY <1>1
<1>6. \A k \in 1..i - 1 : (before \o <<e>> \o after)[k] = (before \o <<e>>)[k]
  BY <1>2, <1>4
<1>7. (before \o <<e>> \o after)[i] = e
  BY <1>2, <1>4
<1>8. \A k \in i..Len(s) : (before \o <<e>> \o after)[k + 1] = after[k - i + 1]
  BY <1>2, <1>4
<1> DEFINE t == before \o <<e>> \o after
<1>9. t \in Seq(S) /\ Len(t) = Len(s) + 1
  <2> DEFINE upTo == before \o <<e>>
  <2>1. upTo \in Seq(S) /\ Len(upTo) = i
    BY <1>4
  <2> HIDE DEF upTo
  <2>2. upTo \o after \in Seq(S) /\ Len(upTo \o after) = Len(upTo) + Len(after)
    BY <1>2, <2>1, ConcatItems
  <2>3. t = upTo \o after
    BY DEF upTo
  <2>4. Len(upTo) + Len(after) = Len(s) + 1
    BY <1>2, <2>1
  <2> HIDE DEF t
  <2> QED BY <2>2, <2>3, <2>4
<1>10. \A k \in 1..i - 1 : t[k] = s[k]
  BY <1>1, <1>5, <1>6
<1>11. \A k \in i..Len(s) : t[k + 1] = s[k]
  BY <1>2, <1>8
<1>12. InsertAt(s, i, e) = t
  BY <1>3
<1> HIDE DEF t
<1>13. t[i] = e
  BY <1>7 DEF t
<1> QED BY <1>9, <1>10, <1>11, <1>12, <1>13

\* An insertion leaves the prefixes that end before it alone.
LEMMA InsertAtPrefix ==
  ASSUME NEW S, NEW s \in Seq(S), NEW e \in S, NEW i \in 1..Len(s) + 1,
         NEW n \in 0..i - 1
  PROVE  SubSeq(InsertAt(s, i, e), 1, n) = SubSeq(s, 1, n)
<1> DEFINE t == InsertAt(s, i, e)
<1>1. t \in Seq(S) /\ Len(t) = Len(s) + 1 /\ \A k \in 1..i - 1 : t[k] = s[k]
  BY InsertAtItems
<1> HIDE DEF t
<1>2. Len(SubSeq(t, 1, n)) = n /\ Len(SubSeq(s, 1, n)) = n
  BY <1>1
<1>3. \A k \in 1..n : SubSeq(t, 1, n)[k] = SubSeq(s, 1, n)[k]
  BY <1>1
<1>4. SubSeq(t, 1, n) \in Seq(S) /\ SubSeq(s, 1, n) \in Seq(S)
  BY <1>1
<1>5. SubSeq(t, 1, n) = SubSeq(s, 1, n)
  BY <1>2, <1>3, <1>4
<1> QED BY <1>5 DEF t
=============================================================================
