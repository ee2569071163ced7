------------------------ MODULE RecordedWrites_proofs ------------------------
(***************************************************************************)
(* The proofs about RecordedWrites, for any command buffers, resources,    *)
(* views, sets and layout.                                                 *)
(*                                                                         *)
(* The first part is about descriptor slots: the client's cursor walks     *)
(* through the bindings of the layout in the order in which the driver's   *)
(* consecutive updates run on (KeysAreRun), so that after an update both   *)
(* sides hold the same storage descriptors (PutAgrees).  The second part   *)
(* is about one command buffer: Agree relates the client's note of it to   *)
(* what the driver recorded, and each command keeps the two in agreement.  *)
(* The third part puts them together.                                      *)
(***************************************************************************)
EXTENDS RecordedWrites, FiniteSetTheorems, SequenceTheorems, TLAPS

-----------------------------------------------------------------------------
(***************************************************************************)
(* Slots.                                                                  *)
(***************************************************************************)

\* A slot is an element of a binding of the layout.
LEMMA SlotFacts ==
  ASSUME NEW k \in Slots
  PROVE  \E i \in 1..Len(Layout) : \E e \in 0..(Layout[i][2] - 1) :
            k = <<Layout[i][1], e>>
BY DEF Slots

\* A pair of a binding's number and an element below its count is a slot.
LEMMA IsSlot ==
  ASSUME NEW i \in 1..Len(Layout), NEW e \in 0..(Layout[i][2] - 1)
  PROVE  <<Layout[i][1], e>> \in Slots
BY DEF Slots

\* The layout is a sequence of pairs of numbers.
LEMMA LayoutFacts ==
  /\ Len(Layout) \in Nat
  /\ \A i \in 1..Len(Layout) : Layout[i][1] \in Nat /\ Layout[i][2] \in Nat
<1>1. Layout \in Seq(Nat \X Nat)
  BY LayoutAssumption
<1>2. \A i \in 1..Len(Layout) : Layout[i] \in Nat \X Nat
  BY <1>1
<1> QED
  BY <1>1, <1>2

\* The loop of descriptor_cursor stops at the binding it looks for.
LEMMA IndexOfBinding ==
  ASSUME NEW i \in 1..Len(Layout)
  PROVE  IndexOf(Layout[i][1]) = i
<1>1. {j \in 1..Len(Layout) : Layout[j][1] < Layout[i][1]} = 1..(i - 1)
  <2>1. ASSUME NEW j \in 1..Len(Layout), Layout[j][1] < Layout[i][1]
        PROVE  j \in 1..(i - 1)
    BY <2>1, LayoutFacts, LayoutAssumption
  <2>2. ASSUME NEW j \in 1..(i - 1)
        PROVE  j \in 1..Len(Layout) /\ Layout[j][1] < Layout[i][1]
    BY <2>2, LayoutFacts, LayoutAssumption
  <2> QED
    BY <2>1, <2>2
<1>2. Cardinality(1..(i - 1)) = i - 1
  BY FS_Interval, LayoutFacts
<1>3. IndexOf(Layout[i][1])
        = Cardinality({j \in 1..Len(Layout) : Layout[j][1] < Layout[i][1]}) + 1
  BY DEF IndexOf
<1>4. i \in Int
  BY LayoutFacts
<1> HIDE DEF IndexOf
<1>5. IndexOf(Layout[i][1]) = Cardinality(1..(i - 1)) + 1
  BY <1>1, <1>3
<1> QED
  BY <1>2, <1>4, <1>5

\* The first two places of a walk are the cursor of the slot and that cursor
\* advanced.
LEMMA WalkFacts ==
  ASSUME NEW slot, NEW n \in 1..2
  PROVE  /\ Walk(slot, n)[0] = descriptor_cursor(slot)
         /\ n = 2 => Walk(slot, n)[1] = advance(descriptor_cursor(slot))
<1> DEFINE c == descriptor_cursor(slot)
           at == CHOOSE at : at = [j \in 0..n |-> IF j = 0 THEN c ELSE advance(at[j - 1])]
           w == [j \in 0..n |-> IF j = 0 THEN c
                                ELSE IF j = 1 THEN advance(c) ELSE advance(advance(c))]
<1>1. Walk(slot, n) = at
  BY DEF Walk
<1>2. w = [j \in 0..n |-> IF j = 0 THEN c ELSE advance(w[j - 1])]
  <2> HIDE DEF c
  <2>1. \A j \in 0..n : j = 0 \/ j = 1 \/ j = 2
    OBVIOUS
  <2>2. \A j \in 0..n : w[j] = IF j = 0 THEN c ELSE advance(w[j - 1])
    <3>1. ASSUME NEW j \in 0..n PROVE w[j] = IF j = 0 THEN c ELSE advance(w[j - 1])
      <4>1. CASE j = 0
        BY <4>1
      <4>2. CASE j = 1
        <5>1. w[j - 1] = c
          BY <4>2
        <5> QED
          BY <4>2, <5>1
      <4>3. CASE j = 2
        <5>1. w[j - 1] = advance(c)
          BY <4>3
        <5>2. w[j] = advance(advance(c))
          BY <4>3
        <5> QED
          BY <4>3, <5>1, <5>2
      <4> QED
        BY <2>1, <4>1, <4>2, <4>3
    <3> QED
      BY <3>1
  <2> HIDE DEF w
  <2> QED
    BY <2>2 DEF w
<1>3. at = [j \in 0..n |-> IF j = 0 THEN c ELSE advance(at[j - 1])]
  <2> HIDE DEF w, c
  <2>1. \E f : f = [j \in 0..n |-> IF j = 0 THEN c ELSE advance(f[j - 1])]
    BY <1>2
  <2> QED
    BY <2>1
<1> HIDE DEF at, c
<1>4. at[0] = c
  BY <1>3
<1>5. n = 2 => at[1] = advance(c)
  <2> SUFFICES ASSUME n = 2 PROVE at[1] = advance(c)
    OBVIOUS
  <2>1. 1 \in 0..n /\ 1 # 0 /\ 1 - 1 = 0
    OBVIOUS
  <2>2. at[1] = advance(at[1 - 1])
    BY <1>3, <2>1
  <2> QED
    BY <2>1, <2>2, <1>4
<1> QED
  BY <1>1, <1>4, <1>5 DEF c
\* Of two slots of one binding the one with the smaller element comes first, and
\* so does the slot of the smaller binding.
LEMMA BeforeFacts ==
  ASSUME NEW i \in 1..Len(Layout), NEW e \in 0..(Layout[i][2] - 1),
         NEW j \in 1..Len(Layout), NEW f \in 0..(Layout[j][2] - 1)
  PROVE  Before(<<Layout[i][1], e>>, <<Layout[j][1], f>>)
            <=> (i < j \/ (i = j /\ e < f))
<1>1. i \in Int /\ j \in Int /\ e \in Int /\ f \in Int
  BY LayoutFacts
<1>a. Layout[i][1] \in Nat /\ Layout[j][1] \in Nat
  BY LayoutFacts
<1>b. i < j => Layout[i][1] < Layout[j][1]
  BY LayoutAssumption
<1>c. j < i => Layout[j][1] < Layout[i][1]
  BY LayoutAssumption
<1>2. Layout[i][1] < Layout[j][1] <=> i < j
  BY <1>1, <1>a, <1>b, <1>c
<1>3. Layout[i][1] = Layout[j][1] <=> i = j
  BY <1>1, <1>a, <1>b, <1>c
<1>4. Before(<<Layout[i][1], e>>, <<Layout[j][1], f>>)
        <=> (Layout[i][1] < Layout[j][1] \/ (Layout[i][1] = Layout[j][1] /\ e < f))
  BY DEF Before
<1> QED
  BY <1>2, <1>3, <1>4

\* The first key of an update is the slot it names.
LEMMA FirstKey ==
  ASSUME NEW slot \in Slots, NEW n \in 1..2
  PROVE  Keys(slot, n)[1] = slot
<1>0. PICK i \in 1..Len(Layout) : \E e \in 0..(Layout[i][2] - 1) : slot = <<Layout[i][1], e>>
  BY SlotFacts
<1>1. PICK e \in 0..(Layout[i][2] - 1) : slot = <<Layout[i][1], e>>
  BY <1>0
<1>2. slot[1] = Layout[i][1] /\ slot[2] = e
  BY <1>1
<1>3. descriptor_cursor(slot) = [index |-> i, element |-> e]
  BY <1>2, IndexOfBinding DEF descriptor_cursor
<1>4. i <= Len(Layout) /\ e < Layout[i][2]
  BY LayoutFacts
<1>5. \A other : current(descriptor_cursor(slot), other) = slot
  BY <1>1, <1>3, <1>4 DEF current
<1>6. 1 \in 1..n /\ 1 - 1 = 0
  OBVIOUS
<1>7. Keys(slot, n)[1] = current(Walk(slot, n)[0], <<slot[1], slot[2] + 1 - 1>>)
  BY <1>6 DEF Keys
<1> QED
  BY <1>5, <1>7, WalkFacts

\* The second key is the slot after the first in the layout's order: the next
\* element, or the first of the next binding that has any.
LEMMA SecondKey ==
  ASSUME NEW slot \in Slots, NEW next \in Slots, Adjacent(slot, next)
  PROVE  Keys(slot, 2)[2] = next
<1>0. PICK i \in 1..Len(Layout) : \E e \in 0..(Layout[i][2] - 1) : slot = <<Layout[i][1], e>>
  BY SlotFacts
<1>1. PICK e \in 0..(Layout[i][2] - 1) : slot = <<Layout[i][1], e>>
  BY <1>0
<1>a. PICK j \in 1..Len(Layout) : \E f \in 0..(Layout[j][2] - 1) : next = <<Layout[j][1], f>>
  BY SlotFacts
<1>2. PICK f \in 0..(Layout[j][2] - 1) : next = <<Layout[j][1], f>>
  BY <1>a
<1>3. slot[1] = Layout[i][1] /\ slot[2] = e
  BY <1>1
<1>4. descriptor_cursor(slot) = [index |-> i, element |-> e]
  BY <1>3, IndexOfBinding DEF descriptor_cursor
<1>5. /\ i \in Int /\ j \in Int /\ e \in Int /\ f \in Int /\ Len(Layout) \in Int
      /\ Layout[i][2] \in Int /\ Layout[j][2] \in Int
      /\ 1 <= i /\ i <= Len(Layout) /\ 1 <= j /\ j <= Len(Layout)
      /\ 0 <= e /\ e < Layout[i][2] /\ 0 <= f /\ f < Layout[j][2]
  BY LayoutFacts
<1>6. i < j \/ (i = j /\ e < f)
  BY <1>1, <1>2, BeforeFacts DEF Adjacent
<1>7. \A m \in Slots : ~ (Before(slot, m) /\ Before(m, next))
  BY DEF Adjacent
<1>8. ASSUME NEW k \in 1..Len(Layout), NEW g \in 0..(Layout[k][2] - 1)
      PROVE  ~ ((i < k \/ (i = k /\ e < g)) /\ (k < j \/ (k = j /\ g < f)))
  <2>1. <<Layout[k][1], g>> \in Slots
    BY IsSlot
  <2>2. ~ (Before(slot, <<Layout[k][1], g>>) /\ Before(<<Layout[k][1], g>>, next))
    BY <1>7, <2>1
  <2>3. Before(slot, <<Layout[k][1], g>>) <=> (i < k \/ (i = k /\ e < g))
    BY <1>1, BeforeFacts
  <2>4. Before(<<Layout[k][1], g>>, next) <=> (k < j \/ (k = j /\ g < f))
    BY <1>2, BeforeFacts
  <2> QED
    BY <2>2, <2>3, <2>4
<1>9. ASSUME NEW d, d = advance(descriptor_cursor(slot)),
             d.index = j, d.element = f
      PROVE  Keys(slot, 2)[2] = next
  <2>1. 2 \in 1..2 /\ 2 - 1 = 1
    OBVIOUS
  <2>2. Keys(slot, 2)[2] = current(Walk(slot, 2)[2 - 1], <<slot[1], slot[2] + 2 - 1>>)
    BY <2>1 DEF Keys
  <2>3. Walk(slot, 2)[2 - 1] = d
    BY <1>9, <2>1, WalkFacts
  <2>4. \A other : current(d, other) = <<Layout[j][1], f>>
    BY <1>5, <1>9 DEF current
  <2> QED
    BY <1>2, <2>2, <2>3, <2>4
<1> DEFINE c == [index |-> i, element |-> e]
           rest == {k \in (i + 1)..Len(Layout) : Layout[k][2] # 0}
<1>10. CASE e + 1 < Layout[i][2]
  <2>1. e + 1 \in 0..(Layout[i][2] - 1)
    BY <1>5, <1>10
  <2>2. ~ ((i < i \/ (i = i /\ e < e + 1)) /\ (i < j \/ (i = j /\ e + 1 < f)))
    BY <1>8, <2>1
  <2>3. j = i /\ f = e + 1
    BY <2>2, <1>5, <1>6
  <2>4. c.index = i /\ c.element = e /\ ~ (c.index > Len(Layout))
    BY <1>5
  <2>5. advance(c) = [c EXCEPT !.element = @ + 1]
    BY <1>10, <2>4 DEF advance
  <2>6. advance(c).index = i /\ advance(c).element = e + 1
    BY <2>5
  <2> QED
    BY <1>4, <1>9, <2>3, <2>6
<1>11. CASE ~ (e + 1 < Layout[i][2])
  <2>1. i < j
    <3>1. ASSUME i = j PROVE FALSE
      BY <1>5, <1>6, <1>11, <3>1
    <3> QED
      BY <1>6, <3>1
  <2>2. j \in rest
    BY <1>5, <2>1
  <2>3. ASSUME NEW k \in rest PROVE j <= k
    <3>1. k \in 1..Len(Layout) /\ k \in Int /\ i < k
      BY <1>5
    <3>2. Layout[k][2] \in Nat /\ Layout[k][2] # 0
      BY <3>1, LayoutFacts
    <3>3. 0 \in 0..(Layout[k][2] - 1)
      BY <3>2
    <3>4. ~ (k < j)
      BY <1>8, <3>1, <3>3
    <3> QED
      BY <1>5, <3>1, <3>4
  <2>4. (CHOOSE k \in rest : \A l \in rest : k <= l) = j
    <3>1. \A k \in rest : (\A l \in rest : k <= l) => k = j
      BY <1>5, <2>2, <2>3
    <3>2. \E k \in rest : \A l \in rest : k <= l
      BY <2>2, <2>3
    <3> HIDE DEF rest
    <3> QED
      BY <3>1, <3>2
  <2>5. f = 0
    <3>1. ASSUME f # 0 PROVE FALSE
      <4>1. 0 \in 0..(Layout[j][2] - 1)
        BY <1>5
      <4>2. i < j /\ 0 < f
        BY <1>5, <2>1, <3>1
      <4>3. ~ ((i < j \/ (i = j /\ e < 0)) /\ (j < j \/ (j = j /\ 0 < f)))
        BY <1>8, <4>1
      <4> QED
        BY <4>2, <4>3
    <3> QED
      BY <3>1
  <2>6. c.index = i /\ c.element = e /\ ~ (c.index > Len(Layout))
    BY <1>5
  <2>7. advance(c) = [index |-> IF rest = {} THEN Len(Layout) + 1
                                ELSE CHOOSE k \in rest : \A l \in rest : k <= l,
                      element |-> 0]
    BY <1>11, <2>6 DEF advance
  <2>8. advance(c).index = j /\ advance(c).element = 0
    <3>1. rest # {}
      BY <2>2
    <3> HIDE DEF rest, c
    <3>2. advance(c) = [index |-> j, element |-> 0]
      BY <2>4, <2>7, <3>1
    <3> QED
      BY <3>2
  <2> QED
    BY <1>4, <1>9, <2>5, <2>8
<1> QED
  BY <1>10, <1>11

\* The client and the driver take the descriptors of an update to the same
\* slots.
LEMMA KeysAreRun ==
  ASSUME NEW slot \in Slots, NEW n \in 1..2, HasRoom(slot, n)
  PROVE  /\ Keys(slot, n) = Run(slot, n)
         /\ Run(slot, n) \in [1..n -> Slots]
<1>1. Run(slot, n) \in Runs(slot, n)
  BY DEF HasRoom, Run
<1>2. /\ Run(slot, n) \in [1..n -> Slots]
      /\ Run(slot, n)[1] = slot
      /\ \A j \in 2..n : Adjacent(Run(slot, n)[j - 1], Run(slot, n)[j])
  BY <1>1 DEF Runs
<1>3. n = 2 => Keys(slot, n)[2] = Run(slot, n)[2]
  <2> SUFFICES ASSUME n = 2 PROVE Keys(slot, 2)[2] = Run(slot, 2)[2]
    OBVIOUS
  <2>1. 2 \in 2..n /\ 2 - 1 = 1 /\ 2 \in 1..n
    OBVIOUS
  <2>2. Adjacent(slot, Run(slot, 2)[2]) /\ Run(slot, 2)[2] \in Slots
    BY <1>2, <2>1
  <2> QED
    BY <2>2, SecondKey
<1>4. Keys(slot, n)[1] = Run(slot, n)[1]
  BY <1>2, FirstKey
<1>5. \A j \in 1..n : Keys(slot, n)[j] = Run(slot, n)[j]
  <2>1. \A j \in 1..n : j = 1 \/ (j = 2 /\ n = 2)
    OBVIOUS
  <2> QED
    BY <1>3, <1>4, <2>1
<1>6. Keys(slot, n) = [j \in 1..n |-> Keys(slot, n)[j]]
  BY DEF Keys
<1>7. Run(slot, n) = [j \in 1..n |-> Run(slot, n)[j]]
  BY <1>2
<1> QED
  BY <1>2, <1>5, <1>6, <1>7
-----------------------------------------------------------------------------
(***************************************************************************)
(* What a set holds.                                                       *)
(***************************************************************************)

\* The storage descriptors among those a set holds.
StorageOf(held) ==
    [k \in {k \in DOMAIN held : held[k].type \in Storage} |-> held[k]]

\* held fills slots of the layout with descriptors.
Holds(held) ==
    /\ DOMAIN held \subseteq Slots
    /\ \A k \in DOMAIN held : held[k] \in Descriptors

\* noted is what the client notes of the descriptor d.
NotedAs(noted, d) ==
    /\ d.type \in Storage => noted = d
    /\ d.type \notin Storage => noted.object = NoObject

\* A descriptor names an object; the client keeps it if it is storage.
LEMMA DescriptorFacts ==
  ASSUME NEW d \in Descriptors
  PROVE  /\ d.object # NoObject
         /\ d.type \in Storage => Reaches(d) \in Resources
         /\ NotedAs(Resource(d), d)
<1>1. d.object \in Buffers \cup Views
  BY DEF Descriptors, ImageViews
<1>2. d.object # NoObject
  BY <1>1, ObjectsAssumption
<1>3. Reaches(d) \in Resources
  BY <1>1, ResourcesAssumption DEF Reaches, Resources
<1>4. NotedAs(Resource(d), d)
  BY DEF NotedAs, Resource
<1> QED
  BY <1>2, <1>3, <1>4

\* The writes a shader can make through a set reach resources, and the client
\* that knows the set's storage descriptors knows them all.
LEMMA WrittenThroughFacts ==
  ASSUME NEW held, Holds(held)
  PROVE  /\ WrittenThrough(held) \subseteq Resources
         /\ WrittenThrough(StorageOf(held)) = WrittenThrough(held)
<1> DEFINE K == {k \in DOMAIN held : held[k].type \in Storage}
<1>1. WrittenThrough(held) = {Reaches(held[k]) : k \in K}
  BY DEF WrittenThrough
<1>2. WrittenThrough(held) \subseteq Resources
  BY <1>1, DescriptorFacts DEF Holds
<1>3. DOMAIN StorageOf(held) = K /\ \A k \in K : StorageOf(held)[k] = held[k]
  BY DEF StorageOf
<1>4. {k \in DOMAIN StorageOf(held) : StorageOf(held)[k].type \in Storage} = K
  BY <1>3
<1>5. WrittenThrough(StorageOf(held)) = {Reaches(StorageOf(held)[k]) : k \in K}
  BY <1>4 DEF WrittenThrough
<1>6. {Reaches(StorageOf(held)[k]) : k \in K} = {Reaches(held[k]) : k \in K}
  BY <1>3
<1> QED
  BY <1>1, <1>2, <1>5, <1>6

\* Put changes exactly the slots of keys, and the last value for a key counts.
LEMMA PutFacts ==
  ASSUME NEW n \in 1..2, NEW keys \in [1..n -> Slots], NEW k
  PROVE  /\ ToSet(keys) = {keys[j] : j \in 1..n}
         /\ k \in ToSet(keys) =>
              \E j \in 1..n : \A f, values :
                  k \in DOMAIN Put(f, keys, values) /\ Put(f, keys, values)[k] = values[j]
         /\ k \notin ToSet(keys) =>
              \A f, values : k \in DOMAIN f => Put(f, keys, values)[k] = f[k]
         /\ \A f, values : DOMAIN Put(f, keys, values) = DOMAIN f \cup ToSet(keys)
<1>1. DOMAIN keys = 1..n
  OBVIOUS
<1>2. keys \in Seq(Slots) /\ Len(keys) = n
  <2>1. n \in Nat
    OBVIOUS
  <2>2. keys \in Seq(Slots)
    BY <2>1, IsASeq
  <2> QED
    BY <2>1, <2>2, <1>1, LenProperties
<1>3. ToSet(keys) = {keys[j] : j \in 1..n}
  BY <1>1 DEF ToSet
<1>4. \A f, values : DOMAIN Put(f, keys, values) = DOMAIN f \cup ToSet(keys)
  BY DEF Put
<1> DEFINE at == {j \in 1..n : keys[j] = k}
           last == CHOOSE j \in at : \A i \in at : i <= j
<1>5. \A f, values : k \in DOMAIN f \cup ToSet(keys) =>
          Put(f, keys, values)[k] = IF at = {} THEN f[k] ELSE values[last]
  BY <1>2 DEF Put
<1>6. at = {} <=> k \notin ToSet(keys)
  BY <1>3
<1>7. k \in ToSet(keys) => last \in 1..n
  <2> SUFFICES ASSUME at # {} PROVE last \in at
    BY <1>6
  <2>1. \E j \in at : \A i \in at : i <= j
    <3>1. CASE n \in at
      BY <3>1
    <3>2. CASE n \notin at
      <4>1. \A i \in 1..n : i = n \/ i = 1
        OBVIOUS
      <4>2. \A i \in at : i = 1
        BY <4>1, <3>2
      <4> QED
        BY <4>2
    <3> QED
      BY <3>1, <3>2
  <2> HIDE DEF at
  <2> QED
    BY <2>1
<1> HIDE DEF at, last
<1>8. k \in ToSet(keys) =>
        \A f, values : k \in DOMAIN Put(f, keys, values) /\ Put(f, keys, values)[k] = values[last]
  BY <1>4, <1>5, <1>6
<1>9. k \notin ToSet(keys) => \A f, values : k \in DOMAIN f => Put(f, keys, values)[k] = f[k]
  BY <1>5, <1>6
<1> QED
  BY <1>3, <1>4, <1>7, <1>8, <1>9

\* An update of n descriptors: the slots, the descriptors and what the client
\* notes of them.
Fills(n, keys, values, noted) ==
    /\ n \in 1..2
    /\ keys \in [1..n -> Slots]
    /\ \A j \in 1..n : values[j] \in Descriptors /\ NotedAs(noted[j], values[j])

\* An update that fills the same slots on both sides, with descriptors on the
\* driver's and what is noted of them on the client's, leaves the client with
\* the storage descriptors the driver holds.
LEMMA PutAgrees ==
  ASSUME NEW held, Holds(held),
         NEW n, NEW keys, NEW values, NEW noted, Fills(n, keys, values, noted)
  PROVE  /\ Holds(Put(held, keys, values))
         /\ Merge(StorageOf(held), Put(Empty, keys, noted)) = StorageOf(Put(held, keys, values))
<1> USE DEF Fills
<1> DEFINE h == Put(held, keys, values)
           t == Put(Empty, keys, noted)
           K == ToSet(keys)
           known == StorageOf(held)
<1>1. DOMAIN h = DOMAIN held \cup K /\ DOMAIN t = K /\ K \subseteq Slots
  <2>1. DOMAIN Empty = {}
    BY DEF Empty
  <2>2. \A f, vs : DOMAIN Put(f, keys, vs) = DOMAIN f \cup ToSet(keys)
    BY PutFacts, Zenon
  <2>3. ToSet(keys) = {keys[j] : j \in 1..n}
    BY PutFacts, Zenon
  <2>4. DOMAIN h = DOMAIN held \cup K
    BY <2>2, Zenon
  <2>5. DOMAIN t = DOMAIN Empty \cup K
    BY <2>2, Zenon
  <2>6. K \subseteq Slots
    BY <2>3
  <2> HIDE DEF h, t, K
  <2> QED
    BY <2>1, <2>4, <2>5, <2>6
<1>2. ASSUME NEW k \in K
      PROVE  \E j \in 1..n : h[k] = values[j] /\ t[k] = noted[j]
  <2>1. \E j \in 1..n : \A f, vs : k \in DOMAIN Put(f, keys, vs) /\ Put(f, keys, vs)[k] = vs[j]
    BY <1>2, PutFacts, Zenon
  <2>2. PICK j \in 1..n : \A f, vs : Put(f, keys, vs)[k] = vs[j]
    BY <2>1, Zenon
  <2> QED
    BY <2>2, Zenon
<1>3. ASSUME NEW k \in DOMAIN held, k \notin K PROVE h[k] = held[k]
  <2>1. \A f, vs : k \in DOMAIN f => Put(f, keys, vs)[k] = f[k]
    BY <1>3, PutFacts, Zenon
  <2> QED
    BY <2>1, Zenon
<1> HIDE DEF h, t, K
<1>4. Holds(h)
  BY <1>1, <1>2, <1>3 DEF Holds
<1>5. DOMAIN known = {k \in DOMAIN held : held[k].type \in Storage}
  BY DEF StorageOf
<1>6. \A k \in DOMAIN known : known[k] = held[k]
  BY DEF StorageOf
<1> DEFINE D == {k \in DOMAIN known \cup DOMAIN t : k \in DOMAIN t => t[k].object # NoObject}
           E == {k \in DOMAIN h : h[k].type \in Storage}
<1>7. ASSUME NEW k \in K
      PROVE  /\ t[k].object # NoObject <=> h[k].type \in Storage
             /\ h[k].type \in Storage => t[k] = h[k]
  <2>1. PICK j \in 1..n : h[k] = values[j] /\ t[k] = noted[j]
    BY <1>2
  <2>2. NotedAs(t[k], h[k]) /\ h[k] \in Descriptors
    BY <2>1
  <2>3. h[k].object # NoObject
    BY <2>2, DescriptorFacts
  <2> QED
    BY <2>2, <2>3 DEF NotedAs
<1> HIDE DEF known
<1>8. D = E
  <2>1. ASSUME NEW k, k \in K PROVE k \in D <=> k \in E
    BY <1>1, <1>7, <2>1
  <2>2. ASSUME NEW k, k \notin K PROVE k \in D <=> k \in E
    BY <1>1, <1>3, <1>5, <2>2
  <2> QED
    BY <2>1, <2>2
<1>9. \A k \in E : (IF k \in DOMAIN t THEN t[k] ELSE known[k]) = h[k]
  <2>1. ASSUME NEW k \in E, k \in K PROVE t[k] = h[k]
    BY <1>7, <2>1
  <2>2. ASSUME NEW k \in E, k \notin K PROVE known[k] = h[k]
    BY <1>1, <1>3, <1>5, <1>6, <2>2
  <2> QED
    BY <1>1, <2>1, <2>2
<1>10. Merge(known, t) = [k \in D |-> IF k \in DOMAIN t THEN t[k] ELSE known[k]]
  BY DEF Merge
<1>11. StorageOf(h) = [k \in E |-> h[k]]
  BY DEF StorageOf
<1> HIDE DEF D, E
<1>12. Merge(known, t) = StorageOf(h)
  BY <1>8, <1>9, <1>10, <1>11
<1> QED
  BY <1>4, <1>12 DEF known, t, h
-----------------------------------------------------------------------------
(***************************************************************************)
(* One command buffer.                                                     *)
(***************************************************************************)

Note ==
    [pending_writes : SUBSET Memories, host_visible_writes : SUBSET Memories,
     bound : [Points -> SUBSET Sets],
     writable_descriptor_sets : SUBSET Sets,
     descriptor_writes_host_visible : BOOLEAN]

DriverRecord ==
    [written : SUBSET Resources, visible : SUBSET Resources,
     handed : SUBSET Resources, barriers : SUBSET (Resources \cup {Everything})]

\* The sets through which the commands of a note may write r, held being what
\* each set holds.
Through(n, r, held) ==
    \E s \in n.writable_descriptor_sets : r \in WrittenThrough(held[s])

\* The client's note n of a command buffer and the driver's record d of it.
\* Everything noted as written is written, and everything noted as visible to
\* the host is written or named in a barrier; what is written is noted, in an
\* allocation or in a set, and what a barrier made visible is noted so.
Agree(n, d, held) ==
    /\ n \in Note
    /\ d \in DriverRecord
    /\ \A m \in n.pending_writes : \E r \in d.written : m = Memory[r]
    /\ \A m \in n.host_visible_writes :
          \E r \in d.written \cup (d.barriers \ {Everything}) : m = Memory[r]
    /\ \A s \in n.writable_descriptor_sets : WrittenThrough(held[s]) \subseteq d.written
    /\ \A r \in d.written : Memory[r] \in n.pending_writes \/ Through(n, r, held)
    /\ \A r \in d.visible :
          \/ Memory[r] \in n.host_visible_writes
          \/ n.descriptor_writes_host_visible /\ Through(n, r, held)

\* A buffer with nothing recorded in it.
LEMMA AgreeFresh ==
  ASSUME NEW held
  PROVE  Agree(Fresh, Unrecorded, held)
<1>1. Fresh \in Note
  BY DEF Fresh, Note
<1>2. Unrecorded \in DriverRecord
  BY DEF Unrecorded, DriverRecord
<1>3. /\ Fresh.pending_writes = {} /\ Fresh.host_visible_writes = {}
      /\ Fresh.writable_descriptor_sets = {}
      /\ Unrecorded.written = {} /\ Unrecorded.visible = {}
  BY DEF Fresh, Unrecorded
<1> QED
  BY <1>1, <1>2, <1>3 DEF Agree

\* A command that writes rs, noted by allocation.
LEMMA AgreeWrites ==
  ASSUME NEW n, NEW d, NEW held, Agree(n, d, held),
         NEW rs \in SUBSET Resources,
         NEW ms, ms = {Memory[r] : r \in rs}
  PROVE  Agree([n EXCEPT !.pending_writes = @ \cup ms], [d EXCEPT !.written = @ \cup rs], held)
<1> DEFINE n1 == [n EXCEPT !.pending_writes = @ \cup ms]
           d1 == [d EXCEPT !.written = @ \cup rs]
<1>1. n \in Note /\ d \in DriverRecord
  BY DEF Agree
<1>2. ms \subseteq Memories
  BY DEF Memories
<1>3. /\ n1 \in Note
      /\ n1.pending_writes = n.pending_writes \cup ms
      /\ n1.host_visible_writes = n.host_visible_writes
      /\ n1.writable_descriptor_sets = n.writable_descriptor_sets
      /\ n1.descriptor_writes_host_visible = n.descriptor_writes_host_visible
  BY <1>1, <1>2 DEF Note
<1>4. /\ d1 \in DriverRecord
      /\ d1.written = d.written \cup rs
      /\ d1.visible = d.visible
      /\ d1.barriers = d.barriers
  BY <1>1 DEF DriverRecord
<1> HIDE DEF n1, d1
<1>5. \A r : Through(n1, r, held) <=> Through(n, r, held)
  BY <1>3 DEF Through
<1>6. \A m \in n1.pending_writes : \E r \in d1.written : m = Memory[r]
  BY <1>3, <1>4 DEF Agree
<1>7. \A m \in n1.host_visible_writes :
        \E r \in d1.written \cup (d1.barriers \ {Everything}) : m = Memory[r]
  BY <1>3, <1>4 DEF Agree
<1>8. \A s \in n1.writable_descriptor_sets : WrittenThrough(held[s]) \subseteq d1.written
  BY <1>3, <1>4 DEF Agree
<1>9. \A r \in d1.written : Memory[r] \in n1.pending_writes \/ Through(n1, r, held)
  BY <1>3, <1>4, <1>5 DEF Agree
<1>10. \A r \in d1.visible :
          \/ Memory[r] \in n1.host_visible_writes
          \/ n1.descriptor_writes_host_visible /\ Through(n1, r, held)
  BY <1>3, <1>4, <1>5 DEF Agree
<1>11. Agree(n1, d1, held)
  BY <1>3, <1>4, <1>6, <1>7, <1>8, <1>9, <1>10 DEF Agree
<1> QED
  BY <1>11 DEF n1, d1

\* Binding a set.
LEMMA AgreeBinds ==
  ASSUME NEW n, NEW d, NEW held, Agree(n, d, held),
         NEW point \in Points, NEW s \in Sets
  PROVE  Agree([n EXCEPT !.bound[point] = {s}], [d EXCEPT !.written = @ \cup {}], held)
<1> DEFINE n1 == [n EXCEPT !.bound[point] = {s}]
<1>1. n \in Note /\ d \in DriverRecord
  BY DEF Agree
<1>2. /\ n1 \in Note
      /\ n1.pending_writes = n.pending_writes
      /\ n1.host_visible_writes = n.host_visible_writes
      /\ n1.writable_descriptor_sets = n.writable_descriptor_sets
      /\ n1.descriptor_writes_host_visible = n.descriptor_writes_host_visible
  BY <1>1 DEF Note
<1>3. [d EXCEPT !.written = @ \cup {}] = d
  <2>1. d.written \cup {} = d.written
    OBVIOUS
  <2> QED
    BY <1>1, <2>1 DEF DriverRecord
<1> HIDE DEF n1
<1>4. \A r : Through(n1, r, held) <=> Through(n, r, held)
  BY <1>2 DEF Through
<1>5. Agree(n1, d, held)
  BY <1>2, <1>4 DEF Agree
<1> QED
  BY <1>3, <1>5 DEF n1

\* A draw or a dispatch: it writes through the sets ss, which are noted.
LEMMA AgreeDraws ==
  ASSUME NEW n, NEW d, NEW held, Agree(n, d, held),
         NEW ss \in SUBSET Sets,
         \A s \in ss : WrittenThrough(held[s]) \subseteq Resources
  PROVE  Agree([n EXCEPT !.writable_descriptor_sets = @ \cup ss],
               [d EXCEPT !.written = @ \cup UNION {WrittenThrough(held[s]) : s \in ss}],
               held)
<1> DEFINE rs == UNION {WrittenThrough(held[s]) : s \in ss}
           n1 == [n EXCEPT !.writable_descriptor_sets = @ \cup ss]
           d1 == [d EXCEPT !.written = @ \cup rs]
<1>1. n \in Note /\ d \in DriverRecord
  BY DEF Agree
<1>2. rs \subseteq Resources
  OBVIOUS
<1>3. \A r : r \in rs <=> \E s \in ss : r \in WrittenThrough(held[s])
  OBVIOUS
<1> HIDE DEF rs
<1>4. /\ n1 \in Note
      /\ n1.pending_writes = n.pending_writes
      /\ n1.host_visible_writes = n.host_visible_writes
      /\ n1.writable_descriptor_sets = n.writable_descriptor_sets \cup ss
      /\ n1.descriptor_writes_host_visible = n.descriptor_writes_host_visible
  BY <1>1 DEF Note
<1>5. /\ d1 \in DriverRecord
      /\ d1.written = d.written \cup rs
      /\ d1.visible = d.visible
      /\ d1.barriers = d.barriers
  BY <1>1, <1>2 DEF DriverRecord
<1> HIDE DEF n1, d1
<1>6. \A r : Through(n1, r, held) <=> Through(n, r, held) \/ r \in rs
  BY <1>3, <1>4 DEF Through
<1>7. \A m \in n1.pending_writes : \E r \in d1.written : m = Memory[r]
  BY <1>4, <1>5 DEF Agree
<1>8. \A m \in n1.host_visible_writes :
        \E r \in d1.written \cup (d1.barriers \ {Everything}) : m = Memory[r]
  BY <1>4, <1>5 DEF Agree
<1>9. \A s \in n1.writable_descriptor_sets : WrittenThrough(held[s]) \subseteq d1.written
  BY <1>3, <1>4, <1>5 DEF Agree
<1>10. \A r \in d1.written : Memory[r] \in n1.pending_writes \/ Through(n1, r, held)
  BY <1>4, <1>5, <1>6 DEF Agree
<1>11. \A r \in d1.visible :
          \/ Memory[r] \in n1.host_visible_writes
          \/ n1.descriptor_writes_host_visible /\ Through(n1, r, held)
  BY <1>4, <1>5, <1>6 DEF Agree
<1>12. Agree(n1, d1, held)
  BY <1>4, <1>5, <1>7, <1>8, <1>9, <1>10, <1>11 DEF Agree
<1> QED
  BY <1>12 DEF n1, d1, rs

\* What a barrier to the host does to the driver's record.
Barred(d, scope) ==
    [d EXCEPT !.visible = @ \cup (d.written \cap Covered(scope)),
              !.handed = @ \cup (d.written \cap Covered(scope)),
              !.barriers = @ \cup {scope}]

LEMMA BarredFacts ==
  ASSUME NEW d \in DriverRecord, NEW scope \in Resources \cup {Everything}
  PROVE  /\ Barred(d, scope) \in DriverRecord
         /\ Barred(d, scope).written = d.written
         /\ Barred(d, scope).visible = d.visible \cup (d.written \cap Covered(scope))
         /\ Barred(d, scope).barriers = d.barriers \cup {scope}
<1>1. d.written \cap Covered(scope) \in SUBSET Resources
  BY DEF DriverRecord
<1> QED
  BY <1>1 DEF Barred, DriverRecord

\* A barrier on all memory: what was written so far is noted as visible, by
\* allocation and by set.
LEMMA AgreeBarsAll ==
  ASSUME NEW n, NEW d, NEW held, Agree(n, d, held)
  PROVE  Agree([n EXCEPT !.host_visible_writes = @ \cup n.pending_writes,
                         !.descriptor_writes_host_visible = TRUE],
               Barred(d, Everything), held)
<1> DEFINE n1 == [n EXCEPT !.host_visible_writes = @ \cup n.pending_writes,
                           !.descriptor_writes_host_visible = TRUE]
           d1 == Barred(d, Everything)
<1>1. n \in Note /\ d \in DriverRecord
  BY DEF Agree
<1>2. /\ n1 \in Note
      /\ n1.pending_writes = n.pending_writes
      /\ n1.host_visible_writes = n.host_visible_writes \cup n.pending_writes
      /\ n1.writable_descriptor_sets = n.writable_descriptor_sets
      /\ n1.descriptor_writes_host_visible = TRUE
  BY <1>1 DEF Note
<1>3. /\ d1 \in DriverRecord
      /\ d1.written = d.written
      /\ d1.barriers \ {Everything} = d.barriers \ {Everything}
      /\ d1.visible \subseteq d.visible \cup d.written
  BY <1>1, BarredFacts
<1> HIDE DEF n1, d1
<1>4. \A r : Through(n1, r, held) <=> Through(n, r, held)
  BY <1>2 DEF Through
<1>5. \A m \in n1.pending_writes : \E r \in d1.written : m = Memory[r]
  BY <1>2, <1>3 DEF Agree
<1>6. \A m \in n1.host_visible_writes :
        \E r \in d1.written \cup (d1.barriers \ {Everything}) : m = Memory[r]
  BY <1>2, <1>3 DEF Agree
<1>7. \A s \in n1.writable_descriptor_sets : WrittenThrough(held[s]) \subseteq d1.written
  BY <1>2, <1>3 DEF Agree
<1>8. \A r \in d1.written : Memory[r] \in n1.pending_writes \/ Through(n1, r, held)
  BY <1>2, <1>3, <1>4 DEF Agree
<1>9. \A r \in d1.visible :
          \/ Memory[r] \in n1.host_visible_writes
          \/ n1.descriptor_writes_host_visible /\ Through(n1, r, held)
  BY <1>2, <1>3, <1>4 DEF Agree
<1>10. Agree(n1, d1, held)
  BY <1>2, <1>3, <1>5, <1>6, <1>7, <1>8, <1>9 DEF Agree
<1> QED
  BY <1>10 DEF n1, d1

\* A barrier on one resource: its allocation is noted as visible at least if the
\* resource was written.
LEMMA AgreeBarsOne ==
  ASSUME NEW n, NEW d, NEW held, Agree(n, d, held),
         NEW scope \in Resources, scope # Everything,
         NEW ms \in SUBSET {Memory[scope]},
         (Memory[scope] \in n.pending_writes \/ Through(n, scope, held)) => Memory[scope] \in ms
  PROVE  Agree([n EXCEPT !.host_visible_writes = @ \cup ms], Barred(d, scope), held)
<1> DEFINE n1 == [n EXCEPT !.host_visible_writes = @ \cup ms]
           d1 == Barred(d, scope)
<1>1. n \in Note /\ d \in DriverRecord
  BY DEF Agree
<1>a. ms \subseteq Memories
  BY DEF Memories
<1>2. /\ n1 \in Note
      /\ n1.pending_writes = n.pending_writes
      /\ n1.host_visible_writes = n.host_visible_writes \cup ms
      /\ n1.writable_descriptor_sets = n.writable_descriptor_sets
      /\ n1.descriptor_writes_host_visible = n.descriptor_writes_host_visible
  BY <1>1, <1>a DEF Note
<1>3. /\ d1 \in DriverRecord
      /\ d1.written = d.written
      /\ d1.barriers = d.barriers \cup {scope}
      /\ d1.visible = d.visible \cup (d.written \cap {scope})
  BY <1>1, BarredFacts DEF Covered
<1> HIDE DEF n1, d1
<1>4. \A r : Through(n1, r, held) <=> Through(n, r, held)
  BY <1>2 DEF Through
<1>5. \A m \in n1.pending_writes : \E r \in d1.written : m = Memory[r]
  BY <1>2, <1>3 DEF Agree
<1>6. \A m \in n1.host_visible_writes :
        \E r \in d1.written \cup (d1.barriers \ {Everything}) : m = Memory[r]
  BY <1>2, <1>3 DEF Agree
<1>7. \A s \in n1.writable_descriptor_sets : WrittenThrough(held[s]) \subseteq d1.written
  BY <1>2, <1>3 DEF Agree
<1>8. \A r \in d1.written : Memory[r] \in n1.pending_writes \/ Through(n1, r, held)
  BY <1>2, <1>3, <1>4 DEF Agree
<1>9. \A r \in d1.visible :
          \/ Memory[r] \in n1.host_visible_writes
          \/ n1.descriptor_writes_host_visible /\ Through(n1, r, held)
  BY <1>2, <1>3, <1>4 DEF Agree
<1>10. Agree(n1, d1, held)
  BY <1>2, <1>3, <1>5, <1>6, <1>7, <1>8, <1>9 DEF Agree
<1> QED
  BY <1>10 DEF n1, d1
\* What executing a secondary with note m and record e does to the note and the
\* record of the primary.
Inherits(n, m) ==
    [n EXCEPT !.pending_writes = @ \cup m.pending_writes,
              !.host_visible_writes = @ \cup m.host_visible_writes,
              !.writable_descriptor_sets = @ \cup m.writable_descriptor_sets,
              !.descriptor_writes_host_visible = @ \/ m.descriptor_writes_host_visible]

Executes(d, e) ==
    [d EXCEPT !.written = @ \cup e.written,
              !.visible = @ \cup e.visible,
              !.handed = @ \cup e.handed \cup (d.written \cap UNION {Covered(b) : b \in e.barriers}),
              !.barriers = @ \cup e.barriers]

\* Executing a secondary: the primary inherits the agreement of both.
LEMMA AgreeExecutes ==
  ASSUME NEW n, NEW d, NEW m, NEW e, NEW held, Agree(n, d, held), Agree(m, e, held)
  PROVE  Agree(Inherits(n, m), Executes(d, e), held)
<1> DEFINE n1 == Inherits(n, m)
           d1 == Executes(d, e)
<1>1. n \in Note /\ d \in DriverRecord /\ m \in Note /\ e \in DriverRecord
  BY DEF Agree
<1>2. /\ n1.pending_writes = n.pending_writes \cup m.pending_writes
      /\ n1.host_visible_writes = n.host_visible_writes \cup m.host_visible_writes
      /\ n1.writable_descriptor_sets = n.writable_descriptor_sets \cup m.writable_descriptor_sets
      /\ n1.bound = n.bound
  BY <1>1 DEF Note, Inherits
<1>3. n1.descriptor_writes_host_visible
        = (n.descriptor_writes_host_visible \/ m.descriptor_writes_host_visible)
  BY <1>1 DEF Note, Inherits
<1>4. n1 \in Note
  BY <1>1 DEF Note, Inherits
<1>5. /\ d1.written = d.written \cup e.written
      /\ d1.visible = d.visible \cup e.visible
      /\ d1.barriers = d.barriers \cup e.barriers
  BY <1>1 DEF DriverRecord, Executes
<1>6. d1 \in DriverRecord
  <2> DEFINE cov == UNION {Covered(b) : b \in e.barriers}
  <2> HIDE DEF cov
  <2>1. /\ d.written \cup e.written \in SUBSET Resources
        /\ d.visible \cup e.visible \in SUBSET Resources
        /\ d.handed \cup e.handed \cup (d.written \cap cov) \in SUBSET Resources
        /\ d.barriers \cup e.barriers \in SUBSET (Resources \cup {Everything})
    BY <1>1 DEF DriverRecord
  <2>2. d1 = [d EXCEPT !.written = @ \cup e.written,
                       !.visible = @ \cup e.visible,
                       !.handed = @ \cup e.handed \cup (d.written \cap cov),
                       !.barriers = @ \cup e.barriers]
    BY DEF cov, Executes
  <2> QED
    BY <1>1, <2>1, <2>2 DEF DriverRecord
<1> HIDE DEF n1, d1
<1>7. \A r : Through(n1, r, held) <=> Through(n, r, held) \/ Through(m, r, held)
  BY <1>2 DEF Through
<1>8. \A x \in n1.pending_writes : \E r \in d1.written : x = Memory[r]
  BY <1>2, <1>5 DEF Agree
<1>9. \A x \in n1.host_visible_writes :
        \E r \in d1.written \cup (d1.barriers \ {Everything}) : x = Memory[r]
  <2>1. \A x \in n.host_visible_writes :
          \E r \in d.written \cup (d.barriers \ {Everything}) : x = Memory[r]
    BY DEF Agree
  <2>2. \A x \in m.host_visible_writes :
          \E r \in e.written \cup (e.barriers \ {Everything}) : x = Memory[r]
    BY DEF Agree
  <2> QED
    BY <1>2, <1>5, <2>1, <2>2
<1>10. \A s \in n1.writable_descriptor_sets : WrittenThrough(held[s]) \subseteq d1.written
  BY <1>2, <1>5 DEF Agree
<1>11. \A r \in d1.written : Memory[r] \in n1.pending_writes \/ Through(n1, r, held)
  BY <1>2, <1>5, <1>7 DEF Agree
<1>12. \A r \in d1.visible :
          \/ Memory[r] \in n1.host_visible_writes
          \/ n1.descriptor_writes_host_visible /\ Through(n1, r, held)
  BY <1>2, <1>3, <1>5, <1>7 DEF Agree
<1>13. Agree(n1, d1, held)
  BY <1>4, <1>6, <1>8, <1>9, <1>10, <1>11, <1>12 DEF Agree
<1> QED
  BY <1>13 DEF n1, d1

-----------------------------------------------------------------------------
(***************************************************************************)
(* The specification.                                                      *)
(***************************************************************************)

\* The inductive invariant: both sides agree on every set and on every command
\* buffer.
RecordInv ==
    /\ DOMAIN resources = Sets
    /\ DOMAIN contents = Sets
    /\ DOMAIN cb = CommandBuffers
    /\ DOMAIN device = CommandBuffers
    /\ updates \in 0..MaxUpdates
    /\ commands \in 0..MaxCommands
    /\ \A s \in Sets : Holds(contents[s]) /\ resources[s] = StorageOf(contents[s])
    /\ \A c \in CommandBuffers : Agree(cb[c], device[c], contents)

LEMMA RecordInit == Init => RecordInv
<1> SUFFICES ASSUME Init PROVE RecordInv
  OBVIOUS
<1>1. Holds(Empty) /\ Empty = StorageOf(Empty)
  BY DEF Empty, Holds, StorageOf
<1>2. 0 \in 0..MaxUpdates /\ 0 \in 0..MaxCommands
  BY BoundsAssumption
<1>3. \A s \in Sets : Holds(contents[s]) /\ resources[s] = StorageOf(contents[s])
  BY <1>1 DEF Init
<1>4. \A c \in CommandBuffers : Agree(cb[c], device[c], contents)
  BY AgreeFresh DEF Init
<1> QED
  BY <1>2, <1>3, <1>4 DEF Init, RecordInv

\* A step that gives one command buffer a note and a record that agree, and
\* leaves the sets alone.
LEMMA OneBuffer ==
  ASSUME RecordInv, NEW c \in CommandBuffers, NEW n, NEW d,
         Agree(n, d, contents),
         cb' = [cb EXCEPT ![c] = n],
         device' = [device EXCEPT ![c] = d],
         Recordable(c),
         UNCHANGED <<resources, contents, updates>>
  PROVE  RecordInv'
<1>1. commands' \in 0..MaxCommands
  BY BoundsAssumption DEF RecordInv, Recordable
<1>2. DOMAIN cb' = CommandBuffers /\ DOMAIN device' = CommandBuffers
  BY DEF RecordInv
<1>3. ASSUME NEW x \in CommandBuffers PROVE Agree(cb'[x], device'[x], contents)
  <2>1. CASE x = c
    <3>1. cb'[x] = n /\ device'[x] = d
      BY <2>1 DEF RecordInv
    <3> QED
      BY <3>1
  <2>2. CASE x # c
    <3>1. cb'[x] = cb[x] /\ device'[x] = device[x]
      BY <2>2 DEF RecordInv
    <3>2. Agree(cb[x], device[x], contents)
      BY DEF RecordInv
    <3> QED
      BY <3>1, <3>2
  <2> QED
    BY <2>1, <2>2
<1>4. \A x \in CommandBuffers : Agree(cb'[x], device'[x], contents')
  BY <1>3
<1>5. \A s \in Sets : Holds(contents'[s]) /\ resources'[s] = StorageOf(contents'[s])
  BY DEF RecordInv
<1>6. DOMAIN resources' = Sets /\ DOMAIN contents' = Sets /\ updates' \in 0..MaxUpdates
  BY DEF RecordInv
<1> QED
  BY <1>1, <1>2, <1>4, <1>5, <1>6 DEF RecordInv

\* The same for a command that writes rs.
LEMMA OneWrite ==
  ASSUME RecordInv, NEW c \in CommandBuffers, NEW rs, NEW n,
         Records(c, rs, n),
         Agree(n, [device[c] EXCEPT !.written = @ \cup rs], contents)
  PROVE  RecordInv'
<1> DEFINE d == [device[c] EXCEPT !.written = @ \cup rs]
<1>1. device' = [device EXCEPT ![c] = d]
  BY DEF Records
<1>2. cb' = [cb EXCEPT ![c] = n] /\ Recordable(c) /\ UNCHANGED <<resources, contents, updates>>
  BY DEF Records
<1> HIDE DEF d
<1>3. Agree(n, d, contents)
  BY DEF d
<1> QED
  BY <1>1, <1>2, <1>3, OneBuffer

\* The same for a host barrier.
LEMMA OneBarrier ==
  ASSUME RecordInv, NEW c \in CommandBuffers, NEW scope, NEW n,
         Bars(c, scope, n),
         Agree(n, Barred(device[c], scope), contents)
  PROVE  RecordInv'
<1> DEFINE d == Barred(device[c], scope)
<1>1. device' = [device EXCEPT ![c] = d]
  BY DEF Bars, Barred
<1>2. cb' = [cb EXCEPT ![c] = n] /\ Recordable(c) /\ UNCHANGED <<resources, contents, updates>>
  BY DEF Bars
<1> HIDE DEF d
<1>3. Agree(n, d, contents)
  BY DEF d
<1> QED
  BY <1>1, <1>2, <1>3, OneBuffer

\* A step that forgets the recordings of cs.
LEMMA ForgetKeeps ==
  ASSUME RecordInv, NEW cs, Forget(cs)
  PROVE  RecordInv'
<1>1. ASSUME NEW c \in CommandBuffers PROVE Agree(cb'[c], device'[c], contents)
  <2>1. CASE c \in cs
    <3>1. cb'[c] = Fresh /\ device'[c] = Unrecorded
      BY <2>1 DEF Forget
    <3> QED
      BY <3>1, AgreeFresh
  <2>2. CASE c \notin cs
    <3>1. cb'[c] = cb[c] /\ device'[c] = device[c]
      BY <2>2 DEF Forget
    <3>2. Agree(cb[c], device[c], contents)
      BY DEF RecordInv
    <3> QED
      BY <3>1, <3>2
  <2> QED
    BY <2>1, <2>2
<1>2. \A c \in CommandBuffers : Agree(cb'[c], device'[c], contents')
  BY <1>1 DEF Forget
<1>3. DOMAIN cb' = CommandBuffers /\ DOMAIN device' = CommandBuffers
  BY DEF Forget
<1>4. UNCHANGED <<resources, contents, updates, commands>>
  BY DEF Forget
<1> QED
  BY <1>2, <1>3, <1>4 DEF RecordInv

\* A step that changes sets while nothing is recorded, and leaves each of them
\* known.
LEMMA UpdateKeeps ==
  ASSUME RecordInv, ~Recorded, updates < MaxUpdates, updates' = updates + 1,
         DOMAIN resources' = Sets, DOMAIN contents' = Sets,
         \A s \in Sets : Holds(contents'[s]) /\ resources'[s] = StorageOf(contents'[s]),
         UNCHANGED <<cb, device, commands>>
  PROVE  RecordInv'
<1>1. ASSUME NEW c \in CommandBuffers PROVE Agree(cb'[c], device'[c], contents')
  <2>1. cb'[c] = Fresh /\ device'[c] = Unrecorded
    BY DEF Recorded, IsRecorded
  <2> QED
    BY <2>1, AgreeFresh
<1>2. updates' \in 0..MaxUpdates
  BY BoundsAssumption DEF RecordInv
<1>3. DOMAIN cb' = CommandBuffers /\ DOMAIN device' = CommandBuffers /\ commands' \in 0..MaxCommands
  BY DEF RecordInv
<1>4. \A c \in CommandBuffers : Agree(cb'[c], device'[c], contents')
  BY <1>1
<1> QED
  BY <1>2, <1>3, <1>4 DEF RecordInv
\* A write: both sides fill the same slots.
LEMMA WriteKeeps ==
  ASSUME RecordInv, NEW s \in Sets, NEW slot \in Slots,
         NEW ds \in Seq(Descriptors), Len(ds) \in 1..2,
         Write(s, slot, ds)
  PROVE  /\ DOMAIN resources' = Sets /\ DOMAIN contents' = Sets
         /\ \A t \in Sets : Holds(contents'[t]) /\ resources'[t] = StorageOf(contents'[t])
<1> DEFINE n == Len(ds)
           keys == Keys(slot, n)
           noted == [j \in 1..n |-> Resource(ds[j])]
           touched == Put(Empty, keys, noted)
           held == Put(contents[s], keys, ds)
<1>1. /\ HasRoom(slot, n)
      /\ resources' = [resources EXCEPT ![s] = Merge(@, touched)]
      /\ contents' = [contents EXCEPT ![s] = Put(@, Run(slot, n), ds)]
  BY DEF Write
<1>0. n \in 1..2 /\ ds \in [1..n -> Descriptors]
  BY LenProperties
<1> HIDE DEF n
<1>2. keys = Run(slot, n) /\ keys \in [1..n -> Slots]
  BY <1>0, <1>1, KeysAreRun
<1>3. \A j \in 1..n : ds[j] \in Descriptors /\ NotedAs(noted[j], ds[j])
  <2>1. ASSUME NEW j \in 1..n PROVE ds[j] \in Descriptors /\ NotedAs(Resource(ds[j]), ds[j])
    BY <1>0, DescriptorFacts
  <2> QED
    BY <2>1
<1>4. Holds(contents[s]) /\ resources[s] = StorageOf(contents[s])
  BY DEF RecordInv
<1> HIDE DEF keys, noted
<1>5. Holds(held) /\ Merge(StorageOf(contents[s]), touched) = StorageOf(held)
  <2>1. Fills(n, keys, ds, noted)
    BY <1>0, <1>2, <1>3 DEF Fills
  <2> QED
    BY <1>4, <2>1, PutAgrees
<1> HIDE DEF touched, held
<1>6. resources' = [resources EXCEPT ![s] = StorageOf(held)]
  BY <1>1, <1>4, <1>5
<1>7. contents' = [contents EXCEPT ![s] = held]
  BY <1>1, <1>2 DEF held
<1> QED
  BY <1>5, <1>6, <1>7 DEF RecordInv

\* A write and a copy of what it wrote.
LEMMA WriteAndCopyKeeps ==
  ASSUME RecordInv, NEW s \in Sets, NEW slot \in Slots, NEW d \in Descriptors,
         NEW t \in Sets, NEW to \in Slots, NEW n \in 1..2,
         WriteAndCopy(s, slot, d, t, to, n)
  PROVE  /\ DOMAIN resources' = Sets /\ DOMAIN contents' = Sets
         /\ \A u \in Sets : Holds(contents'[u]) /\ resources'[u] = StorageOf(contents'[u])
<1> DEFINE touched == Put(Empty, Keys(slot, 1), <<Resource(d)>>)
           source == Merge(resources[s], touched)
           from == Keys(slot, n)
           snapshot == [j \in 1..n |-> IF from[j] \in DOMAIN source THEN source[from[j]]
                                       ELSE [type |-> "SAMPLER", object |-> NoObject]]
           written == Put(contents[s], Run(slot, 1), <<d>>)
           copied == [j \in 1..n |-> written[Run(slot, n)[j]]]
           held == Put(contents[t], Run(to, n), copied)
           got == Put(Empty, Keys(to, n), snapshot)
<1>1. /\ s # t
      /\ HasRoom(slot, n) /\ HasRoom(to, n)
      /\ ToSet(Run(slot, n)) \subseteq DOMAIN written
      /\ resources' = [resources EXCEPT ![s] = Merge(@, touched), ![t] = Merge(@, got)]
      /\ contents' = [contents EXCEPT ![s] = written, ![t] = Put(@, Run(to, n), copied)]
  BY DEF WriteAndCopy, SourceOf
<1>2. /\ Holds(contents[s]) /\ resources[s] = StorageOf(contents[s])
      /\ Holds(contents[t]) /\ resources[t] = StorageOf(contents[t])
  BY DEF RecordInv
<1>3. HasRoom(slot, 1)
  <2>1. [j \in 1..1 |-> slot] \in Runs(slot, 1)
    BY DEF Runs
  <2> QED
    BY <2>1 DEF HasRoom
<1>4. /\ Keys(slot, 1) = Run(slot, 1) /\ Run(slot, 1) \in [1..1 -> Slots]
      /\ Keys(slot, n) = Run(slot, n) /\ Run(slot, n) \in [1..n -> Slots]
      /\ Keys(to, n) = Run(to, n) /\ Run(to, n) \in [1..n -> Slots]
  <2>1. 1 \in 1..2
    OBVIOUS
  <2>2. Keys(slot, 1) = Run(slot, 1) /\ Run(slot, 1) \in [1..1 -> Slots]
    BY <1>3, <2>1, KeysAreRun
  <2>3. Keys(slot, n) = Run(slot, n) /\ Run(slot, n) \in [1..n -> Slots]
    BY <1>1, KeysAreRun
  <2>4. Keys(to, n) = Run(to, n) /\ Run(to, n) \in [1..n -> Slots]
    BY <1>1, KeysAreRun
  <2> QED
    BY <2>2, <2>3, <2>4
<1>5. Holds(written) /\ source = StorageOf(written)
  <2>1. \A j \in 1..1 : <<d>>[j] \in Descriptors /\ NotedAs(<<Resource(d)>>[j], <<d>>[j])
    BY DescriptorFacts
  <2> DEFINE values == <<d>>
             noted == <<Resource(d)>>
             keys == Run(slot, 1)
  <2>2. \A j \in 1..1 : values[j] \in Descriptors /\ NotedAs(noted[j], values[j])
    BY <2>1
  <2>3. Fills(1, keys, values, noted)
    BY <1>4, <2>2 DEF Fills
  <2> HIDE DEF values, noted, keys
  <2>4. /\ Holds(Put(contents[s], keys, values))
        /\ Merge(StorageOf(contents[s]), Put(Empty, keys, noted))
              = StorageOf(Put(contents[s], keys, values))
    BY <1>2, <2>3, PutAgrees
  <2> QED
    BY <1>2, <1>4, <2>4 DEF values, noted, keys
<1>6. \A j \in 1..n : copied[j] \in Descriptors /\ NotedAs(snapshot[j], copied[j])
  <2> HIDE DEF written, source
  <2> SUFFICES ASSUME NEW j \in 1..n
               PROVE  copied[j] \in Descriptors /\ NotedAs(snapshot[j], copied[j])
    OBVIOUS
  <2> DEFINE k == Run(slot, n)[j]
  <2>1. k \in DOMAIN written
    <3>1. DOMAIN Run(slot, n) = 1..n
      BY <1>4
    <3>2. k \in ToSet(Run(slot, n))
      BY <3>1 DEF ToSet
    <3> QED
      BY <1>1, <3>2
  <2>2. copied[j] = written[k]
    OBVIOUS
  <2>3. snapshot[j] = IF k \in DOMAIN source THEN source[k]
                      ELSE [type |-> "SAMPLER", object |-> NoObject]
    BY <1>4
  <2> HIDE DEF k, copied, snapshot
  <2>4. k \in DOMAIN source <=> written[k].type \in Storage
    BY <1>5, <2>1 DEF StorageOf
  <2>5. k \in DOMAIN source => source[k] = written[k]
    BY <1>5, <2>1 DEF StorageOf
  <2>6. k \notin DOMAIN source => snapshot[j].object = NoObject
    BY <2>3
  <2>7. written[k] \in Descriptors
    BY <1>5, <2>1 DEF Holds
  <2> QED
    BY <2>2, <2>3, <2>4, <2>5, <2>6, <2>7 DEF NotedAs
<1> HIDE DEF copied, snapshot
<1>7. Holds(held) /\ Merge(StorageOf(contents[t]), got) = StorageOf(held)
  <2> DEFINE keys == Run(to, n)
  <2>1. Fills(n, keys, copied, snapshot)
    BY <1>4, <1>6 DEF Fills
  <2> HIDE DEF keys
  <2>2. /\ Holds(Put(contents[t], keys, copied))
        /\ Merge(StorageOf(contents[t]), Put(Empty, keys, snapshot))
              = StorageOf(Put(contents[t], keys, copied))
    BY <1>2, <2>1, PutAgrees
  <2> QED
    BY <1>4, <2>2 DEF keys
<1>8. resources' = [resources EXCEPT ![s] = source, ![t] = Merge(@, got)]
  BY <1>1
<1>9. contents' = [contents EXCEPT ![s] = written, ![t] = Put(@, Run(to, n), copied)]
  BY <1>1
<1> HIDE DEF source, written, got
<1>10. /\ DOMAIN resources' = Sets /\ DOMAIN contents' = Sets
       /\ \A u \in Sets \ {s, t} : resources'[u] = resources[u] /\ contents'[u] = contents[u]
       /\ resources'[s] = source /\ contents'[s] = written
       /\ resources'[t] = Merge(resources[t], got)
       /\ contents'[t] = held
  BY <1>1, <1>8, <1>9 DEF RecordInv
<1> HIDE DEF held
<1>11. resources'[t] = StorageOf(contents'[t]) /\ Holds(contents'[t])
  BY <1>2, <1>7, <1>10
<1>12. resources'[s] = StorageOf(contents'[s]) /\ Holds(contents'[s])
  BY <1>5, <1>10
<1>13. \A u \in Sets \ {s, t} : Holds(contents'[u]) /\ resources'[u] = StorageOf(contents'[u])
  BY <1>10 DEF RecordInv
<1> QED
  BY <1>10, <1>11, <1>12, <1>13
\* vkUpdateDescriptorSets.
LEMMA UpdateDescriptorSetsKeeps ==
  ASSUME RecordInv, NEW s \in Sets, UpdateDescriptorSets(s)
  PROVE  RecordInv'
<1>1. /\ ~Recorded /\ updates < MaxUpdates /\ updates' = updates + 1
      /\ UNCHANGED <<cb, device, commands>>
  BY DEF UpdateDescriptorSets
<1>2. PICK slot \in Slots :
        \/ \E d \in Descriptors : Write(s, slot, <<d>>)
        \/ \E d, e \in Descriptors : Write(s, slot, <<d, e>>)
        \/ \E d \in Descriptors, t \in Sets, to \in Slots, n \in 1..2 :
              WriteAndCopy(s, slot, d, t, to, n)
  BY DEF UpdateDescriptorSets
<1>3. /\ DOMAIN resources' = Sets /\ DOMAIN contents' = Sets
      /\ \A t \in Sets : Holds(contents'[t]) /\ resources'[t] = StorageOf(contents'[t])
  <2>1. CASE \E d \in Descriptors : Write(s, slot, <<d>>)
    <3>1. PICK d \in Descriptors : Write(s, slot, <<d>>)
      BY <2>1
    <3>2. <<d>> \in Seq(Descriptors) /\ Len(<<d>>) \in 1..2
      OBVIOUS
    <3> QED
      BY <3>1, <3>2, WriteKeeps
  <2>2. CASE \E d, e \in Descriptors : Write(s, slot, <<d, e>>)
    <3>1. PICK d \in Descriptors, e \in Descriptors : Write(s, slot, <<d, e>>)
      BY <2>2
    <3>2. <<d, e>> \in Seq(Descriptors) /\ Len(<<d, e>>) \in 1..2
      OBVIOUS
    <3> QED
      BY <3>1, <3>2, WriteKeeps
  <2>3. CASE \E d \in Descriptors, t \in Sets, to \in Slots, n \in 1..2 :
               WriteAndCopy(s, slot, d, t, to, n)
    BY <2>3, WriteAndCopyKeeps
  <2> QED
    BY <1>2, <2>1, <2>2, <2>3
<1> QED
  BY <1>1, <1>3, UpdateKeeps

\* vkFreeDescriptorSets.
LEMMA FreeDescriptorSetsKeeps ==
  ASSUME RecordInv, NEW s \in Sets, FreeDescriptorSets(s)
  PROVE  RecordInv'
<1>1. /\ ~Recorded /\ updates < MaxUpdates /\ updates' = updates + 1
      /\ UNCHANGED <<cb, device, commands>>
  BY DEF FreeDescriptorSets
<1>2. Holds(Empty) /\ Empty = StorageOf(Empty)
  BY DEF Empty, Holds, StorageOf
<1>3. /\ resources' = [resources EXCEPT ![s] = Empty]
      /\ contents' = [contents EXCEPT ![s] = Empty]
  BY DEF FreeDescriptorSets
<1>4. /\ DOMAIN resources' = Sets /\ DOMAIN contents' = Sets
      /\ \A t \in Sets : Holds(contents'[t]) /\ resources'[t] = StorageOf(contents'[t])
  BY <1>2, <1>3 DEF RecordInv
<1> QED
  BY <1>1, <1>4, UpdateKeeps

\* The commands that copy, fill or clear.
LEMMA TransferKeeps ==
  ASSUME RecordInv, NEW c \in CommandBuffers, NEW dst \in Resources, Transfer(c, dst)
  PROVE  RecordInv'
<1>1. Agree(cb[c], device[c], contents)
  BY DEF RecordInv
<1>2. {Memory[dst]} = {Memory[r] : r \in {dst}}
  OBVIOUS
<1>3. Agree([cb[c] EXCEPT !.pending_writes = @ \cup {Memory[dst]}],
            [device[c] EXCEPT !.written = @ \cup {dst}], contents)
  BY <1>1, <1>2, AgreeWrites
<1>4. Records(c, {dst}, [cb[c] EXCEPT !.pending_writes = @ \cup {Memory[dst]}])
  BY DEF Transfer
<1> QED
  BY <1>3, <1>4, OneWrite

\* vkCmdBeginRenderPass.
LEMMA BeginRenderPassKeeps ==
  ASSUME RecordInv, NEW c \in CommandBuffers, NEW fb \in Framebuffers,
         NEW named \in SUBSET ImageViews, BeginRenderPass(c, fb, named)
  PROVE  RecordInv'
<1> DEFINE images == {Viewed[v] : v \in FramebufferViews(fb, named)}
           ms == {Memory[i] : i \in images}
<1>1. Agree(cb[c], device[c], contents)
  BY DEF RecordInv
<1>2. images \in SUBSET Resources
  <2>1. FramebufferViews(fb, named) \subseteq Views
    BY ResourcesAssumption DEF FramebufferViews, ImageViews
  <2> QED
    BY <2>1, ResourcesAssumption
<1>3. Records(c, images, [cb[c] EXCEPT !.pending_writes = @ \cup ms])
  BY DEF BeginRenderPass
<1> HIDE DEF images
<1>4. ms = {Memory[i] : i \in images}
  OBVIOUS
<1> HIDE DEF ms
<1>5. Agree([cb[c] EXCEPT !.pending_writes = @ \cup ms],
            [device[c] EXCEPT !.written = @ \cup images], contents)
  BY <1>1, <1>2, <1>4, AgreeWrites
<1> QED
  BY <1>3, <1>5, OneWrite

\* vkCmdBindDescriptorSets.
LEMMA BindDescriptorSetsKeeps ==
  ASSUME RecordInv, NEW c \in CommandBuffers, NEW point \in Points, NEW s \in Sets,
         BindDescriptorSets(c, point, s)
  PROVE  RecordInv'
<1>1. Agree(cb[c], device[c], contents)
  BY DEF RecordInv
<1>2. Agree([cb[c] EXCEPT !.bound[point] = {s}],
            [device[c] EXCEPT !.written = @ \cup {}], contents)
  BY <1>1, AgreeBinds
<1>3. Records(c, {}, [cb[c] EXCEPT !.bound[point] = {s}])
  BY DEF BindDescriptorSets
<1> QED
  BY <1>2, <1>3, OneWrite

\* vkCmdDraw, vkCmdDispatch.
LEMMA DrawKeeps ==
  ASSUME RecordInv, NEW c \in CommandBuffers, NEW point \in Points, Draw(c, point)
  PROVE  RecordInv'
<1> DEFINE ss == cb[c].bound[point]
           rs == UNION {WrittenThrough(contents[s]) : s \in ss}
<1>1. Agree(cb[c], device[c], contents)
  BY DEF RecordInv
<1>2. ss \in SUBSET Sets
  BY <1>1 DEF Agree, Note
<1>3. \A s \in ss : WrittenThrough(contents[s]) \subseteq Resources
  BY <1>2, WrittenThroughFacts DEF RecordInv
<1>4. Records(c, rs, [cb[c] EXCEPT !.writable_descriptor_sets = @ \cup ss])
  BY DEF Draw, mark_descriptor_writes
<1> HIDE DEF ss
<1>5. Agree([cb[c] EXCEPT !.writable_descriptor_sets = @ \cup ss],
            [device[c] EXCEPT !.written = @ \cup rs], contents)
  BY <1>1, <1>2, <1>3, AgreeDraws
<1> HIDE DEF rs
<1> QED
  BY <1>4, <1>5, OneWrite

\* The client finds a resource through the sets of a note exactly if the driver
\* does.
LEMMA NamedIsThrough ==
  ASSUME RecordInv, NEW c \in CommandBuffers, NEW r
  PROVE  NamedBySets(c, r) <=> Through(cb[c], r, contents)
<1>1. cb[c].writable_descriptor_sets \subseteq Sets
  BY DEF RecordInv, Agree, Note
<1>2. \A s \in Sets : WrittenThrough(resources[s]) = WrittenThrough(contents[s])
  BY WrittenThroughFacts DEF RecordInv
<1> QED
  BY <1>1, <1>2 DEF NamedBySets, Through

\* vkCmdPipelineBarrier.
LEMMA PipelineBarrierKeeps ==
  ASSUME RecordInv, NEW c \in CommandBuffers, NEW scope \in Resources \cup {Everything},
         PipelineBarrier(c, scope)
  PROVE  RecordInv'
<1>1. Agree(cb[c], device[c], contents)
  BY DEF RecordInv
<1>2. CASE scope = Everything
  <2>1. Bars(c, Everything, [cb[c] EXCEPT !.host_visible_writes = @ \cup cb[c].pending_writes,
                                          !.descriptor_writes_host_visible = TRUE])
    BY <1>2 DEF PipelineBarrier
  <2>2. Agree([cb[c] EXCEPT !.host_visible_writes = @ \cup cb[c].pending_writes,
                            !.descriptor_writes_host_visible = TRUE],
              Barred(device[c], Everything), contents)
    BY <1>1, AgreeBarsAll
  <2> QED
    BY <2>1, <2>2, OneBarrier
<1>3. CASE scope # Everything
  <2> DEFINE ms == {m \in {Memory[scope]} : m \in cb[c].pending_writes \/ NamedBySets(c, scope)}
  <2>1. Bars(c, scope, [cb[c] EXCEPT !.host_visible_writes = @ \cup ms])
    BY <1>3 DEF PipelineBarrier
  <2>2. ms \in SUBSET {Memory[scope]}
    OBVIOUS
  <2>3. (Memory[scope] \in cb[c].pending_writes \/ Through(cb[c], scope, contents))
            => Memory[scope] \in ms
    BY NamedIsThrough
  <2> HIDE DEF ms
  <2>4. Agree([cb[c] EXCEPT !.host_visible_writes = @ \cup ms],
              Barred(device[c], scope), contents)
    BY <1>1, <1>3, <2>2, <2>3, AgreeBarsOne
  <2> QED
    BY <2>1, <2>4, OneBarrier
<1> QED
  BY <1>2, <1>3

\* vkCmdPipelineBarrier2.
LEMMA PipelineBarrier2Keeps ==
  ASSUME RecordInv, NEW c \in CommandBuffers, NEW scope \in Resources \cup {Everything},
         PipelineBarrier2(c, scope)
  PROVE  RecordInv'
<1>1. Agree(cb[c], device[c], contents)
  BY DEF RecordInv
<1>2. CASE scope = Everything
  <2>1. Bars(c, Everything, [cb[c] EXCEPT !.host_visible_writes = @ \cup cb[c].pending_writes,
                                          !.descriptor_writes_host_visible = TRUE])
    BY <1>2 DEF PipelineBarrier2
  <2>2. Agree([cb[c] EXCEPT !.host_visible_writes = @ \cup cb[c].pending_writes,
                            !.descriptor_writes_host_visible = TRUE],
              Barred(device[c], Everything), contents)
    BY <1>1, AgreeBarsAll
  <2> QED
    BY <2>1, <2>2, OneBarrier
<1>3. CASE scope # Everything
  <2> DEFINE ms == {Memory[scope]}
  <2>1. Bars(c, scope, [cb[c] EXCEPT !.host_visible_writes = @ \cup ms])
    BY <1>3 DEF PipelineBarrier2
  <2>2. ms \in SUBSET {Memory[scope]} /\ Memory[scope] \in ms
    OBVIOUS
  <2> HIDE DEF ms
  <2>3. Agree([cb[c] EXCEPT !.host_visible_writes = @ \cup ms],
              Barred(device[c], scope), contents)
    BY <1>1, <1>3, <2>2, AgreeBarsOne
  <2> QED
    BY <2>1, <2>3, OneBarrier
<1> QED
  BY <1>2, <1>3

\* vkCmdExecuteCommands.
LEMMA ExecuteCommandsKeeps ==
  ASSUME RecordInv, NEW c \in CommandBuffers, NEW x \in Secondaries, ExecuteCommands(c, x)
  PROVE  RecordInv'
<1> DEFINE n == Inherits(cb[c], cb[x])
           d == Executes(device[c], device[x])
<1>1. x \in CommandBuffers
  BY DEF CommandBuffers
<1>2. Agree(cb[c], device[c], contents) /\ Agree(cb[x], device[x], contents)
  BY <1>1 DEF RecordInv
<1>3. Agree(n, d, contents)
  BY <1>2, AgreeExecutes
<1>4. cb' = [cb EXCEPT ![c] = n]
  BY DEF ExecuteCommands, Inherit, Inherits
<1>5. device' = [device EXCEPT ![c] = d]
  BY DEF ExecuteCommands, Executes
<1>6. Recordable(c) /\ UNCHANGED <<resources, contents, updates>>
  BY DEF ExecuteCommands
<1> HIDE DEF n, d
<1> QED
  BY <1>3, <1>4, <1>5, <1>6, OneBuffer

LEMMA RecordStep == RecordInv /\ [Next]_vars => RecordInv'
<1> SUFFICES ASSUME RecordInv, [Next]_vars PROVE RecordInv'
  OBVIOUS
<1>1. ASSUME NEW s \in Sets, UpdateDescriptorSets(s) \/ FreeDescriptorSets(s)
      PROVE  RecordInv'
  BY <1>1, UpdateDescriptorSetsKeeps, FreeDescriptorSetsKeeps
<1>2. ASSUME NEW c \in CommandBuffers, BeginCommandBuffer(c) PROVE RecordInv'
  BY <1>2, ForgetKeeps DEF BeginCommandBuffer
<1>3. ASSUME NEW c \in CommandBuffers, NEW r \in Resources, Transfer(c, r) PROVE RecordInv'
  BY <1>3, TransferKeeps
<1>4. ASSUME NEW c \in CommandBuffers, NEW fb \in Framebuffers,
             NEW named \in SUBSET ImageViews, BeginRenderPass(c, fb, named)
      PROVE  RecordInv'
  BY <1>4, BeginRenderPassKeeps
<1>5. ASSUME NEW c \in CommandBuffers, NEW p \in Points, NEW s \in Sets,
             BindDescriptorSets(c, p, s)
      PROVE  RecordInv'
  BY <1>5, BindDescriptorSetsKeeps
<1>6. ASSUME NEW c \in CommandBuffers, NEW p \in Points, Draw(c, p) PROVE RecordInv'
  BY <1>6, DrawKeeps
<1>7. ASSUME NEW c \in CommandBuffers, NEW scope \in Resources \cup {Everything},
             PipelineBarrier(c, scope) \/ PipelineBarrier2(c, scope)
      PROVE  RecordInv'
  BY <1>7, PipelineBarrierKeeps, PipelineBarrier2Keeps
<1>8. ASSUME NEW c \in CommandBuffers, NEW x \in Secondaries, ExecuteCommands(c, x)
      PROVE  RecordInv'
  BY <1>8, ExecuteCommandsKeeps
<1>9. ASSUME ResetCommandPool PROVE RecordInv'
  BY <1>9, ForgetKeeps DEF ResetCommandPool
<1>10. ASSUME UNCHANGED vars PROVE RecordInv'
  BY <1>10 DEF vars, RecordInv
<1> QED
  BY <1>1, <1>2, <1>3, <1>4, <1>5, <1>6, <1>7, <1>8, <1>9, <1>10 DEF Next

LEMMA RecordAlways == Spec => []RecordInv
  BY RecordInit, RecordStep, PTL DEF Spec

\* The client's records of descriptor sets are exactly the storage descriptors
\* the driver holds, whatever the layout: writes that run on from one binding
\* over empty ones into the next, slots taken over by other types and copies of
\* what the same call wrote (client/device.cpp:54-90, 1581-1687).
THEOREM DescriptorsAreKnown == Spec => []DescriptorsKnown
<1>1. RecordInv => DescriptorsKnown
  <2> SUFFICES ASSUME RecordInv PROVE DescriptorsKnown
    OBVIOUS
  <2>1. MetadataAgrees
    BY DEF MetadataAgrees, RecordInv, StorageOf
  <2>2. ASSUME NEW s \in Sets
        PROVE  /\ DOMAIN resources[s] \subseteq Slots
               /\ DOMAIN contents[s] \subseteq Slots
               /\ \A k \in DOMAIN contents[s] : contents[s][k] \in Descriptors
    <3>1. Holds(contents[s]) /\ resources[s] = StorageOf(contents[s])
      BY DEF RecordInv
    <3>2. DOMAIN StorageOf(contents[s]) \subseteq DOMAIN contents[s]
      BY DEF StorageOf
    <3> QED
      BY <3>1, <3>2 DEF Holds
  <2>3. ASSUME NEW c \in CommandBuffers
        PROVE  /\ cb[c].pending_writes \cup cb[c].host_visible_writes \subseteq Memories
               /\ cb[c].writable_descriptor_sets \subseteq Sets
               /\ device[c].written \cup device[c].handed \subseteq Resources
    <3>1. cb[c] \in Note /\ device[c] \in DriverRecord
      BY DEF RecordInv, Agree
    <3> QED
      BY <3>1 DEF Note, DriverRecord
  <2>4. TypeOK
    BY <2>2, <2>3 DEF TypeOK, RecordInv
  <2> QED
    BY <2>1, <2>4 DEF DescriptorsKnown
<1> QED
  BY <1>1, RecordAlways, PTL

\* What the submission of one buffer is noted to write.
LEMMA NoteOfOne ==
  ASSUME RecordInv, NEW c \in CommandBuffers, NEW m
  PROVE  m \in submit_writes({c}) <=>
            \/ m \in cb[c].host_visible_writes
            \/ /\ cb[c].descriptor_writes_host_visible
               /\ \E s \in cb[c].writable_descriptor_sets :
                     \E r \in WrittenThrough(contents[s]) : m = Memory[r]
<1>1. cb[c].writable_descriptor_sets \subseteq Sets
  BY DEF RecordInv, Agree, Note
<1>2. \A s \in cb[c].writable_descriptor_sets :
        WrittenThrough(resources[s]) = WrittenThrough(contents[s])
  BY <1>1, WrittenThroughFacts DEF RecordInv
<1> DEFINE ss == UNION {cb[x].writable_descriptor_sets :
                          x \in {x \in {c} : cb[x].descriptor_writes_host_visible}}
           rs == UNION {WrittenThrough(resources[s]) : s \in ss}
           hs == UNION {cb[x].host_visible_writes : x \in {c}}
<1>3. submit_writes({c}) = hs \cup {Memory[r] : r \in rs}
  BY DEF submit_writes
<1>4. hs = cb[c].host_visible_writes
  OBVIOUS
<1>5. \A s : s \in ss <=> cb[c].descriptor_writes_host_visible
                            /\ s \in cb[c].writable_descriptor_sets
  OBVIOUS
<1> HIDE DEF ss, hs
<1>6. \A r : r \in rs <=> \E s \in ss : r \in WrittenThrough(resources[s])
  OBVIOUS
<1> HIDE DEF rs
<1>7. m \in submit_writes({c}) <=>
        m \in cb[c].host_visible_writes \/ \E r \in rs : m = Memory[r]
  BY <1>3, <1>4
<1> QED
  BY <1>2, <1>5, <1>6, <1>7

\* Whatever allocation a submitted buffer writes and hands to the host is in the
\* note of the submission, for any number of buffers, secondaries, sets and
\* barriers (client/commands.cpp:430-491, 679-733, client/device.cpp:377-407).
THEOREM HandedOverIsAlwaysNoted == Spec => []HandedOverIsNoted
<1>1. RecordInv => HandedOverIsNoted
  <2> SUFFICES ASSUME RecordInv, NEW c \in Primaries, NEW r \in device[c].visible
               PROVE  Memory[r] \in submit_writes({c})
    BY DEF HandedOverIsNoted
  <2>1. c \in CommandBuffers
    BY DEF CommandBuffers
  <2>2. \/ Memory[r] \in cb[c].host_visible_writes
        \/ cb[c].descriptor_writes_host_visible /\ Through(cb[c], r, contents)
    BY <2>1 DEF RecordInv, Agree
  <2>3. Through(cb[c], r, contents) =>
          \E s \in cb[c].writable_descriptor_sets :
             \E q \in WrittenThrough(contents[s]) : Memory[r] = Memory[q]
    BY DEF Through
  <2> QED
    BY <2>1, <2>2, <2>3, NoteOfOne
<1> QED
  BY <1>1, RecordAlways, PTL

\* The note of a submission has only allocations that its buffers write, or name
\* in a barrier, as they are recorded now: nothing of an earlier recording is
\* left (client/commands.cpp:126-196).
THEOREM NotedIsAlwaysRecorded == Spec => []NotedIsRecorded
<1>1. RecordInv => NotedIsRecorded
  <2> SUFFICES ASSUME RecordInv, NEW c \in Primaries, NEW m \in submit_writes({c})
               PROVE  \E r \in device[c].written \cup (device[c].barriers \ {Everything}) :
                         m = Memory[r]
    BY DEF NotedIsRecorded
  <2>1. c \in CommandBuffers
    BY DEF CommandBuffers
  <2>2. Agree(cb[c], device[c], contents)
    BY <2>1 DEF RecordInv
  <2>3. CASE m \in cb[c].host_visible_writes
    BY <2>2, <2>3 DEF Agree
  <2>4. CASE \E s \in cb[c].writable_descriptor_sets :
               \E r \in WrittenThrough(contents[s]) : m = Memory[r]
    BY <2>2, <2>4 DEF Agree
  <2> QED
    BY <2>1, <2>3, <2>4, NoteOfOne
<1> QED
  BY <1>1, RecordAlways, PTL
=============================================================================
