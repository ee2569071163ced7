------------------------- MODULE MappedMemory_proofs -------------------------
(***************************************************************************)
(* Proofs about mapped memory, for any number of threads, bytes, values    *)
(* and batches, any mapped ranges and any sizes of chunk, atom and gap.    *)
(* mapped_mutex makes the transfers take turns, and what the baseline says *)
(* of a byte the device does not write is true of the server whenever a    *)
(* transfer begins: so the bytes that differ from it are all there is to   *)
(* publish.                                                                *)
(***************************************************************************)
EXTENDS MappedMemory, WellFoundedInduction, TLAPS

Ops == {"idle", "pushed", "filled"} \cup Locking
Mapping == {"pushed", "fill", "filled"}
Place == [op : Ops, todo : SUBSET Bytes, run : SUBSET Bytes, batch : Batches \cup {Host}]

\* What TypeOK leaves open.
PlaceInv ==
  /\ pc \in [Threads -> Place]
  /\ owner \in [Bytes -> Batches \cup {Host}]
  /\ mapping = {} \/ mapping \in MapRanges
  /\ allocation = "none" => mapping = {}
  /\ \A t \in Threads : pc[t].op = "idle" => pc[t] = Idle

\* One thread holds mapped_mutex, one maps or unmaps.
LockInv ==
  \A t, u \in Threads : t # u =>
    /\ ~(pc[t].op \in Locking /\ pc[u].op \in Locking)
    /\ ~(pc[t].op \in Mapping \cup {"unmap"} /\ pc[u].op \in Mapping \cup {"unmap"})

\* What a call in progress is about.
CallInv ==
  \A t \in Threads :
    /\ pc[t].op \in Mapping => ~ready /\ allocation = "coherent" /\ mapping # {}
    /\ pc[t].op = "filled" => pc[t].todo = {}
    /\ pc[t].op \in {"unmap", "keep"} => ready /\ allocation = "coherent"
    /\ pc[t].op \in Locking \ {"fill"} /\ pc[t].todo \cup pc[t].run # {} => ready
    /\ pc[t].op \in {"publish", "keep", "acquire"} /\ pc[t].todo \cup pc[t].run # {}
         => allocation = "coherent"

\* The bytes a new mapping has downloaded are the server's.
FillInv ==
  \A t \in Threads : pc[t].op \in Mapping =>
    \A b \in mapping \ (pc[t].todo \cup Outputs) : server[b] = shadow[b]

Coherent == ready /\ allocation = "coherent"

\* A publication leaves nothing behind it that differs from the baseline; a flush
\* finds nothing that does.
PublishInv ==
  Coherent => \A t \in Threads :
    /\ pc[t].op \in {"publish", "keep"} =>
         \A b \in mapping \ (pc[t].todo \cup pc[t].run) : shadow[b] = baseline[b]
    /\ pc[t].op = "flush" => \A b \in pc[t].todo : shadow[b] = baseline[b]

\* Bytes that are on the server already and not yet in the baseline.
Held(b) == \E t \in Threads : \/ pc[t].op = "unmap"
                              \/ pc[t].op = "keep" /\ b \in Chunk(pc[t].run)

\* The baseline is what the server has.
AgreeInv ==
  Coherent => \A b \in mapping \ Outputs :
    /\ server[b] = baseline[b] \/ (server[b] = shadow[b] /\ Held(b))
    /\ \A t \in Threads : pc[t].op = "keep" /\ b \in Chunk(pc[t].run) => server[b] = shadow[b]

MappedInv ==
  /\ TypeOK /\ PlaceInv /\ LockInv /\ CallInv
  /\ FillInv /\ PublishInv /\ AgreeInv /\ InputsPublished
-----------------------------------------------------------------------------
\* A set of naturals that has an element has a least one.
LEMMA LeastOf ==
  ASSUME NEW S \in SUBSET Nat, S # {}
  PROVE  Min(S) \in S /\ \A x \in S : Min(S) <= x
<1>1. PICK R : R = {p \in Nat \X Nat : p[1] < p[2]}
  OBVIOUS
<1>2. IsWellFoundedOn(R, Nat)
  BY <1>1, NatLessThanWellFounded DEF OpToRel
<1>3. PICK m \in S : \A x \in S : ~(<<x, m>> \in R)
  BY <1>2, WFMin
<1>4. \A x \in S : ~(x < m)
  BY <1>1, <1>3
<1>5. \A x \in S : m <= x
  BY <1>4
<1>6. QED
  BY <1>5 DEF Min

\* A chunk is part of what is left.
LEMMA ChunkWithin ==
  ASSUME NEW todo
  PROVE  Chunk(todo) \subseteq todo /\ AtomChunk(todo) \subseteq todo
  BY DEF Chunk, AtomChunk

LEMMA CopyFacts ==
  ASSUME NEW f \in [Bytes -> Values], NEW g \in [Bytes -> Values], NEW s
  PROVE  /\ Copy(f, g, s) \in [Bytes -> Values]
         /\ \A b \in Bytes : b \in s => Copy(f, g, s)[b] = g[b]
         /\ \A b \in Bytes : b \notin s => Copy(f, g, s)[b] = f[b]
  BY DEF Copy

\* A thread goes on to another place in its call, or leaves it.
LEMMA StepFacts ==
  ASSUME MappedInv, NEW t \in Threads, NEW op \in Ops, NEW todo \in SUBSET Bytes,
         NEW run \in SUBSET Bytes, Step(t, op, todo, run)
  PROVE  /\ pc' \in [Threads -> Place] /\ \A u \in Threads \ {t} : pc'[u] = pc[u]
         /\ pc'[t].op = op /\ pc'[t].todo = todo /\ pc'[t].run = run
         /\ pc'[t].batch = pc[t].batch
<1>1. pc \in [Threads -> Place]
  BY DEF MappedInv, PlaceInv
<1>2. PICK p : p = [pc[t] EXCEPT !.op = op, !.todo = todo, !.run = run]
  OBVIOUS
<1>3. pc[t] \in Place
  BY <1>1
<1>4. p \in Place /\ p.op = op /\ p.todo = todo /\ p.run = run /\ p.batch = pc[t].batch
  BY <1>2, <1>3 DEF Place
<1>5. pc' = [pc EXCEPT ![t] = p]
  BY <1>2 DEF Step
<1>6. QED
  BY <1>1, <1>4, <1>5

LEMMA CallFacts ==
  ASSUME MappedInv, NEW t \in Threads, NEW p \in Place, pc' = [pc EXCEPT ![t] = p]
  PROVE  /\ pc' \in [Threads -> Place] /\ \A u \in Threads \ {t} : pc'[u] = pc[u]
         /\ pc'[t] = p
  BY DEF MappedInv, PlaceInv

LEMMA CallPlace ==
  ASSUME NEW op \in Ops, NEW todo \in SUBSET Bytes, NEW batch \in Batches \cup {Host}
  PROVE  /\ Call(op, todo, batch) \in Place
         /\ Call(op, todo, batch).op = op /\ Call(op, todo, batch).todo = todo
         /\ Call(op, todo, batch).run = {} /\ Call(op, todo, batch).batch = batch
  BY DEF Call, Place

LEMMA IdlePlace == Idle \in Place /\ Idle.op = "idle" /\ Idle.todo = {} /\ Idle.run = {}
  BY DEF Idle, Place, Ops

LEMMA DoneFacts ==
  ASSUME MappedInv, NEW t \in Threads, Done(t)
  PROVE  /\ pc' \in [Threads -> Place] /\ \A u \in Threads \ {t} : pc'[u] = pc[u]
         /\ pc'[t] = Idle /\ pc'[t].op = "idle" /\ pc'[t].todo = {} /\ pc'[t].run = {}
  BY IdlePlace DEF Done, MappedInv, PlaceInv

\* What every call is, and what a thread that is not in one is.
LEMMA PlaceFacts ==
  ASSUME MappedInv, NEW t \in Threads
  PROVE  /\ pc[t].op \in Ops /\ pc[t].todo \subseteq mapping /\ pc[t].run \subseteq mapping
         /\ mapping \subseteq Bytes
         /\ pc[t].batch \in Batches \cup {Host}
         /\ pc[t].op = "idle" <=> pc[t] = Idle
         /\ pc[t].op = "idle" => pc[t].todo = {} /\ pc[t].run = {}
  BY IdlePlace DEF MappedInv, PlaceInv, TypeOK, Place

\* The threads next to one that may take the lock, or has it.
LEMMA OthersUnlocked ==
  ASSUME MappedInv, NEW t \in Threads, Unlocked(t) \/ pc[t].op \in Locking
  PROVE  \A u \in Threads \ {t} : pc[u].op \notin Locking /\ pc[u].op \in {"idle", "pushed", "filled"}
<1>1. \A u \in Threads \ {t} : pc[u].op \notin Locking
  BY DEF MappedInv, LockInv, Unlocked
<1>2. QED
  BY <1>1, PlaceFacts DEF Ops

LEMMA OthersIdle ==
  ASSUME MappedInv, NEW t \in Threads, Unlocked(t) \/ pc[t].op \in Locking,
         Alone(t) \/ pc[t].op \in Mapping \cup {"unmap"}
  PROVE  \A u \in Threads \ {t} : pc[u] = Idle
<1>1. \A u \in Threads \ {t} : pc[u].op \in {"idle", "pushed", "filled"}
  BY OthersUnlocked
<1>2. \A u \in Threads \ {t} : pc[u].op \notin {"pushed", "filled"}
  BY DEF MappedInv, LockInv, Alone, Mapping
<1>3. QED
  BY <1>1, <1>2, PlaceFacts
-----------------------------------------------------------------------------
\* The mapping goes away while every thread is idle or becomes so.
LEMMA EraseStep ==
  ASSUME MappedInv, NEW t \in Threads, \A u \in Threads \ {t} : pc[u] = Idle,
         pc' \in [Threads -> Place], \A u \in Threads \ {t} : pc'[u] = pc[u], pc'[t] = Idle,
         Erase, allocation' \in {"none", "coherent", "explicit"}, UNCHANGED <<server, status, owner>>
  PROVE  MappedInv'
<1>1. \A u \in Threads : pc'[u] = Idle
  OBVIOUS
<1>2. \A u \in Threads : pc'[u].op = "idle" /\ pc'[u].todo = {} /\ pc'[u].run = {}
  BY <1>1, IdlePlace
<1>3. mapping' = {} /\ ready' = FALSE
  BY DEF Erase
<1>4. TypeOK'
  <2>1. /\ shadow' \in [Bytes -> Values] /\ baseline' \in [Bytes -> Values]
        /\ explicit' \in [Bytes -> {"clean", "stored", "stale"}]
    BY ValuesAssumption DEF Erase
  <2>2. QED
    BY <1>2, <1>3, <2>1 DEF MappedInv, TypeOK
<1>5. PlaceInv'
  BY <1>1, <1>3 DEF MappedInv, PlaceInv
<1>6. LockInv' /\ CallInv' /\ FillInv'
  BY <1>2 DEF LockInv, CallInv, FillInv, Mapping, Locking
<1>7. PublishInv' /\ AgreeInv' /\ InputsPublished'
  BY <1>3 DEF PublishInv, AgreeInv, InputsPublished, Coherent
<1>8. QED
  BY <1>4, <1>5, <1>6, <1>7 DEF MappedInv

LEMMA FreeStep ==
  ASSUME MappedInv, NEW t \in Threads, FreeMemory(t)
  PROVE  MappedInv'
<1>1. \A u \in Threads \ {t} : pc[u] = Idle
  BY OthersIdle DEF FreeMemory
<1>2. /\ pc[t] = Idle /\ UNCHANGED <<server, pc, status, owner>> /\ Erase /\ allocation' = "none"
  BY DEF FreeMemory
<1>3. pc \in [Threads -> Place]
  BY DEF MappedInv, PlaceInv
<1>4. QED
  BY <1>1, <1>2, <1>3, EraseStep

LEMMA AllocateStep ==
  ASSUME MappedInv, NEW t \in Threads, AllocateMemory(t)
  PROVE  MappedInv'
<1>1. /\ allocation = "none" /\ allocation' \in {"coherent", "explicit"}
      /\ server' \in [Bytes -> Values]
      /\ UNCHANGED <<mapping, ready, shadow, baseline, pc, status, owner, explicit>>
  BY DEF AllocateMemory, client, use
<1>2. mapping = {} /\ ~ready
  BY <1>1 DEF MappedInv, PlaceInv, TypeOK
<1>3. TypeOK' /\ PlaceInv' /\ LockInv'
  BY <1>1, <1>2 DEF MappedInv, TypeOK, PlaceInv, LockInv
<1>4. CallInv' /\ FillInv'
  <2>1. \A u \in Threads : pc[u].todo = {} /\ pc[u].run = {}
    BY <1>2, PlaceFacts
  <2>2. \A u \in Threads : pc[u].op \notin Mapping \cup {"unmap", "keep"}
    BY <1>1, <1>2 DEF MappedInv, CallInv
  <2>3. QED
    BY <1>1, <2>1, <2>2 DEF CallInv, FillInv
<1>5. PublishInv' /\ AgreeInv' /\ InputsPublished'
  BY <1>1, <1>2 DEF PublishInv, AgreeInv, InputsPublished, Coherent
<1>6. QED
  BY <1>3, <1>4, <1>5 DEF MappedInv

LEMMA RangeFacts ==
  ASSUME NEW range \in MapRanges
  PROVE  range \subseteq Bytes /\ range # {}
         /\ \E hi \in Bytes : hi \in range /\ \A b \in range : b <= hi
<1>1. PICK lo \in Bytes, hi \in Bytes : lo <= hi /\ range = lo .. hi
  BY MapRangesAssumption
<1>2. lo \in Int /\ hi \in Int /\ \A b \in Bytes : b \in Int /\ 0 <= b /\ b <= Size - 1
  BY SizeAssumption DEF Bytes
<1>3. range \subseteq Bytes
  BY <1>1, <1>2, SizeAssumption DEF Bytes
<1>4. hi \in range /\ \A b \in range : b <= hi
  BY <1>1, <1>2
<1>5. QED
  BY <1>1, <1>3, <1>4

LEMMA MapStep ==
  ASSUME MappedInv, NEW t \in Threads, NEW range \in MapRanges, MapMemory(t, range)
  PROVE  MappedInv'
<1>1. \A u \in Threads \ {t} : pc[u] = Idle
  BY OthersIdle DEF MapMemory
<1>2. range \subseteq Bytes /\ range # {}
  BY RangeFacts
<1>3. PICK p \in Place : /\ pc' = [pc EXCEPT ![t] = p]
                         /\ p.run = {} /\ (p = Idle \/ (p.op = "pushed" /\ p.todo = range))
                         /\ allocation # "coherent" => p = Idle
                         /\ allocation = "coherent" => p # Idle
  <2>1. CASE allocation = "coherent"
    <3>1. PICK p : p = Call("pushed", range, Host)
      OBVIOUS
    <3>2. p \in Place /\ p.op = "pushed" /\ p.todo = range /\ p.run = {}
      BY <1>2, <3>1, CallPlace DEF Ops
    <3>3. p # Idle
      BY <3>2, IdlePlace
    <3>4. pc' = [pc EXCEPT ![t] = p]
      BY <2>1, <3>1 DEF MapMemory
    <3>5. QED
      BY <2>1, <3>2, <3>3, <3>4
  <2>2. CASE allocation # "coherent"
    <3>1. PICK p : p = Idle
      OBVIOUS
    <3>2. pc' = [pc EXCEPT ![t] = p]
      BY <2>2, <3>1 DEF MapMemory
    <3>3. p \in Place /\ p.run = {}
      BY <3>1, IdlePlace
    <3>4. QED
      BY <2>2, <3>1, <3>2, <3>3
  <2>3. QED
    BY <2>1, <2>2
<1>4. /\ pc' \in [Threads -> Place] /\ \A u \in Threads \ {t} : pc'[u] = pc[u]
      /\ pc'[t] = p
  BY <1>3, CallFacts
<1>5. /\ mapping' = range /\ ready' = (allocation = "explicit")
      /\ allocation # "none" /\ UNCHANGED <<allocation, server, baseline, status, owner>>
  BY DEF MapMemory, memory
<1>6. \A u \in Threads \ {t} : /\ pc'[u] = Idle /\ pc'[u].op = "idle"
                               /\ pc'[u].todo = {} /\ pc'[u].run = {}
  BY <1>1, <1>4, IdlePlace
<1>7. TypeOK'
  <2>1. shadow' \in [Bytes -> Values]
    <3>1. PICK garbage \in [Bytes -> Values] : shadow' = Copy(shadow, garbage, range)
      BY DEF MapMemory
    <3>2. shadow \in [Bytes -> Values]
      BY DEF MappedInv, TypeOK
    <3>3. QED
      BY <3>1, <3>2, CopyFacts
  <2>2. explicit' \in [Bytes -> {"clean", "stored", "stale"}]
    BY DEF MapMemory
  <2>3. ready' \in BOOLEAN /\ (ready' => mapping' # {})
    BY <1>2, <1>5
  <2>4. \A u \in Threads : /\ pc'[u].op \in {"idle", "pushed", "filled"} \cup Locking
                           /\ pc'[u].todo \cup pc'[u].run \subseteq mapping'
    BY <1>3, <1>4, <1>5, <1>6, IdlePlace
  <2>5. QED
    BY <1>2, <1>5, <2>1, <2>2, <2>3, <2>4 DEF MappedInv, TypeOK
<1>8. PlaceInv'
  BY <1>3, <1>4, <1>5, <1>6 DEF MappedInv, PlaceInv
<1>9. LockInv'
  BY <1>3, <1>4, <1>6, IdlePlace DEF LockInv, Locking, Mapping
<1>10. CallInv' /\ FillInv'
  BY <1>2, <1>3, <1>4, <1>5, <1>6, IdlePlace DEF CallInv, FillInv, Locking, Mapping
<1>11. PublishInv' /\ AgreeInv' /\ InputsPublished'
  BY <1>5 DEF PublishInv, AgreeInv, InputsPublished, Coherent
<1>12. QED
  BY <1>7, <1>8, <1>9, <1>10, <1>11 DEF MappedInv
-----------------------------------------------------------------------------
\* Who may be where after a step of one thread.
LEMMA LockKept ==
  ASSUME MappedInv, NEW t \in Threads, \A u \in Threads \ {t} : pc'[u] = pc[u],
         pc'[t].op \in Locking => pc[t].op \in Locking \/ Unlocked(t),
         pc'[t].op \in Mapping \cup {"unmap"} => pc[t].op \in Mapping \cup {"unmap"} \/ Alone(t)
  PROVE  LockInv'
<1>1. pc'[t].op \in Locking => \A u \in Threads \ {t} : pc[u].op \notin Locking
  BY OthersUnlocked
<1>2. pc'[t].op \in Mapping \cup {"unmap"} =>
        \A u \in Threads \ {t} : pc[u].op \notin Mapping \cup {"unmap"}
  <2>1. Alone(t) => \A u \in Threads \ {t} : pc[u].op \notin Mapping \cup {"unmap"}
    BY DEF Alone, Mapping
  <2>2. QED
    BY <2>1 DEF MappedInv, LockInv
<1>3. \A u, v \in Threads \ {t} : u # v =>
        /\ ~(pc'[u].op \in Locking /\ pc'[v].op \in Locking)
        /\ ~(pc'[u].op \in Mapping \cup {"unmap"} /\ pc'[v].op \in Mapping \cup {"unmap"})
  BY DEF MappedInv, LockInv
<1>4. QED
  BY <1>1, <1>2, <1>3 DEF LockInv

\* Nothing is transferred: a call begins, ends or looks for its next request, the
\* device completes a batch.
LEMMA QuietStep ==
  ASSUME MappedInv, NEW t \in Threads, UNCHANGED <<memory, client>>,
         explicit' \in [Bytes -> {"clean", "stored", "stale"}],
         pc' \in [Threads -> Place], \A u \in Threads \ {t} : pc'[u] = pc[u],
         pc'[t].op = "idle" => pc'[t] = Idle,
         pc'[t].todo \subseteq mapping /\ pc'[t].run \subseteq mapping,
         pc'[t].op \in Locking => pc[t].op \in Locking \/ Unlocked(t),
         pc'[t].op \in Mapping => /\ pc[t].op \in Mapping /\ pc'[t].todo = pc[t].todo
                                  /\ pc'[t].op = "filled" => pc'[t].todo = {},
         pc'[t].op = "unmap" => pc[t].op = "unmap" \/ (Alone(t) /\ Coherent),
         pc'[t].op \in Locking \ {"fill"} /\ pc'[t].todo \cup pc'[t].run # {} => ready,
         pc'[t].op \in {"publish", "keep", "acquire"} /\ pc'[t].todo \cup pc'[t].run # {}
           => allocation = "coherent",
         Coherent /\ pc'[t].op = "publish" =>
           \A b \in mapping \ (pc'[t].todo \cup pc'[t].run) : shadow[b] = baseline[b],
         Coherent /\ pc'[t].op = "flush" => \A b \in pc'[t].todo : shadow[b] = baseline[b],
         pc'[t].op # "keep" /\ pc[t].op # "keep", pc[t].op = "unmap" => pc'[t].op = "unmap",
         status' \in [Batches -> {"none", "handing", "running", "done", "returning"}],
         owner' \in [Bytes -> Batches \cup {Host}],
         \A b \in Bytes : owner'[b] # Host => status'[owner'[b]] # "none",
         \A b \in mapping \ Outputs :
           Coherent /\ owner'[b] # Host /\ status'[owner'[b]] = "running" =>
             (owner[b] # Host /\ status[owner[b]] = "running") \/ server[b] = shadow[b]
  PROVE  MappedInv'
<1>1. UNCHANGED <<allocation, server, mapping, ready, shadow, baseline>>
  BY DEF memory, client
<1>2. \A u \in Threads : pc'[u].op \in Ops
  BY DEF Place
<1>3. \A u \in Threads : pc'[u].todo \cup pc'[u].run \subseteq mapping
  BY PlaceFacts
<1>4. TypeOK'
  BY <1>1, <1>2, <1>3 DEF MappedInv, TypeOK, Ops
<1>5. PlaceInv'
  BY <1>1 DEF MappedInv, PlaceInv
<1>6. LockInv'
  BY LockKept DEF Mapping
<1>7. CallInv'
  <2>1. \A u \in Threads :
          /\ pc[u].op \in Mapping => ~ready /\ allocation = "coherent" /\ mapping # {}
          /\ pc[u].op = "filled" => pc[u].todo = {}
          /\ pc[u].op \in {"unmap", "keep"} => ready /\ allocation = "coherent"
          /\ pc[u].op \in Locking \ {"fill"} /\ pc[u].todo \cup pc[u].run # {} => ready
          /\ pc[u].op \in {"publish", "keep", "acquire"} /\ pc[u].todo \cup pc[u].run # {}
               => allocation = "coherent"
    BY DEF MappedInv, CallInv
  <2>2. /\ pc'[t].op \in Mapping => ~ready /\ allocation = "coherent" /\ mapping # {}
        /\ pc'[t].op = "filled" => pc'[t].todo = {}
        /\ pc'[t].op \in {"unmap", "keep"} => ready /\ allocation = "coherent"
    BY <2>1 DEF Mapping, Coherent
  <2>3. \A u \in Threads :
          /\ pc'[u].op \in Mapping => ~ready /\ allocation = "coherent" /\ mapping # {}
          /\ pc'[u].op = "filled" => pc'[u].todo = {}
          /\ pc'[u].op \in {"unmap", "keep"} => ready /\ allocation = "coherent"
    BY <2>1, <2>2
  <2>4. \A u \in Threads :
          /\ pc'[u].op \in Locking \ {"fill"} /\ pc'[u].todo \cup pc'[u].run # {} => ready
          /\ pc'[u].op \in {"publish", "keep", "acquire"} /\ pc'[u].todo \cup pc'[u].run # {}
               => allocation = "coherent"
    BY <2>1
  <2>5. QED
    BY <1>1, <2>3, <2>4 DEF CallInv
<1>8. FillInv'
  BY <1>1 DEF MappedInv, FillInv
<1>9. PublishInv'
  BY <1>1 DEF MappedInv, PublishInv, Coherent
<1>10. AgreeInv'
  <2>1. \A b : Held(b) => Held(b)'
    <3> SUFFICES ASSUME NEW b, Held(b)  PROVE Held(b)'
      OBVIOUS
    <3>1. PICK u \in Threads : pc[u].op = "unmap" \/ (pc[u].op = "keep" /\ b \in Chunk(pc[u].run))
      BY DEF Held
    <3>2. pc'[u].op = "unmap" \/ (pc'[u].op = "keep" /\ b \in Chunk(pc'[u].run))
      BY <3>1
    <3>3. QED
      BY <3>2 DEF Held, Chunk
  <2>2. Coherent' = Coherent
    BY <1>1 DEF Coherent
  <2>3. \A b \in mapping \ Outputs : Coherent =>
          /\ server[b] = baseline[b] \/ (server[b] = shadow[b] /\ Held(b)')
          /\ \A u \in Threads : pc'[u].op = "keep" /\ b \in Chunk(pc'[u].run) => server[b] = shadow[b]
    BY <2>1 DEF MappedInv, AgreeInv
  <2>4. QED
    BY <1>1, <2>2, <2>3 DEF AgreeInv, Chunk
<1>11. InputsPublished'
  BY <1>1 DEF MappedInv, InputsPublished, Coherent
<1>12. QED
  BY <1>4, <1>5, <1>6, <1>7, <1>8, <1>9, <1>10, <1>11 DEF MappedInv

\* What QuietStep asks of a step that leaves the batches alone.
LEMMA UseKept ==
  ASSUME MappedInv, UNCHANGED <<status, owner, explicit>>
  PROVE  /\ explicit' \in [Bytes -> {"clean", "stored", "stale"}]
         /\ status' \in [Batches -> {"none", "handing", "running", "done", "returning"}]
         /\ owner' \in [Bytes -> Batches \cup {Host}]
         /\ \A b \in Bytes : owner'[b] # Host => status'[owner'[b]] # "none"
         /\ \A b \in mapping \ Outputs :
              Coherent /\ owner'[b] # Host /\ status'[owner'[b]] = "running" =>
                (owner[b] # Host /\ status[owner[b]] = "running") \/ server[b] = shadow[b]
  BY DEF MappedInv, TypeOK, PlaceInv

LEMMA FillStep ==
  ASSUME MappedInv, NEW t \in Threads, Fill(t)
  PROVE  MappedInv'
<1>1. pc[t].op = "pushed" /\ Unlocked(t) /\ UNCHANGED <<memory, client, status, owner, explicit>>
  BY DEF Fill, use
<1>2. pc[t].todo \subseteq mapping /\ mapping \subseteq Bytes
  BY PlaceFacts
<1>3. /\ pc' \in [Threads -> Place] /\ \A u \in Threads \ {t} : pc'[u] = pc[u]
      /\ pc'[t].op = "fill" /\ pc'[t].todo = pc[t].todo /\ pc'[t].run = {}
  <2>1. Step(t, "fill", pc[t].todo, {})
    BY DEF Fill
  <2>2. "fill" \in Ops /\ pc[t].todo \in SUBSET Bytes /\ {} \in SUBSET Bytes
    BY <1>2 DEF Ops, Locking
  <2>3. QED
    BY <2>1, <2>2, StepFacts
<1>4. QED
  BY <1>1, <1>2, <1>3, UseKept, QuietStep DEF Mapping

\* A call begins that transfers nothing yet.
LEMMA BeginTransfer ==
  ASSUME MappedInv, NEW t \in Threads, pc[t] = Idle, Unlocked(t), ready, NEW range,
         range \subseteq mapping, NEW op, op \in {"flush", "download", "unmap"},
         op = "flush" => Agreed(range), op = "unmap" => Alone(t) /\ allocation = "coherent",
         pc' = [pc EXCEPT ![t] = Call(op, range, Host)],
         UNCHANGED <<memory, client, status, owner, explicit>>
  PROVE  MappedInv'
<1>1. pc[t].op = "idle" /\ mapping \subseteq Bytes
  BY PlaceFacts
<1>2. PICK p : p = Call(op, range, Host)
  OBVIOUS
<1>3. p \in Place /\ p.op = op /\ p.todo = range /\ p.run = {}
  <2>1. op \in Ops /\ range \in SUBSET Bytes /\ Host \in Batches \cup {Host}
    BY <1>1 DEF Ops, Locking
  <2>2. QED
    BY <1>2, <2>1, CallPlace
<1>4. /\ pc' \in [Threads -> Place] /\ \A u \in Threads \ {t} : pc'[u] = pc[u]
      /\ pc'[t].op = op /\ pc'[t].todo = range /\ pc'[t].run = {}
  BY <1>2, <1>3, CallFacts
<1>5. Coherent /\ op = "flush" => \A b \in range : shadow[b] = baseline[b]
  BY DEF Agreed, Coherent
<1>6. QED
  BY <1>1, <1>4, <1>5, UseKept, QuietStep DEF Mapping, Coherent

LEMMA FlushStep ==
  ASSUME MappedInv, ~May("flush coherent memory"), NEW t \in Threads, NEW range \in Ranges,
         FlushMappedMemoryRanges(t, range)
  PROVE  MappedInv'
<1>1. /\ pc[t] = Idle /\ Unlocked(t) /\ ready /\ range \subseteq mapping /\ Agreed(range)
      /\ pc' = [pc EXCEPT ![t] = Call("flush", range, Host)]
      /\ UNCHANGED <<memory, client, status, owner, explicit>>
  BY DEF FlushMappedMemoryRanges, ValidRange, use
<1>2. QED
  BY <1>1, BeginTransfer

LEMMA InvalidateStep ==
  ASSUME MappedInv, NEW t \in Threads, NEW range \in Ranges,
         InvalidateMappedMemoryRanges(t, range)
  PROVE  MappedInv'
<1>1. /\ pc[t] = Idle /\ Unlocked(t) /\ ready /\ range \subseteq mapping
      /\ pc' = [pc EXCEPT ![t] = Call("download", range, Host)]
      /\ UNCHANGED <<memory, client, status, owner, explicit>>
  BY DEF InvalidateMappedMemoryRanges, ValidRange, use
<1>2. QED
  BY <1>1, BeginTransfer

LEMMA UnmapStep ==
  ASSUME MappedInv, NEW t \in Threads, UnmapMemory(t)
  PROVE  MappedInv'
<1>1. pc[t] = Idle /\ Unlocked(t) /\ Alone(t) /\ ready /\ UNCHANGED <<memory, status, owner>>
  BY DEF UnmapMemory
<1>2. CASE allocation = "coherent"
  <2>1. pc' = [pc EXCEPT ![t] = Call("unmap", mapping, Host)] /\ UNCHANGED <<client, explicit>>
    BY <1>2 DEF UnmapMemory
  <2>2. QED
    BY <1>1, <1>2, <2>1, BeginTransfer
<1>3. CASE allocation # "coherent"
  <2>1. Erase /\ UNCHANGED pc
    BY <1>3 DEF UnmapMemory
  <2>2. \A u \in Threads \ {t} : pc[u] = Idle
    BY <1>1, OthersIdle
  <2>3. pc \in [Threads -> Place] /\ allocation \in {"none", "coherent", "explicit"}
    BY DEF MappedInv, PlaceInv, TypeOK
  <2>4. QED
    BY <1>1, <2>1, <2>2, <2>3, EraseStep DEF memory
<1>4. QED
  BY <1>2, <1>3

LEMMA UnmappedStep ==
  ASSUME MappedInv, NEW t \in Threads, Unmapped(t)
  PROVE  MappedInv'
<1>1. pc[t].op = "unmap" /\ Erase /\ Done(t) /\ UNCHANGED <<memory, status, owner>>
  BY DEF Unmapped
<1>2. \A u \in Threads \ {t} : pc[u] = Idle
  BY <1>1, OthersIdle DEF Locking
<1>3. allocation \in {"none", "coherent", "explicit"}
  BY DEF MappedInv, TypeOK
<1>4. QED
  BY <1>1, <1>2, <1>3, DoneFacts, EraseStep DEF memory

\* A call ends that did not have bytes on the server which the baseline lacks.
LEMMA EndStep ==
  ASSUME MappedInv, NEW t \in Threads, Done(t), pc[t].op \notin {"keep", "unmap"},
         UNCHANGED <<memory, client>>,
         explicit' \in [Bytes -> {"clean", "stored", "stale"}],
         status' \in [Batches -> {"none", "handing", "running", "done", "returning"}],
         owner' \in [Bytes -> Batches \cup {Host}],
         \A b \in Bytes : owner'[b] # Host => status'[owner'[b]] # "none",
         \A b \in mapping \ Outputs :
           Coherent /\ owner'[b] # Host /\ status'[owner'[b]] = "running" =>
             (owner[b] # Host /\ status[owner[b]] = "running") \/ server[b] = shadow[b]
  PROVE  MappedInv'
<1>1. /\ pc' \in [Threads -> Place] /\ \A u \in Threads \ {t} : pc'[u] = pc[u]
      /\ pc'[t] = Idle /\ pc'[t].op = "idle" /\ pc'[t].todo = {} /\ pc'[t].run = {}
  BY DoneFacts
<1>2. "idle" \notin Locking \cup Mapping
  BY DEF Locking, Mapping
<1>3. QED
  BY <1>1, <1>2, QuietStep

LEMMA TransferredStep ==
  ASSUME MappedInv, NEW t \in Threads, Transferred(t)
  PROVE  MappedInv'
<1>1. /\ pc[t].op \in {"flush", "download", "fill"} /\ pc[t].todo = {}
      /\ UNCHANGED <<memory, client, status, owner, explicit>>
  BY DEF Transferred, use
<1>2. CASE pc[t].op = "fill"
  <2>1. Step(t, "filled", {}, {})
    BY <1>2 DEF Transferred
  <2>2. "filled" \in Ops /\ {} \in SUBSET Bytes
    BY DEF Ops
  <2>3. /\ pc' \in [Threads -> Place] /\ \A u \in Threads \ {t} : pc'[u] = pc[u]
        /\ pc'[t].op = "filled" /\ pc'[t].todo = {} /\ pc'[t].run = {}
    BY <2>1, <2>2, StepFacts
  <2>4. QED
    BY <1>1, <1>2, <2>3, UseKept, QuietStep DEF Mapping, Locking
<1>3. CASE pc[t].op # "fill"
  <2>1. Done(t)
    BY <1>3 DEF Transferred
  <2>2. QED
    BY <1>1, <2>1, UseKept, EndStep
<1>4. QED
  BY <1>2, <1>3

\* A submission or a wait begins, for all of a coherent mapping or for nothing.
Begins(t, op, todo, c) ==
  /\ pc[t] = Idle /\ op \in {"publish", "acquire"} /\ todo \subseteq mapping
  /\ pc' = [pc EXCEPT ![t] = Call(op, todo, c)]

LEMMA BeginBatch ==
  ASSUME MappedInv, NEW t \in Threads, NEW c \in Batches, NEW op, NEW todo,
         Begins(t, op, todo, c)
  PROVE  /\ pc' \in [Threads -> Place] /\ \A u \in Threads \ {t} : pc'[u] = pc[u]
         /\ pc'[t].op = op /\ pc'[t].todo = todo /\ pc'[t].run = {}
         /\ todo \subseteq mapping /\ pc[t].op = "idle"
<1>0. /\ pc[t] = Idle /\ op \in {"publish", "acquire"} /\ todo \subseteq mapping
      /\ pc' = [pc EXCEPT ![t] = Call(op, todo, c)]
  BY DEF Begins
<1>1. todo \in SUBSET Bytes /\ op \in Ops /\ todo \subseteq mapping /\ pc[t].op = "idle"
  BY <1>0, PlaceFacts DEF Ops, Locking
<1>2. PICK p : p = Call(op, todo, c)
  OBVIOUS
<1>3. p \in Place /\ p.op = op /\ p.todo = todo /\ p.run = {}
  BY <1>1, <1>2, CallPlace
<1>4. QED
  BY <1>0, <1>1, <1>2, <1>3, CallFacts

LEMMA SubmitStep ==
  ASSUME MappedInv, NEW t \in Threads, NEW c \in Batches, NEW given \in SUBSET Bytes,
         Submit(t, c, given)
  PROVE  MappedInv'
<1>1. /\ pc[t] = Idle /\ Unlocked(t) /\ status[c] = "none"
      /\ status' = [status EXCEPT ![c] = "handing"]
      /\ owner' = [b \in Bytes |-> IF b \in given THEN c ELSE owner[b]]
      /\ UNCHANGED <<memory, client, explicit>>
  BY DEF Submit
<1>2. PICK todo : todo = IF allocation = "coherent" /\ ready THEN mapping ELSE {}
  OBVIOUS
<1>3. pc' = [pc EXCEPT ![t] = Call("publish", todo, c)]
  BY <1>2 DEF Submit
<1>4. /\ pc' \in [Threads -> Place] /\ \A u \in Threads \ {t} : pc'[u] = pc[u]
      /\ pc'[t].op = "publish" /\ pc'[t].todo = todo /\ pc'[t].run = {}
      /\ todo \subseteq mapping /\ pc[t].op = "idle"
  <2>1. Begins(t, "publish", todo, c)
    BY <1>1, <1>2, <1>3 DEF Begins
  <2>2. QED
    BY <2>1, BeginBatch
<1>5. /\ status \in [Batches -> {"none", "handing", "running", "done", "returning"}]
      /\ owner \in [Bytes -> Batches \cup {Host}]
      /\ explicit \in [Bytes -> {"clean", "stored", "stale"}]
      /\ \A b \in Bytes : owner[b] # Host => owner[b] \in Batches /\ status[owner[b]] # "none"
  BY DEF MappedInv, TypeOK, PlaceInv
<1>6. /\ status' \in [Batches -> {"none", "handing", "running", "done", "returning"}]
      /\ owner' \in [Bytes -> Batches \cup {Host}]
      /\ \A b \in Bytes : owner'[b] # Host => status'[owner'[b]] # "none"
      /\ \A b \in Bytes : owner'[b] # Host /\ status'[owner'[b]] = "running"
                            => owner[b] # Host /\ status[owner[b]] = "running"
  BY <1>1, <1>5
<1>7. mapping \subseteq Bytes /\ "publish" \notin Mapping
  BY DEF MappedInv, TypeOK, Mapping
<1>8. QED
  BY <1>1, <1>2, <1>4, <1>5, <1>6, <1>7, QuietStep DEF Coherent

LEMMA WaitStep ==
  ASSUME MappedInv, NEW t \in Threads, NEW c \in Batches, Wait(t, c)
  PROVE  MappedInv'
<1>1. /\ pc[t] = Idle /\ Unlocked(t) /\ status' = [status EXCEPT ![c] = "returning"]
      /\ UNCHANGED <<memory, client, owner, explicit>>
  BY DEF Wait
<1>2. PICK todo : todo = IF allocation = "coherent" /\ ready THEN mapping ELSE {}
  OBVIOUS
<1>3. pc' = [pc EXCEPT ![t] = Call("acquire", todo, c)]
  BY <1>2 DEF Wait
<1>4. /\ pc' \in [Threads -> Place] /\ \A u \in Threads \ {t} : pc'[u] = pc[u]
      /\ pc'[t].op = "acquire" /\ pc'[t].todo = todo /\ pc'[t].run = {}
      /\ todo \subseteq mapping /\ pc[t].op = "idle"
  <2>1. Begins(t, "acquire", todo, c)
    BY <1>1, <1>2, <1>3 DEF Begins
  <2>2. QED
    BY <2>1, BeginBatch
<1>5. /\ status \in [Batches -> {"none", "handing", "running", "done", "returning"}]
      /\ owner \in [Bytes -> Batches \cup {Host}]
      /\ explicit \in [Bytes -> {"clean", "stored", "stale"}]
      /\ \A b \in Bytes : owner[b] # Host => owner[b] \in Batches /\ status[owner[b]] # "none"
      /\ mapping \subseteq Bytes
  BY DEF MappedInv, TypeOK, PlaceInv
<1>6. /\ status' \in [Batches -> {"none", "handing", "running", "done", "returning"}]
      /\ \A b \in Bytes : owner[b] # Host => status'[owner[b]] # "none"
      /\ \A b \in Bytes : owner[b] # Host /\ status'[owner[b]] = "running"
                            => status[owner[b]] = "running"
  BY <1>1, <1>5
<1>7. "acquire" \notin Mapping
  BY DEF Mapping
<1>8. QED
  BY <1>1, <1>2, <1>4, <1>5, <1>6, <1>7, QuietStep DEF Coherent

\* A run begins at the first byte that differs and ends within the mapping or
\* right after it.
LEMMA RunFacts ==
  ASSUME MappedInv, NEW todo, todo \subseteq mapping, Dirty(todo) # {}, NEW begin, begin = Min(Dirty(todo))
  PROVE  /\ begin \in Nat /\ \A b \in Dirty(todo) : begin <= b
         /\ RunEnd(begin) \in Nat
<1>1. mapping \subseteq Bytes /\ Bytes \subseteq Nat /\ Gap \in Nat
  BY SizeAssumption DEF MappedInv, TypeOK, Bytes
<1>2. begin \in Dirty(todo) /\ \A b \in Dirty(todo) : begin <= b
  BY <1>1, LeastOf DEF Dirty
<1>3. begin \in mapping /\ begin \in Nat
  BY <1>1, <1>2 DEF Dirty
<1>4. PICK hi \in mapping : \A b \in mapping : b <= hi
  BY <1>3, RangeFacts DEF MappedInv, PlaceInv
<1>5. Max(mapping) \in mapping /\ \A b \in mapping : Max(mapping) >= b
  BY <1>1, <1>4 DEF Max
<1>6. PICK E : E = {e \in begin + 1 .. Max(mapping) + 1 : Dirty(mapping) \cap (e .. e + Gap - 1) = {}}
  OBVIOUS
<1>7. Max(mapping) + 1 \in E
  <2>1. Max(mapping) \in Nat /\ begin <= Max(mapping)
    BY <1>1, <1>3, <1>5
  <2>2. \A b \in mapping : b \in Nat /\ b < Max(mapping) + 1
    BY <1>1, <1>5, <2>1
  <2>3. Dirty(mapping) \cap (Max(mapping) + 1 .. Max(mapping) + 1 + Gap - 1) = {}
    BY <1>1, <2>1, <2>2 DEF Dirty
  <2>4. Max(mapping) + 1 \in begin + 1 .. Max(mapping) + 1
    BY <1>3, <2>1
  <2>5. QED
    BY <1>6, <2>3, <2>4
<1>8. E \subseteq Nat
  BY <1>1, <1>3, <1>5, <1>6
<1>9. Min(E) \in Nat
  BY <1>7, <1>8, LeastOf
<1>10. QED
  BY <1>2, <1>3, <1>6, <1>9 DEF RunEnd

LEMMA FindRunStep ==
  ASSUME MappedInv, NEW t \in Threads, FindRun(t)
  PROVE  MappedInv'
<1>1. /\ pc[t].op = "publish" /\ pc[t].run = {} /\ Dirty(pc[t].todo) # {}
      /\ UNCHANGED <<memory, client, status, owner, explicit>>
  BY DEF FindRun, use
<1>2. pc[t].todo \subseteq mapping /\ mapping \subseteq Bytes /\ Bytes \subseteq Nat
  BY PlaceFacts, SizeAssumption DEF Bytes
<1>3. PICK todo : todo = pc[t].todo
  OBVIOUS
<1>4. PICK begin, end : begin = Min(Dirty(todo)) /\ end = RunEnd(begin)
  OBVIOUS
<1>5. begin \in Nat /\ end \in Nat /\ \A b \in Dirty(todo) : begin <= b
  BY <1>1, <1>2, <1>3, <1>4, RunFacts
<1>6. PICK left, run : left = {b \in todo : b >= end} /\ run = {b \in todo : begin <= b /\ b < end}
  OBVIOUS
<1>7. left \in SUBSET Bytes /\ run \in SUBSET Bytes /\ left \subseteq mapping /\ run \subseteq mapping
      /\ left \cup run \subseteq todo
  BY <1>2, <1>3, <1>6
<1>8. \A b \in todo \ (left \cup run) : shadow[b] = baseline[b]
  <2> SUFFICES ASSUME NEW b \in todo \ (left \cup run)  PROVE shadow[b] = baseline[b]
    OBVIOUS
  <2>1. b \in Nat /\ ~(b >= end) /\ ~(begin <= b /\ b < end)
    BY <1>2, <1>3, <1>6
  <2>2. ~(begin <= b)
    BY <1>5, <2>1
  <2>3. QED
    BY <1>5, <2>2 DEF Dirty
<1>9. Step(t, "publish", left, run)
  BY <1>3, <1>4, <1>6 DEF FindRun
<1>10. "publish" \in Ops /\ "publish" \in Locking /\ "publish" \notin Mapping
  BY DEF Ops, Locking, Mapping
<1>11. /\ pc' \in [Threads -> Place] /\ \A u \in Threads \ {t} : pc'[u] = pc[u]
       /\ pc'[t].op = "publish" /\ pc'[t].todo = left /\ pc'[t].run = run
  BY <1>7, <1>9, <1>10, StepFacts
<1>12. Coherent => \A b \in mapping \ (left \cup run) : shadow[b] = baseline[b]
  <2>1. Coherent => \A b \in mapping \ (todo \cup {}) : shadow[b] = baseline[b]
    BY <1>1, <1>3 DEF MappedInv, PublishInv
  <2>2. QED
    BY <1>8, <2>1
<1>13. todo # {} /\ ready /\ allocation = "coherent"
  <2>1. todo # {}
    BY <1>1, <1>3 DEF Dirty
  <2>2. QED
    BY <1>1, <1>3, <2>1 DEF MappedInv, CallInv, Locking
<1>14. QED
  BY <1>1, <1>7, <1>10, <1>11, <1>12, <1>13, UseKept, QuietStep

LEMMA SubmittedStep ==
  ASSUME MappedInv, NEW t \in Threads, Submitted(t)
  PROVE  MappedInv'
<1>1. /\ pc[t].op = "publish" /\ pc[t].run = {} /\ Dirty(pc[t].todo) = {}
      /\ status' = [status EXCEPT ![pc[t].batch] = "running"]
      /\ Done(t) /\ UNCHANGED <<memory, client, owner, explicit>>
  BY DEF Submitted
<1>2. /\ status \in [Batches -> {"none", "handing", "running", "done", "returning"}]
      /\ owner \in [Bytes -> Batches \cup {Host}]
      /\ explicit \in [Bytes -> {"clean", "stored", "stale"}]
      /\ \A b \in Bytes : owner[b] # Host => owner[b] \in Batches /\ status[owner[b]] # "none"
      /\ mapping \subseteq Bytes
  BY DEF MappedInv, TypeOK, PlaceInv
<1>3. Coherent => \A b \in mapping \ Outputs : server[b] = shadow[b]
  <2>1. Coherent => \A b \in mapping : shadow[b] = baseline[b]
    <3>1. Coherent => \A b \in mapping \ (pc[t].todo \cup {}) : shadow[b] = baseline[b]
      BY <1>1 DEF MappedInv, PublishInv
    <3>2. QED
      BY <1>1, <3>1 DEF Dirty
  <2>2. QED
    BY <2>1 DEF MappedInv, AgreeInv
<1>4. /\ status' \in [Batches -> {"none", "handing", "running", "done", "returning"}]
      /\ \A b \in Bytes : owner[b] # Host => status'[owner[b]] # "none"
  BY <1>1, <1>2
<1>5. QED
  BY <1>1, <1>2, <1>3, <1>4, EndStep

\* A batch whose bytes go back.
LEMMA ReturnedFacts ==
  ASSUME MappedInv, NEW c, owner' = Returned(c), status' = [status EXCEPT ![c] = "none"]
  PROVE  /\ status' \in [Batches -> {"none", "handing", "running", "done", "returning"}]
         /\ owner' \in [Bytes -> Batches \cup {Host}]
         /\ \A b \in Bytes : owner'[b] # Host => status'[owner'[b]] # "none"
         /\ \A b \in mapping \ Outputs : owner'[b] # Host /\ status'[owner'[b]] = "running"
                                          => owner[b] # Host /\ status[owner[b]] = "running"
<1>1. /\ status \in [Batches -> {"none", "handing", "running", "done", "returning"}]
      /\ owner \in [Bytes -> Batches \cup {Host}]
      /\ \A b \in Bytes : owner[b] # Host => owner[b] \in Batches /\ status[owner[b]] # "none"
      /\ mapping \subseteq Bytes
  BY DEF MappedInv, TypeOK, PlaceInv
<1>2. owner' \in [Bytes -> Batches \cup {Host}]
  BY <1>1 DEF Returned
<1>3. \A b \in Bytes : owner'[b] # Host => owner'[b] = owner[b] /\ owner[b] # c
  BY <1>1 DEF Returned
<1>4. QED
  BY <1>1, <1>2, <1>3

LEMMA ReturnStep ==
  ASSUME MappedInv, NEW t \in Threads, Return(t)
  PROVE  MappedInv'
<1>1. /\ pc[t].op = "acquire" /\ Done(t) /\ UNCHANGED <<memory, client>>
      /\ owner' = Returned(pc[t].batch) /\ status' = [status EXCEPT ![pc[t].batch] = "none"]
  BY DEF Return
<1>2. explicit' \in [Bytes -> {"clean", "stored", "stale"}]
  BY DEF Return, MappedInv, TypeOK
<1>3. QED
  BY <1>1, <1>2, ReturnedFacts, EndStep

LEMMA FailStep ==
  ASSUME MappedInv, NEW t \in Threads, Fails(t)
  PROVE  MappedInv'
<1>1. UNCHANGED memory
  BY DEF Fails
<1>2. CASE /\ pc[t].op = "publish"
           /\ status' = [status EXCEPT ![pc[t].batch] = "none"] /\ owner' = Returned(pc[t].batch)
           /\ Done(t) /\ UNCHANGED <<client, explicit>>
  <2>1. explicit' \in [Bytes -> {"clean", "stored", "stale"}]
    BY <1>2 DEF MappedInv, TypeOK
  <2>2. QED
    BY <1>1, <1>2, <2>1, ReturnedFacts, EndStep
<1>3. CASE /\ pc[t].op = "acquire" /\ status' = [status EXCEPT ![pc[t].batch] = "done"]
           /\ Done(t) /\ UNCHANGED <<client, owner, explicit>>
  <2>1. /\ status \in [Batches -> {"none", "handing", "running", "done", "returning"}]
        /\ owner \in [Bytes -> Batches \cup {Host}]
        /\ explicit \in [Bytes -> {"clean", "stored", "stale"}]
        /\ \A b \in Bytes : owner[b] # Host => owner[b] \in Batches /\ status[owner[b]] # "none"
        /\ mapping \subseteq Bytes
    BY DEF MappedInv, TypeOK, PlaceInv
  <2>2. /\ status' \in [Batches -> {"none", "handing", "running", "done", "returning"}]
        /\ \A b \in Bytes : owner[b] # Host => status'[owner[b]] # "none"
        /\ \A b \in Bytes : owner[b] # Host /\ status'[owner[b]] = "running"
                              => status[owner[b]] = "running"
    BY <1>3, <2>1
  <2>3. QED
    BY <1>1, <1>3, <2>1, <2>2, EndStep
<1>4. CASE pc[t].op \in {"flush", "download"} /\ Done(t) /\ UNCHANGED <<client, use>>
  <2>1. UNCHANGED <<status, owner, explicit>>
    BY <1>4 DEF use
  <2>2. QED
    BY <1>1, <1>4, <2>1, UseKept, EndStep
<1>5. CASE pc[t].op = "fill" /\ Erase /\ Done(t) /\ UNCHANGED <<status, owner>>
  <2>1. \A u \in Threads \ {t} : pc[u] = Idle
    BY <1>5, OthersIdle DEF Locking, Mapping
  <2>2. allocation \in {"none", "coherent", "explicit"}
    BY DEF MappedInv, TypeOK
  <2>3. QED
    BY <1>1, <1>5, <2>1, <2>2, DoneFacts, EraseStep DEF memory
<1>6. CASE pc[t].op = "unmap" /\ Step(t, "unmap", {}, {}) /\ UNCHANGED <<client, use>>
  <2>1. UNCHANGED <<status, owner, explicit>>
    BY <1>6 DEF use
  <2>2. "unmap" \in Ops /\ "unmap" \in Locking /\ "unmap" \notin Mapping /\ {} \in SUBSET Bytes
    BY DEF Ops, Locking, Mapping
  <2>3. /\ pc' \in [Threads -> Place] /\ \A u \in Threads \ {t} : pc'[u] = pc[u]
        /\ pc'[t].op = "unmap" /\ pc'[t].todo = {} /\ pc'[t].run = {}
    BY <1>6, <2>2, StepFacts
  <2>4. QED
    BY <1>1, <1>6, <2>1, <2>2, <2>3, UseKept, QuietStep
<1>7. QED
  BY <1>2, <1>3, <1>4, <1>5, <1>6 DEF Fails
-----------------------------------------------------------------------------
\* Where the server and the baseline differ, the thread that holds the lock is why.
LEMMA OwnHeld ==
  ASSUME MappedInv, NEW t \in Threads, pc[t].op \in Locking \/ Unlocked(t), Coherent,
         NEW b \in mapping \ Outputs
  PROVE  /\ \/ server[b] = baseline[b]
            \/ server[b] = shadow[b] /\ pc[t].op = "unmap"
            \/ server[b] = shadow[b] /\ pc[t].op = "keep" /\ b \in Chunk(pc[t].run)
         /\ pc[t].op = "keep" /\ b \in Chunk(pc[t].run) => server[b] = shadow[b]
<1>1. \A u \in Threads \ {t} : pc[u].op \notin {"unmap", "keep"}
  BY OthersUnlocked
<1>2. Held(b) => pc[t].op = "unmap" \/ (pc[t].op = "keep" /\ b \in Chunk(pc[t].run))
  BY <1>1 DEF Held
<1>3. QED
  BY <1>2 DEF MappedInv, AgreeInv

\* One request of a transfer, by the thread that holds the lock.
LEMMA MoveStep ==
  ASSUME MappedInv, NEW t \in Threads, pc[t].op \in Locking, ready \/ pc[t].op = "fill",
         UNCHANGED <<allocation, mapping, ready, status, owner>>,
         server' \in [Bytes -> Values], shadow' \in [Bytes -> Values], baseline' \in [Bytes -> Values],
         explicit' \in [Bytes -> {"clean", "stored", "stale"}],
         pc' \in [Threads -> Place], \A u \in Threads \ {t} : pc'[u] = pc[u],
         pc'[t].op \in Locking,
         pc[t].op = pc'[t].op \/ {pc[t].op, pc'[t].op} \subseteq {"publish", "keep"},
         pc'[t].op = "keep" => Coherent,
         pc'[t].todo \subseteq pc[t].todo, pc'[t].run \subseteq pc[t].run,
         pc'[t].op = "fill" =>
           \A b \in mapping \ (pc'[t].todo \cup Outputs) : server'[b] = shadow'[b],
         Coherent =>
           /\ pc'[t].op \in {"publish", "keep"} =>
                \A b \in mapping \ (pc'[t].todo \cup pc'[t].run) : shadow'[b] = baseline'[b]
           /\ pc'[t].op = "flush" => \A b \in pc'[t].todo : shadow'[b] = baseline'[b]
           /\ \A b \in mapping \ Outputs :
                \/ server'[b] = baseline'[b]
                \/ server'[b] = shadow'[b] /\ pc'[t].op = "unmap"
                \/ server'[b] = shadow'[b] /\ pc'[t].op = "keep" /\ b \in Chunk(pc'[t].run)
           /\ pc'[t].op = "keep" => \A b \in Chunk(pc'[t].run) \ Outputs : server'[b] = shadow'[b]
           /\ \A b \in mapping \ Outputs : server[b] = shadow[b] => server'[b] = shadow'[b]
  PROVE  MappedInv'
<1>1. \A u \in Threads \ {t} : /\ pc[u].op \notin Locking /\ pc'[u].op \notin Locking
                               /\ pc[u].op \in {"idle", "pushed", "filled"}
                               /\ pc'[u].op \in {"idle", "pushed", "filled"}
  BY OthersUnlocked
<1>2. \A u \in Threads \ {t} : pc[u].op \notin Mapping /\ pc'[u].op \notin Mapping
  <2>1. ready => \A u \in Threads : pc[u].op \notin Mapping
    BY DEF MappedInv, CallInv
  <2>2. pc[t].op = "fill" => \A u \in Threads \ {t} : pc[u].op \notin Mapping
    BY DEF MappedInv, LockInv, Mapping
  <2>3. QED
    BY <2>1, <2>2
<1>3. \A u \in Threads \ {t} : pc'[u].op = "idle"
  BY <1>1, <1>2 DEF Mapping
<1>4. Coherent' = Coherent
  BY DEF Coherent
<1>5. TypeOK'
  <2>1. \A u \in Threads : pc'[u].op \in Ops /\ pc'[u].todo \cup pc'[u].run \subseteq mapping
    <3>1. \A u \in Threads : pc'[u].op \in Ops
      BY DEF Place
    <3>2. \A u \in Threads : pc[u].todo \subseteq mapping /\ pc[u].run \subseteq mapping
      BY PlaceFacts
    <3>3. QED
      BY <3>1, <3>2
  <2>2. QED
    BY <2>1 DEF MappedInv, TypeOK, Ops
<1>6. PlaceInv'
  <2>1. "idle" \notin Locking
    BY DEF Locking
  <2>2. QED
    BY <2>1 DEF MappedInv, PlaceInv
<1>7. LockInv'
  BY <1>1, <1>2 DEF LockInv, Locking, Mapping
<1>8. CallInv'
  <2>1. /\ pc[t].op \in Mapping => ~ready /\ allocation = "coherent" /\ mapping # {}
        /\ pc[t].op = "unmap" => ready /\ allocation = "coherent"
        /\ pc[t].op \in Locking \ {"fill"} /\ pc[t].todo \cup pc[t].run # {} => ready
        /\ pc[t].op \in {"publish", "keep", "acquire"} /\ pc[t].todo \cup pc[t].run # {}
             => allocation = "coherent"
    BY DEF MappedInv, CallInv
  <2>2. /\ pc'[t].op \in Mapping => pc[t].op \in Mapping
        /\ pc'[t].op # "filled"
        /\ pc'[t].op = "unmap" => pc[t].op = "unmap"
        /\ pc'[t].op \in Locking \ {"fill"} => pc[t].op \in Locking \ {"fill"}
        /\ pc'[t].op \in {"publish", "keep", "acquire"} => pc[t].op \in {"publish", "keep", "acquire"}
    BY DEF Mapping, Locking
  <2>3. pc'[t].todo \cup pc'[t].run # {} => pc[t].todo \cup pc[t].run # {}
    OBVIOUS
  <2>4. \A u \in Threads \ {t} :
          /\ pc'[u].op \notin Mapping /\ pc'[u].op # "filled" /\ pc'[u].op \notin {"unmap", "keep"}
          /\ pc'[u].op \notin Locking /\ pc'[u].op \notin {"publish", "keep", "acquire"}
    BY <1>1, <1>2, <1>3
  <2>5. QED
    BY <2>1, <2>2, <2>3, <2>4 DEF CallInv, Coherent
<1>9. FillInv'
  BY <1>2 DEF FillInv, Mapping, Locking
<1>10. PublishInv'
  BY <1>3, <1>4 DEF PublishInv
<1>11. AgreeInv'
  <2>1. \A b : pc'[t].op = "unmap" \/ (pc'[t].op = "keep" /\ b \in Chunk(pc'[t].run)) => Held(b)'
    BY DEF Held, Chunk
  <2>2. Coherent => \A b \in mapping \ Outputs :
          server'[b] = baseline'[b] \/ (server'[b] = shadow'[b] /\ Held(b)')
    BY <2>1
  <2>3. Coherent => \A b \in mapping \ Outputs : \A u \in Threads :
          pc'[u].op = "keep" /\ b \in Chunk(pc'[u].run) => server'[b] = shadow'[b]
    BY <1>3
  <2>4. QED
    BY <1>4, <2>2, <2>3 DEF AgreeInv, Chunk
<1>12. InputsPublished'
  BY <1>4 DEF MappedInv, InputsPublished, Coherent
<1>13. QED
  BY <1>5, <1>6, <1>7, <1>8, <1>9, <1>10, <1>11, <1>12 DEF MappedInv

LEMMA DataTypes ==
  ASSUME MappedInv
  PROVE  /\ server \in [Bytes -> Values] /\ shadow \in [Bytes -> Values]
         /\ baseline \in [Bytes -> Values] /\ mapping \subseteq Bytes
         /\ explicit \in [Bytes -> {"clean", "stored", "stale"}]
  BY DEF MappedInv, TypeOK

LEMMA FlushChunkStep ==
  ASSUME MappedInv, NEW t \in Threads, FlushChunk(t)
  PROVE  MappedInv'
<1>1. PICK chunk : chunk = AtomChunk(pc[t].todo)
  OBVIOUS
<1>2. /\ pc[t].op \in {"flush", "unmap"} /\ pc[t].todo # {} /\ server' = Copy(server, shadow, chunk)
      /\ Step(t, pc[t].op, pc[t].todo \ chunk, {})
      /\ UNCHANGED <<allocation, mapping, ready, shadow, baseline, status, owner>>
  BY <1>1 DEF FlushChunk, Upload, client
<1>3. chunk \subseteq pc[t].todo /\ pc[t].todo \subseteq mapping
  BY <1>1, ChunkWithin, PlaceFacts
<1>4. /\ pc[t].op \in Locking /\ pc[t].op \in Ops /\ ready
      /\ pc[t].op \notin {"fill", "publish", "keep"}
  BY <1>2 DEF MappedInv, CallInv, Ops, Locking
<1>5. /\ pc' \in [Threads -> Place] /\ \A u \in Threads \ {t} : pc'[u] = pc[u]
      /\ pc'[t].op = pc[t].op /\ pc'[t].todo = pc[t].todo \ chunk /\ pc'[t].run = {}
  <2>1. pc[t].todo \ chunk \in SUBSET Bytes /\ {} \in SUBSET Bytes
    BY <1>3, DataTypes
  <2>2. pc[t].op \in Ops
    BY PlaceFacts
  <2>3. QED
    BY <1>2, <2>1, <2>2, StepFacts
<1>6. explicit' \in [Bytes -> {"clean", "stored", "stale"}]
  BY DataTypes DEF FlushChunk
<1>7. /\ server' \in [Bytes -> Values]
      /\ \A b \in Bytes : b \in chunk => server'[b] = shadow[b]
      /\ \A b \in Bytes : b \notin chunk => server'[b] = server[b]
  BY <1>2, DataTypes, CopyFacts
<1>8. Coherent => \A b \in mapping \ Outputs :
        \/ server'[b] = baseline[b]
        \/ server'[b] = shadow[b] /\ pc[t].op = "unmap"
  <2> SUFFICES ASSUME Coherent, NEW b \in mapping \ Outputs
               PROVE  server'[b] = baseline[b] \/ (server'[b] = shadow[b] /\ pc[t].op = "unmap")
    OBVIOUS
  <2>1. server[b] = baseline[b] \/ (server[b] = shadow[b] /\ pc[t].op = "unmap")
    BY <1>4, OwnHeld
  <2>2. pc[t].op = "flush" /\ b \in chunk => shadow[b] = baseline[b]
    BY <1>3 DEF MappedInv, PublishInv
  <2>3. b \in Bytes
    BY DataTypes
  <2>4. QED
    BY <1>2, <1>7, <2>1, <2>2, <2>3
<1>9. Coherent /\ pc[t].op = "flush" => \A b \in pc[t].todo : shadow[b] = baseline[b]
  BY DEF MappedInv, PublishInv
<1>10. \A b \in mapping : server[b] = shadow[b] => server'[b] = shadow[b]
  BY <1>7, DataTypes
<1>11. QED
  BY <1>2, <1>4, <1>5, <1>6, <1>7, <1>8, <1>9, <1>10, DataTypes, MoveStep

LEMMA DownloadChunkStep ==
  ASSUME MappedInv, NEW t \in Threads, DownloadChunk(t)
  PROVE  MappedInv'
<1>1. PICK chunk : chunk = AtomChunk(pc[t].todo)
  OBVIOUS
<1>2. /\ pc[t].op \in {"download", "fill"} /\ pc[t].todo # {} /\ shadow' = Copy(shadow, server, chunk)
      /\ baseline' = IF allocation = "coherent" THEN Copy(baseline, server, chunk) ELSE baseline
      /\ Step(t, pc[t].op, pc[t].todo \ chunk, {})
      /\ UNCHANGED <<allocation, mapping, ready, server, status, owner>>
  BY <1>1 DEF DownloadChunk, Downloaded, memory
<1>3. chunk \subseteq pc[t].todo /\ pc[t].todo \subseteq mapping
  BY <1>1, ChunkWithin, PlaceFacts
<1>4. /\ pc[t].op \in Locking /\ pc[t].op \in Ops
      /\ ready \/ pc[t].op = "fill"
      /\ pc[t].op \notin {"flush", "unmap", "publish", "keep"}
  BY <1>2 DEF MappedInv, CallInv, Ops, Locking
<1>5. /\ pc' \in [Threads -> Place] /\ \A u \in Threads \ {t} : pc'[u] = pc[u]
      /\ pc'[t].op = pc[t].op /\ pc'[t].todo = pc[t].todo \ chunk /\ pc'[t].run = {}
  <2>1. pc[t].todo \ chunk \in SUBSET Bytes /\ {} \in SUBSET Bytes
    BY <1>3, DataTypes
  <2>2. pc[t].op \in Ops
    BY PlaceFacts
  <2>3. QED
    BY <1>2, <2>1, <2>2, StepFacts
<1>6. explicit' \in [Bytes -> {"clean", "stored", "stale"}]
  BY DataTypes DEF DownloadChunk
<1>7. /\ shadow' \in [Bytes -> Values]
      /\ \A b \in Bytes : b \in chunk => shadow'[b] = server[b]
      /\ \A b \in Bytes : b \notin chunk => shadow'[b] = shadow[b]
  BY <1>2, DataTypes, CopyFacts
<1>8. /\ baseline' \in [Bytes -> Values]
      /\ Coherent => /\ \A b \in Bytes : b \in chunk => baseline'[b] = server[b]
                     /\ \A b \in Bytes : b \notin chunk => baseline'[b] = baseline[b]
  BY <1>2, DataTypes, CopyFacts DEF Coherent
<1>9. Coherent => \A b \in mapping \ Outputs : server[b] = baseline'[b]
  <2>1. Coherent => \A b \in mapping \ Outputs : server[b] = baseline[b]
    BY <1>4, OwnHeld DEF Locking
  <2>2. QED
    BY <1>8, <2>1, DataTypes
<1>10. pc[t].op = "fill" =>
         \A b \in mapping \ ((pc[t].todo \ chunk) \cup Outputs) : server[b] = shadow'[b]
  <2>1. pc[t].op = "fill" => \A b \in mapping \ (pc[t].todo \cup Outputs) : server[b] = shadow[b]
    BY DEF MappedInv, FillInv, Mapping
  <2>2. QED
    BY <1>7, <2>1, DataTypes
<1>11. \A b \in mapping : server[b] = shadow[b] => server[b] = shadow'[b]
  BY <1>7, DataTypes
<1>12. pc[t].op \in Locking /\ (ready \/ pc[t].op = "fill")
       /\ pc[t].op \notin {"flush", "unmap", "publish", "keep"}
  BY <1>2 DEF MappedInv, CallInv, Locking
<1>13. QED
  BY <1>2, <1>5, <1>6, <1>7, <1>8, <1>9, <1>10, <1>11, <1>12, DataTypes, MoveStep

LEMMA PublishChunkStep ==
  ASSUME MappedInv, NEW t \in Threads, PublishChunk(t)
  PROVE  MappedInv'
<1>1. PICK chunk : chunk = Chunk(pc[t].run)
  OBVIOUS
<1>2. /\ pc[t].op = "publish" /\ pc[t].run # {} /\ server' = Copy(server, shadow, chunk)
      /\ Step(t, "keep", pc[t].todo, pc[t].run)
      /\ UNCHANGED <<allocation, mapping, ready, shadow, baseline, status, owner, explicit>>
  BY <1>1 DEF PublishChunk, Upload, client, use
<1>3. chunk \subseteq pc[t].run /\ pc[t].run \subseteq mapping /\ pc[t].todo \subseteq mapping
  BY <1>1, ChunkWithin, PlaceFacts
<1>4. pc[t].op \in Locking /\ ready /\ allocation = "coherent" /\ "keep" \in Ops /\ "keep" \in Locking
  BY <1>2 DEF MappedInv, CallInv, Ops, Locking
<1>5. /\ pc' \in [Threads -> Place] /\ \A u \in Threads \ {t} : pc'[u] = pc[u]
      /\ pc'[t].op = "keep" /\ pc'[t].todo = pc[t].todo /\ pc'[t].run = pc[t].run
  <2>1. PICK todo, run : todo = pc[t].todo /\ run = pc[t].run
    OBVIOUS
  <2>2. todo \in SUBSET Bytes /\ run \in SUBSET Bytes
    BY <1>3, <2>1, DataTypes
  <2>3. Step(t, "keep", todo, run)
    BY <1>2, <2>1
  <2>4. "keep" \in Ops
    BY DEF Ops, Locking
  <2>5. /\ pc' \in [Threads -> Place] /\ \A u \in Threads \ {t} : pc'[u] = pc[u]
        /\ pc'[t].op = "keep" /\ pc'[t].todo = todo /\ pc'[t].run = run
    BY <2>2, <2>3, <2>4, StepFacts
  <2>6. QED
    BY <2>1, <2>5
<1>6. /\ server' \in [Bytes -> Values]
      /\ \A b \in Bytes : b \in chunk => server'[b] = shadow[b]
      /\ \A b \in Bytes : b \notin chunk => server'[b] = server[b]
  BY <1>2, DataTypes, CopyFacts
<1>7. Coherent => \A b \in mapping \ Outputs :
        server'[b] = baseline[b] \/ (server'[b] = shadow[b] /\ b \in chunk)
  <2>1. Coherent => \A b \in mapping \ Outputs : server[b] = baseline[b]
    BY <1>2, <1>4, OwnHeld
  <2>2. QED
    BY <1>6, <2>1, DataTypes
<1>8. Coherent => \A b \in mapping \ (pc[t].todo \cup pc[t].run) : shadow[b] = baseline[b]
  BY <1>2 DEF MappedInv, PublishInv
<1>9. \A b \in mapping : server[b] = shadow[b] => server'[b] = shadow[b]
  BY <1>6, DataTypes
<1>10. \A b \in chunk : server'[b] = shadow[b]
  BY <1>3, <1>6, DataTypes
<1>11. QED
  BY <1>1, <1>2, <1>4, <1>5, <1>6, <1>7, <1>8, <1>9, <1>10, DataTypes, MoveStep DEF Coherent

LEMMA KeepChunkStep ==
  ASSUME MappedInv, NEW t \in Threads, KeepChunk(t)
  PROVE  MappedInv'
<1>1. PICK chunk : chunk = Chunk(pc[t].run)
  OBVIOUS
<1>2. /\ pc[t].op = "keep" /\ baseline' = Copy(baseline, shadow, chunk)
      /\ Step(t, "publish", pc[t].todo, pc[t].run \ chunk)
      /\ UNCHANGED <<allocation, server, mapping, ready, shadow, status, owner, explicit>>
  BY <1>1 DEF KeepChunk, Keep, memory, use
<1>3. chunk \subseteq pc[t].run /\ pc[t].run \subseteq mapping /\ pc[t].todo \subseteq mapping
  BY <1>1, ChunkWithin, PlaceFacts
<1>4. pc[t].op \in Locking /\ "publish" \in Ops /\ "publish" \in Locking
  BY <1>2 DEF Ops, Locking
<1>5. /\ pc' \in [Threads -> Place] /\ \A u \in Threads \ {t} : pc'[u] = pc[u]
      /\ pc'[t].op = "publish" /\ pc'[t].todo = pc[t].todo /\ pc'[t].run = pc[t].run \ chunk
  <2>1. pc[t].todo \in SUBSET Bytes /\ pc[t].run \ chunk \in SUBSET Bytes
    BY <1>3, DataTypes
  <2>2. Step(t, "publish", pc[t].todo, pc[t].run \ chunk)
    BY <1>2
  <2>3. "publish" \in Ops
    BY DEF Ops, Locking
  <2>4. QED
    BY <2>1, <2>2, <2>3, StepFacts
<1>6. /\ baseline' \in [Bytes -> Values]
      /\ \A b \in Bytes : b \in chunk => baseline'[b] = shadow[b]
      /\ \A b \in Bytes : b \notin chunk => baseline'[b] = baseline[b]
  BY <1>2, DataTypes, CopyFacts
<1>7. Coherent => \A b \in mapping \ Outputs : server[b] = baseline'[b]
  <2>1. Coherent => \A b \in mapping \ Outputs :
          /\ server[b] = baseline[b] \/ b \in chunk
          /\ b \in chunk => server[b] = shadow[b]
    BY <1>1, <1>2, <1>4, OwnHeld
  <2>2. QED
    BY <1>6, <2>1, DataTypes
<1>8. Coherent => \A b \in mapping \ (pc[t].todo \cup (pc[t].run \ chunk)) : shadow[b] = baseline'[b]
  <2>1. Coherent => \A b \in mapping \ (pc[t].todo \cup pc[t].run) : shadow[b] = baseline[b]
    BY <1>2 DEF MappedInv, PublishInv
  <2>2. QED
    BY <1>6, <2>1, DataTypes
<1>9. ready
  BY <1>2 DEF MappedInv, CallInv
<1>10. QED
  BY <1>2, <1>4, <1>5, <1>6, <1>7, <1>8, <1>9, DataTypes, MoveStep

LEMMA AcquireChunkStep ==
  ASSUME MappedInv, NEW t \in Threads, AcquireChunk(t)
  PROVE  MappedInv'
<1>1. PICK chunk : chunk = Chunk(pc[t].todo)
  OBVIOUS
<1>2. PICK clean : clean = chunk \ Dirty(chunk)
  OBVIOUS
<1>3. /\ pc[t].op = "acquire" /\ pc[t].todo # {}
      /\ shadow' = Copy(shadow, server, clean) /\ baseline' = Copy(baseline, server, chunk)
      /\ Step(t, "acquire", pc[t].todo \ chunk, {})
      /\ UNCHANGED <<allocation, server, mapping, ready, status, owner, explicit>>
  BY <1>1, <1>2 DEF AcquireChunk, Refresh, Downloaded, memory, use
<1>4. chunk \subseteq pc[t].todo /\ pc[t].todo \subseteq mapping
  BY <1>1, ChunkWithin, PlaceFacts
<1>5. pc[t].op \in Locking /\ ready
  BY <1>3 DEF MappedInv, CallInv, Locking
<1>6. /\ pc' \in [Threads -> Place] /\ \A u \in Threads \ {t} : pc'[u] = pc[u]
      /\ pc'[t].op = "acquire" /\ pc'[t].todo = pc[t].todo \ chunk /\ pc'[t].run = {}
  <2>1. pc[t].todo \ chunk \in SUBSET Bytes /\ {} \in SUBSET Bytes
    BY <1>4, DataTypes
  <2>2. "acquire" \in Ops
    BY DEF Ops, Locking
  <2>3. Step(t, "acquire", pc[t].todo \ chunk, {})
    BY <1>3
  <2>4. QED
    BY <2>1, <2>2, <2>3, StepFacts
<1>7. /\ shadow' \in [Bytes -> Values]
      /\ \A b \in Bytes : b \in clean => shadow'[b] = server[b]
      /\ \A b \in Bytes : b \notin clean => shadow'[b] = shadow[b]
  BY <1>3, DataTypes, CopyFacts
<1>8. /\ baseline' \in [Bytes -> Values]
      /\ \A b \in Bytes : b \in chunk => baseline'[b] = server[b]
      /\ \A b \in Bytes : b \notin chunk => baseline'[b] = baseline[b]
  BY <1>3, DataTypes, CopyFacts
<1>9. Coherent => \A b \in mapping \ Outputs : server[b] = baseline'[b]
  <2>1. Coherent => \A b \in mapping \ Outputs : server[b] = baseline[b]
    BY <1>3, <1>5, OwnHeld
  <2>2. QED
    BY <1>8, <2>1, DataTypes
<1>10. \A b \in mapping : server[b] = shadow[b] => server[b] = shadow'[b]
  BY <1>7, DataTypes
<1>11. QED
  BY <1>3, <1>5, <1>6, <1>7, <1>8, <1>9, <1>10, DataTypes, MoveStep

LEMMA MapReadyStep ==
  ASSUME MappedInv, NEW t \in Threads, MapReady(t)
  PROVE  MappedInv'
<1>1. /\ pc[t].op = "filled" /\ Unlocked(t) /\ baseline' = Copy(baseline, shadow, mapping)
      /\ ready' = TRUE /\ Done(t)
      /\ UNCHANGED <<allocation, server, mapping, shadow, status, owner, explicit>>
  BY DEF MapReady, memory, use
<1>2. /\ pc' \in [Threads -> Place] /\ \A u \in Threads \ {t} : pc'[u] = pc[u]
      /\ pc'[t] = Idle /\ pc'[t].op = "idle" /\ pc'[t].todo = {} /\ pc'[t].run = {}
  BY <1>1, DoneFacts
<1>3. \A u \in Threads : pc'[u].op = "idle" /\ pc'[u].todo = {} /\ pc'[u].run = {} /\ pc'[u] = Idle
  <2>1. \A u \in Threads \ {t} : pc[u].op \in {"idle", "pushed", "filled"}
    BY <1>1, OthersUnlocked
  <2>2. \A u \in Threads \ {t} : pc[u].op \notin Mapping
    BY <1>1 DEF MappedInv, LockInv, Mapping
  <2>3. \A u \in Threads \ {t} : pc[u].op = "idle"
    BY <2>1, <2>2 DEF Mapping
  <2>4. QED
    BY <1>2, <2>3, PlaceFacts
<1>4. /\ baseline' \in [Bytes -> Values] /\ \A b \in mapping : baseline'[b] = shadow[b]
  BY <1>1, DataTypes, CopyFacts
<1>5. mapping # {} /\ allocation = "coherent"
      /\ \A b \in mapping \ Outputs : server[b] = shadow[b]
  <2>1. mapping # {} /\ allocation = "coherent" /\ pc[t].todo = {}
    BY <1>1 DEF MappedInv, CallInv, Mapping
  <2>2. \A b \in mapping \ ({} \cup Outputs) : server[b] = shadow[b]
    BY <1>1, <2>1 DEF MappedInv, FillInv, Mapping
  <2>3. QED
    BY <2>1, <2>2
<1>6. TypeOK'
  BY <1>1, <1>3, <1>4, <1>5 DEF MappedInv, TypeOK
<1>7. PlaceInv'
  BY <1>1, <1>2, <1>3 DEF MappedInv, PlaceInv
<1>8. LockInv' /\ CallInv' /\ FillInv'
  BY <1>3 DEF LockInv, CallInv, FillInv, Mapping, Locking
<1>9. PublishInv' /\ AgreeInv' /\ InputsPublished'
  BY <1>1, <1>3, <1>4, <1>5 DEF PublishInv, AgreeInv, InputsPublished
<1>10. QED
  BY <1>6, <1>7, <1>8, <1>9 DEF MappedInv

\* A store by the host comes between transfers, not into one.
LEMMA StoreStep ==
  ASSUME MappedInv, ~May("store while publishing"), NEW b \in Bytes, NEW v \in Values,
         HostStore(b, v)
  PROVE  MappedInv'
<1>1. /\ ready /\ owner[b] = Host /\ shadow' = [shadow EXCEPT ![b] = v]
      /\ UNCHANGED <<allocation, server, mapping, ready, baseline, pc, status, owner>>
  BY DEF HostStore, memory
<1>2. \A u \in Threads : pc[u].op = "idle"
  <2>1. PICK t \in Threads : pc[t].op = "idle" /\ Unlocked(t)
    BY DEF HostStore
  <2>2. \A u \in Threads \ {t} : pc[u].op \in {"idle", "pushed", "filled"}
    BY <2>1, OthersUnlocked
  <2>3. \A u \in Threads : pc[u].op \notin Mapping
    BY <1>1 DEF MappedInv, CallInv
  <2>4. QED
    BY <2>1, <2>2, <2>3 DEF Mapping
<1>3. shadow' \in [Bytes -> Values] /\ \A x \in Bytes \ {b} : shadow'[x] = shadow[x]
  BY <1>1, DataTypes
<1>4. explicit' \in [Bytes -> {"clean", "stored", "stale"}]
  <2>1. explicit' = [explicit EXCEPT ![b] = IF allocation = "explicit" THEN "stored" ELSE explicit[b]]
    BY DEF HostStore
  <2>2. explicit[b] \in {"clean", "stored", "stale"}
    BY DataTypes
  <2>3. QED
    BY <2>1, <2>2, DataTypes
<1>5. TypeOK' /\ PlaceInv' /\ LockInv' /\ CallInv'
  BY <1>1, <1>3, <1>4 DEF MappedInv, TypeOK, PlaceInv, LockInv, CallInv
<1>6. FillInv' /\ PublishInv'
  BY <1>1, <1>2 DEF FillInv, PublishInv, Mapping
<1>7. AgreeInv'
  <2>1. Coherent' = Coherent
    BY <1>1 DEF Coherent
  <2>2. \A x : ~Held(x)
    BY <1>2 DEF Held
  <2>3. Coherent => \A x \in mapping \ Outputs : server[x] = baseline[x]
    BY <2>2 DEF MappedInv, AgreeInv
  <2>4. QED
    BY <1>1, <1>2, <2>1, <2>3 DEF AgreeInv
<1>8. InputsPublished'
  BY <1>1, <1>3, DataTypes DEF MappedInv, InputsPublished
<1>9. QED
  BY <1>5, <1>6, <1>7, <1>8 DEF MappedInv

\* The device writes outputs only, and completes batches.
DeviceEffect ==
  /\ UNCHANGED <<allocation, mapping, ready, shadow, baseline, pc, owner, explicit>>
  /\ server' \in [Bytes -> Values] /\ \A x \in Bytes \ Outputs : server'[x] = server[x]
  /\ status' \in [Batches -> {"none", "handing", "running", "done", "returning"}]
  /\ \A c \in Batches : /\ status[c] # "none" => status'[c] # "none"
                        /\ status'[c] = "running" => status[c] = "running"

LEMMA DeviceStep ==
  ASSUME MappedInv,
         \/ \E b \in Bytes, v \in Values : DeviceWrite(b, v)
         \/ \E c \in Batches : DeviceDone(c)
         \/ UNCHANGED vars
  PROVE  MappedInv'
<1>1. DeviceEffect
  <2>0. /\ status \in [Batches -> {"none", "handing", "running", "done", "returning"}]
        /\ server \in [Bytes -> Values]
    BY DEF MappedInv, TypeOK
  <2>1. ASSUME NEW b \in Bytes, NEW v \in Values, DeviceWrite(b, v)  PROVE DeviceEffect
    BY <2>0, <2>1 DEF DeviceWrite, client, use, DeviceEffect
  <2>2. ASSUME NEW c \in Batches, DeviceDone(c)  PROVE DeviceEffect
    BY <2>0, <2>2 DEF DeviceDone, memory, client, DeviceEffect
  <2>3. CASE UNCHANGED vars
    BY <2>0, <2>3 DEF vars, memory, client, use, DeviceEffect
  <2>4. QED
    BY <2>1, <2>2, <2>3
<1> USE DEF DeviceEffect
<1>2. mapping \subseteq Bytes
  BY DataTypes
<1>3. TypeOK' /\ PlaceInv' /\ LockInv' /\ CallInv'
  BY <1>1 DEF MappedInv, TypeOK, PlaceInv, LockInv, CallInv
<1>4. FillInv' /\ PublishInv'
  BY <1>1, <1>2 DEF MappedInv, FillInv, PublishInv, Coherent
<1>5. AgreeInv'
  BY <1>1, <1>2 DEF MappedInv, AgreeInv, Coherent, Held, Chunk
<1>6. InputsPublished'
  BY <1>1, <1>2 DEF MappedInv, InputsPublished, TypeOK
<1>7. QED
  BY <1>3, <1>4, <1>5, <1>6 DEF MappedInv
-----------------------------------------------------------------------------
LEMMA MappedInit == Init => MappedInv
<1> SUFFICES ASSUME Init  PROVE MappedInv
  OBVIOUS
<1>1. \A t \in Threads : /\ pc[t] = Idle /\ pc[t].op = "idle"
                         /\ pc[t].todo = {} /\ pc[t].run = {}
  BY IdlePlace DEF Init
<1>2. TypeOK
  BY <1>1, ValuesAssumption DEF Init, TypeOK
<1>3. PlaceInv
  BY <1>1, IdlePlace DEF Init, PlaceInv
<1>4. LockInv /\ CallInv /\ FillInv
  BY <1>1 DEF LockInv, CallInv, FillInv, Mapping, Locking
<1>5. PublishInv /\ AgreeInv /\ InputsPublished
  BY DEF Init, PublishInv, AgreeInv, InputsPublished, Coherent
<1>6. QED
  BY <1>2, <1>3, <1>4, <1>5 DEF MappedInv

LEMMA MappedStep ==
  ASSUME ~May("store while publishing"), ~May("flush coherent memory")
  PROVE  MappedInv /\ [Next]_vars => MappedInv'
<1> SUFFICES ASSUME MappedInv, [Next]_vars  PROVE MappedInv'
  OBVIOUS
<1>1. ASSUME NEW t \in Threads, Thread(t)  PROVE MappedInv'
  <2>1. CASE AllocateMemory(t) \/ FreeMemory(t) \/ \E range \in MapRanges : MapMemory(t, range)
    BY <2>1, AllocateStep, FreeStep, MapStep
  <2>2. CASE \E range \in Ranges : \/ FlushMappedMemoryRanges(t, range)
                                   \/ InvalidateMappedMemoryRanges(t, range)
    BY <2>2, FlushStep, InvalidateStep
  <2>3. CASE Fill(t) \/ MapReady(t) \/ UnmapMemory(t) \/ Unmapped(t)
    BY <2>3, FillStep, MapReadyStep, UnmapStep, UnmappedStep
  <2>4. CASE FlushChunk(t) \/ DownloadChunk(t) \/ Transferred(t)
    BY <2>4, FlushChunkStep, DownloadChunkStep, TransferredStep
  <2>5. CASE \E c \in Batches : \/ \E given \in SUBSET Bytes : Submit(t, c, given)
                                \/ Wait(t, c)
    BY <2>5, SubmitStep, WaitStep
  <2>6. CASE FindRun(t) \/ PublishChunk(t) \/ KeepChunk(t) \/ Submitted(t)
    BY <2>6, FindRunStep, PublishChunkStep, KeepChunkStep, SubmittedStep
  <2>7. CASE AcquireChunk(t) \/ Return(t) \/ Fails(t)
    BY <2>7, AcquireChunkStep, ReturnStep, FailStep
  <2>8. QED
    BY <1>1, <2>1, <2>2, <2>3, <2>4, <2>5, <2>6, <2>7 DEF Thread
<1>2. QED
  BY <1>1, StoreStep, DeviceStep DEF Next

\* For any threads, sizes and ranges: a transfer stays within its mapping, and a
\* batch that runs finds on the server every byte the host had stored to a coherent
\* mapping (publish_coherent_mapped before the submission, remote_objects.cpp),
\* provided the application stores nothing while a thread publishes, which the
\* repository's README asks of it, and does not flush coherent memory it has
\* stored to.
THEOREM TransfersDoPublish ==
  ASSUME ~May("store while publishing"), ~May("flush coherent memory")
  PROVE  Spec => []TransfersPublish
<1>1. MappedInv => TransfersPublish
  BY DEF MappedInv, TransfersPublish
<1>2. MappedInv /\ [Next]_vars => MappedInv'
  BY MappedStep
<1>3. QED
  BY <1>1, <1>2, MappedInit, PTL DEF Spec

-----------------------------------------------------------------------------
(* One memory.  What MappedInv says of the bytes the device leaves alone   *)
(* holds of all the others too, except while they are away: given to a     *)
(* batch that was submitted and is not back.                               *)

\* What the host sees of a byte.
Sees(b) == IF HostReads(b) THEN shadow[b] ELSE server[b]
Away(b) == owner[b] # Host /\ status[owner[b]] # "handing"

\* What a call in progress may rely on.
CallMem(t) ==
  /\ pc[t].op \in {"publish", "keep"} => pc[t].batch \in Batches /\ status[pc[t].batch] = "handing"
  /\ pc[t].op = "acquire" => pc[t].batch \in Batches /\ status[pc[t].batch] = "returning"
  /\ pc[t].op \in {"flush", "download"} => \A b \in pc[t].todo : owner[b] = Host
  /\ pc[t].op = "flush" => \A b \in pc[t].todo : explicit[b] # "stale"
  /\ pc[t].op = "download" => \A b \in pc[t].todo : explicit[b] # "stored"
  /\ pc[t].op = "unmap" => \A b \in mapping : owner[b] = Host
  /\ pc[t].op = "pushed" => mapping \subseteq pc[t].todo
  /\ pc[t].op \in Mapping =>
       \A b \in mapping \ pc[t].todo : owner[b] = Host => server[b] = shadow[b]
  /\ Coherent => \A b \in mapping :
       /\ pc[t].op = "keep" /\ b \in Chunk(pc[t].run) => server[b] = shadow[b]
       /\ pc[t].op = "acquire" /\ b \notin pc[t].todo /\ owner[b] = pc[t].batch =>
            server[b] = baseline[b]
       /\ pc[t].op = "download" /\ b \in pc[t].todo => shadow[b] = baseline[b]
       /\ pc[t].op = "unmap" /\ b \notin pc[t].todo => server[b] = shadow[b]

\* What the copies of a byte have in common.
ByteMem(b) ==
  /\ allocation # "explicit" => explicit[b] = "clean"
  /\ owner[b] # Host => explicit[b] # "stored"
  /\ allocation = "explicit" /\ ready /\ b \in mapping /\ explicit[b] = "clean" =>
       server[b] = shadow[b] \/ (b \in Outputs /\ Away(b))
  /\ Coherent /\ b \in mapping =>
       /\ \/ b \in Outputs /\ Away(b)
          \/ server[b] = baseline[b]
          \/ server[b] = shadow[b] /\ Held(b)
       /\ Away(b) => shadow[b] = baseline[b]

\* A batch that is being submitted is so by some thread.
HandInv ==
  \A c \in Batches : status[c] = "handing" =>
    \E t \in Threads : pc[t].op \in {"publish", "keep"} /\ pc[t].batch = c

MemInv == (\A t \in Threads : CallMem(t)) /\ (\A b \in Bytes : ByteMem(b)) /\ HandInv

MemKept == MemInv' /\ \A b \in Bytes : Sees(b)' = Sees(b)

\* A run that publish_coherent_mapped sends takes no output along that is away:
\* clean bytes between two stores are sent with them.
RunsApart ==
  \A t \in Threads : pc[t].op \in {"publish", "keep"} =>
    \A b \in pc[t].run \cap Outputs : owner[b] \in {Host, pc[t].batch}

\* No thread sees a batch complete between the download of a new mapping and the
\* moment it becomes transfer_ready.
MapsUndisturbed ==
  \A t, u \in Threads : ~(pc[t].op = "filled" /\ pc[u].op = "acquire")

LEMMA MemIsSeen ==
  ASSUME \A b \in Bytes : Sees(b)' = Sees(b)
  PROVE  Mem' = Mem
<1>1. Mem = [b \in Bytes |-> Sees(b)] /\ Mem' = [b \in Bytes |-> Sees(b)']
  BY DEF Mem, Sees
<1>2. QED
  BY <1>1

LEMMA IdleCall ==
  ASSUME NEW u, pc'[u].op = "idle"
  PROVE  CallMem(u)'
  BY DEF CallMem, Mapping

\* The other threads are idle, and what the one that moves relies on is enough.
LEMMA AllCalls ==
  ASSUME NEW t \in Threads, \A u \in Threads \ {t} : pc'[u] = pc[u] /\ pc[u].op = "idle", CallMem(t)'
  PROVE  \A u \in Threads : CallMem(u)'
<1>1. ASSUME NEW u \in Threads, u # t PROVE CallMem(u)'
  <2>1. pc'[u].op = "idle"
    BY <1>1
  <2>2. QED
    BY <2>1, IdleCall
<1>2. QED
  BY <1>1

\* Next to a thread that moves bytes of a mapping that is ready, or that maps or
\* unmaps, the others are idle.
LEMMA OthersAtRest ==
  ASSUME MappedInv, NEW t \in Threads, Unlocked(t) \/ pc[t].op \in Locking,
         ready \/ Alone(t) \/ pc[t].op \in Mapping \cup {"unmap"}
  PROVE  \A u \in Threads \ {t} : pc[u].op = "idle"
<1>1. \A u \in Threads \ {t} : pc[u].op \in {"idle", "pushed", "filled"}
  BY OthersUnlocked
<1>2. CASE ready
  BY <1>1, <1>2 DEF MappedInv, CallInv, Mapping
<1>3. CASE Alone(t) \/ pc[t].op \in Mapping \cup {"unmap"}
  BY <1>1, <1>3 DEF MappedInv, LockInv, Alone, Mapping
<1>4. QED
  BY <1>2, <1>3

\* Only a thread that submits hands bytes over.
LEMMA NoneHanding ==
  ASSUME MappedInv, MemInv, NEW t \in Threads, Unlocked(t) \/ pc[t].op \in Locking,
         pc[t].op \notin {"publish", "keep"}
  PROVE  /\ \A c \in Batches : status[c] # "handing"
         /\ \A b \in Bytes : owner[b] # Host => Away(b)
<1>1. \A u \in Threads : pc[u].op \notin {"publish", "keep"}
  BY OthersUnlocked DEF Locking
<1>2. \A c \in Batches : status[c] # "handing"
  BY <1>1 DEF MemInv, HandInv
<1>3. QED
  BY <1>2 DEF Away, MappedInv, TypeOK

\* Of a thread that submits, only its own batch is being handed over.
LEMMA OneHanding ==
  ASSUME MappedInv, MemInv, NEW t \in Threads, pc[t].op \in {"publish", "keep"}
  PROVE  /\ pc[t].batch \in Batches /\ status[pc[t].batch] = "handing"
         /\ \A c \in Batches : status[c] = "handing" => c = pc[t].batch
<1>1. \A u \in Threads \ {t} : pc[u].op \notin {"publish", "keep"}
  BY OthersUnlocked DEF Locking
<1>2. QED
  BY <1>1 DEF MemInv, HandInv, CallMem

\* What is on the server of a coherent mapping.
LEMMA OwnByte ==
  ASSUME MappedInv, MemInv, NEW t \in Threads, Unlocked(t) \/ pc[t].op \in Locking, Coherent,
         NEW b \in mapping
  PROVE  \/ b \in Outputs /\ Away(b)
         \/ server[b] = baseline[b]
         \/ server[b] = shadow[b] /\ pc[t].op = "unmap"
         \/ server[b] = shadow[b] /\ pc[t].op = "keep" /\ b \in Chunk(pc[t].run)
<1>1. \A u \in Threads \ {t} : pc[u].op \notin {"unmap", "keep"}
  BY OthersUnlocked
<1>2. Held(b) => pc[t].op = "unmap" \/ (pc[t].op = "keep" /\ b \in Chunk(pc[t].run))
  BY <1>1 DEF Held
<1>3. b \in Bytes
  BY DataTypes
<1>4. QED
  BY <1>2, <1>3 DEF MemInv, ByteMem

LEMMA AllocateMem ==
  ASSUME MappedInv, MemInv, NEW t \in Threads, AllocateMemory(t)
  PROVE  MemInv' /\ allocation' # allocation
<1>1. /\ allocation = "none" /\ allocation' \in {"coherent", "explicit"}
      /\ UNCHANGED <<mapping, ready, shadow, baseline, pc, status, owner, explicit>>
  BY DEF AllocateMemory, client, use
<1>2. mapping = {} /\ ~ready
  BY <1>1 DEF MappedInv, PlaceInv, TypeOK
<1>3. ASSUME NEW u \in Threads PROVE CallMem(u)'
  <2>1. pc[u].todo = {} /\ pc[u].op \notin Mapping \cup {"unmap", "keep"}
    BY <1>1, <1>2, PlaceFacts DEF MappedInv, CallInv
  <2>2. CallMem(u)
    BY DEF MemInv
  <2>3. QED
    BY <1>1, <1>2, <2>1, <2>2 DEF CallMem, Coherent, Mapping
<1>4. ASSUME NEW b \in Bytes PROVE ByteMem(b)'
  BY <1>1, <1>2 DEF MemInv, ByteMem, Coherent
<1>5. HandInv'
  BY <1>1 DEF MemInv, HandInv
<1>6. QED
  BY <1>1, <1>3, <1>4, <1>5 DEF MemInv

\* The mapping goes away: no thread relies on it, and what the host saw of it is
\* on the server.
LEMMA EraseMem ==
  ASSUME MappedInv, MemInv, Erase, UNCHANGED <<server, status, owner>>,
         \A u \in Threads : pc'[u].op = "idle", \A c \in Batches : status[c] # "handing"
  PROVE  /\ MemInv'
         /\ (\A b \in Bytes : HostReads(b) => shadow[b] = server[b]) => MemKept
<1>1. /\ mapping' = {} /\ ready' = FALSE /\ \A b \in Bytes : explicit'[b] = "clean"
  BY DEF Erase
<1>2. \A u \in Threads : CallMem(u)'
  BY IdleCall
<1>3. \A b \in Bytes : ByteMem(b)'
  BY <1>1 DEF ByteMem, Coherent
<1>4. HandInv'
  BY DEF HandInv
<1>5. \A b \in Bytes : Sees(b)' = server[b]
  BY <1>1 DEF Sees, HostReads
<1>6. (\A b \in Bytes : HostReads(b) => shadow[b] = server[b]) => \A b \in Bytes : Sees(b) = server[b]
  BY DEF Sees
<1>7. QED
  BY <1>2, <1>3, <1>4, <1>5, <1>6 DEF MemInv, MemKept

LEMMA FreeMem ==
  ASSUME MappedInv, MemInv, NEW t \in Threads, FreeMemory(t)
  PROVE  MemInv' /\ allocation' # allocation
<1>1. /\ pc[t] = Idle /\ Unlocked(t) /\ Alone(t) /\ allocation # "none" /\ allocation' = "none"
      /\ UNCHANGED <<server, pc, status, owner>> /\ Erase
  BY DEF FreeMemory
<1>2. \A u \in Threads : pc[u].op = "idle"
  BY <1>1, OthersAtRest, PlaceFacts
<1>3. \A c \in Batches : status[c] # "handing"
  BY <1>1, <1>2, NoneHanding
<1>4. QED
  BY <1>1, <1>2, <1>3, EraseMem

LEMMA MapMem ==
  ASSUME MappedInv, MemInv, NEW t \in Threads, NEW range \in MapRanges, MapMemory(t, range)
  PROVE  MemKept
<1>1. /\ pc[t] = Idle /\ Unlocked(t) /\ Alone(t) /\ allocation # "none" /\ mapping = {}
      /\ mapping' = range /\ ready' = (allocation = "explicit")
      /\ UNCHANGED <<allocation, server, baseline, status, owner>>
      /\ explicit' = [b \in Bytes |-> IF allocation = "explicit" /\ b \in range THEN "stale" ELSE "clean"]
  BY DEF MapMemory, memory
<1>2. range \subseteq Bytes
  BY RangeFacts
<1>3. PICK p : p = IF allocation = "coherent" THEN Call("pushed", range, Host) ELSE Idle
  OBVIOUS
<1>4. p \in Place /\ p.op \in {"idle", "pushed"} /\ (p.op = "pushed" => p.todo = range)
  <2>1. range \in SUBSET Bytes /\ "pushed" \in Ops /\ Host \in Batches \cup {Host}
    BY <1>2 DEF Ops
  <2>2. QED
    BY <1>3, <2>1, CallPlace, IdlePlace
<1>5. pc' = [pc EXCEPT ![t] = p]
  BY <1>3 DEF MapMemory
<1>6. pc'[t] = p /\ \A u \in Threads \ {t} : pc'[u] = pc[u] /\ pc[u].op = "idle"
  <2>1. p \in Place
    BY <1>4
  <2>2. pc'[t] = p /\ \A u \in Threads \ {t} : pc'[u] = pc[u]
    BY <1>5, <2>1, CallFacts
  <2>3. \A u \in Threads \ {t} : pc[u].op = "idle"
    BY <1>1, OthersAtRest
  <2>4. QED
    BY <2>2, <2>3
<1>7. ~ Coherent'
  BY <1>1 DEF Coherent
<1>8. CallMem(t)'
  <2>1. pc'[t].op \in {"idle", "pushed"} /\ (pc'[t].op = "pushed" => mapping' \ pc'[t].todo = {})
    BY <1>1, <1>4, <1>6
  <2>2. QED
    BY <1>7, <2>1 DEF CallMem, Mapping
<1>9. \A u \in Threads : CallMem(u)'
  BY <1>6, <1>8, AllCalls
<1>10. \A b \in Bytes : ByteMem(b)'
  BY <1>1, <1>7 DEF ByteMem
<1>11. HandInv'
  <2>1. \A c \in Batches : status[c] # "handing"
    BY <1>1, NoneHanding, PlaceFacts
  <2>2. QED
    BY <1>1, <2>1 DEF HandInv
<1>12. \A b \in Bytes : Sees(b)' = Sees(b)
  BY <1>1 DEF Sees, HostReads
<1>13. QED
  BY <1>9, <1>10, <1>11, <1>12 DEF MemInv, MemKept

\* A step of t that changes only its place; the bytes stay as they are.
LEMMA PlaceMem ==
  ASSUME MappedInv, MemInv, NEW t \in Threads,
         UNCHANGED <<allocation, server, mapping, ready, shadow, baseline, status, owner, explicit>>,
         \A u \in Threads \ {t} : pc'[u] = pc[u], pc[t].op \notin {"unmap", "keep"},
         pc[t].op = "publish" => pc'[t].op = "publish" /\ pc'[t].batch = pc[t].batch,
         CallMem(t)'
  PROVE  MemKept
<1>1. ASSUME NEW u \in Threads, u # t PROVE CallMem(u)'
  <2>1. CallMem(u) /\ pc'[u] = pc[u]
    BY <1>1 DEF MemInv
  <2>2. Coherent' = Coherent
    BY DEF Coherent
  <2>3. QED
    BY <2>1, <2>2 DEF CallMem, Chunk
<1>2. \A u \in Threads : CallMem(u)'
  BY <1>1
<1>3. \A b : Held(b) => Held(b)'
  <2>. SUFFICES ASSUME NEW b, Held(b) PROVE Held(b)'
    OBVIOUS
  <2>1. PICK u \in Threads : pc[u].op = "unmap" \/ (pc[u].op = "keep" /\ b \in Chunk(pc[u].run))
    BY DEF Held
  <2>2. pc'[u] = pc[u]
    BY <2>1
  <2>3. QED
    BY <2>1, <2>2 DEF Held, Chunk
<1>4. \A b \in Bytes : ByteMem(b)'
  BY <1>3 DEF MemInv, ByteMem, Coherent, Away
<1>5. HandInv'
  <2>. SUFFICES ASSUME NEW c \in Batches, status[c] = "handing"
                PROVE  \E u \in Threads : pc'[u].op \in {"publish", "keep"} /\ pc'[u].batch = c
    BY DEF HandInv
  <2>1. PICK u \in Threads : pc[u].op \in {"publish", "keep"} /\ pc[u].batch = c
    BY DEF MemInv, HandInv
  <2>2. QED
    BY <2>1
<1>6. \A b \in Bytes : Sees(b)' = Sees(b)
  BY DEF Sees, HostReads
<1>7. QED
  BY <1>2, <1>4, <1>5, <1>6 DEF MemInv, MemKept

LEMMA FillMem ==
  ASSUME MappedInv, MemInv, NEW t \in Threads, Fill(t)
  PROVE  MemKept
<1>1. /\ pc[t].op = "pushed" /\ Step(t, "fill", pc[t].todo, {})
      /\ UNCHANGED <<allocation, server, mapping, ready, shadow, baseline, status, owner, explicit>>
  BY DEF Fill, memory, client, use
<1>2. pc[t].todo \subseteq mapping /\ mapping \subseteq Bytes
  BY PlaceFacts
<1>3. /\ pc' \in [Threads -> Place] /\ \A u \in Threads \ {t} : pc'[u] = pc[u]
      /\ pc'[t].op = "fill" /\ pc'[t].todo = pc[t].todo /\ pc'[t].run = {}
  <2>1. PICK op, todo, none : op = "fill" /\ todo = pc[t].todo /\ none = {}
    OBVIOUS
  <2>2. Step(t, op, todo, none) /\ op \in Ops /\ todo \in SUBSET Bytes /\ none \in SUBSET Bytes
    BY <1>1, <1>2, <2>1 DEF Ops, Locking
  <2>3. QED
    BY <2>1, <2>2, StepFacts
<1>4. CallMem(t)'
  BY <1>1, <1>3 DEF MemInv, CallMem, Mapping
<1>5. QED
  BY <1>1, <1>3, <1>4, PlaceMem

LEMMA MapReadyMem ==
  ASSUME MappedInv, MemInv, NEW t \in Threads, MapReady(t)
  PROVE  MemKept
<1>1. /\ pc[t].op = "filled" /\ Unlocked(t) /\ baseline' = Copy(baseline, shadow, mapping)
      /\ ready' = TRUE /\ Done(t)
      /\ UNCHANGED <<allocation, server, mapping, shadow, status, owner, explicit>>
  BY DEF MapReady, memory, use
<1>2. \A u \in Threads : pc'[u].op = "idle"
  BY <1>1, DoneFacts, OthersAtRest DEF Mapping
<1>3. \A u \in Threads : CallMem(u)'
  BY <1>2, IdleCall
<1>4. \A b \in mapping : baseline'[b] = shadow[b]
  BY <1>1, DataTypes, CopyFacts
<1>5. allocation = "coherent" /\ pc[t].todo = {} /\ ~ready
  BY <1>1 DEF MappedInv, CallInv, Mapping
<1>6. \A b \in mapping : server[b] = shadow[b] \/ (b \in Outputs /\ owner[b] # Host)
  <2>1. \A b \in mapping \ Outputs : server[b] = shadow[b]
    BY <1>1, <1>5 DEF MappedInv, FillInv, Mapping
  <2>2. \A b \in mapping : owner[b] = Host => server[b] = shadow[b]
    BY <1>1, <1>5 DEF MemInv, CallMem, Mapping
  <2>3. QED
    BY <2>1, <2>2
<1>7. /\ \A c \in Batches : status[c] # "handing"
      /\ \A b \in Bytes : owner[b] # Host => Away(b)
  BY <1>1, NoneHanding
<1>8. \A b \in Bytes : ByteMem(b)'
  <2>. SUFFICES ASSUME NEW b \in Bytes PROVE ByteMem(b)'
    OBVIOUS
  <2>1. ByteMem(b) /\ (Away(b)' <=> Away(b))
    BY <1>1 DEF MemInv, Away
  <2>2. b \in mapping => (b \in Outputs /\ Away(b)) \/ server[b] = baseline'[b]
    BY <1>4, <1>6, <1>7
  <2>3. QED
    BY <1>1, <1>4, <1>5, <2>1, <2>2 DEF ByteMem, Coherent
<1>9. HandInv'
  BY <1>1, <1>7 DEF HandInv
<1>10. \A b \in Bytes : Sees(b)' = Sees(b)
  BY <1>1, <1>5, <1>6, <1>7 DEF Sees, HostReads, Away
<1>11. QED
  BY <1>3, <1>8, <1>9, <1>10 DEF MemInv, MemKept

\* A call begins that transfers nothing yet.
LEMMA BeginMem ==
  ASSUME MappedInv, MemInv, NEW t \in Threads, pc[t] = Idle, Unlocked(t), ready,
         NEW range, range \subseteq mapping, NEW op, op \in {"flush", "download", "unmap"},
         pc' = [pc EXCEPT ![t] = Call(op, range, Host)],
         \A b \in range : owner[b] = Host, op = "unmap" => range = mapping,
         op = "flush" => \A b \in range : explicit[b] # "stale",
         op = "download" => \A b \in range : explicit[b] # "stored",
         op = "download" => Agreed(range),
         UNCHANGED <<memory, client, status, owner, explicit>>
  PROVE  MemKept
<1>1. UNCHANGED <<allocation, server, mapping, ready, shadow, baseline, status, owner, explicit>>
  BY DEF memory, client
<1>2. PICK p : p = Call(op, range, Host)
  OBVIOUS
<1>3. p \in Place /\ p.op = op /\ p.todo = range /\ p.run = {}
  <2>1. op \in Ops /\ range \in SUBSET Bytes /\ Host \in Batches \cup {Host}
    BY DataTypes DEF Ops, Locking
  <2>2. QED
    BY <1>2, <2>1, CallPlace
<1>4. /\ \A u \in Threads \ {t} : pc'[u] = pc[u]
      /\ pc'[t].op = op /\ pc'[t].todo = range
  BY <1>2, <1>3, CallFacts
<1>5. pc[t].op = "idle"
  BY PlaceFacts
<1>6. Coherent /\ op = "download" => \A b \in range : shadow[b] = baseline[b]
  BY DEF Agreed, Coherent
<1>7. CallMem(t)'
  BY <1>1, <1>4, <1>6 DEF CallMem, Mapping, Coherent
<1>8. QED
  BY <1>1, <1>4, <1>5, <1>7, PlaceMem

LEMMA FlushCallMem ==
  ASSUME MappedInv, MemInv, ~May("flush stale bytes"), NEW t \in Threads, NEW range \in Ranges,
         FlushMappedMemoryRanges(t, range)
  PROVE  MemKept
<1>1. /\ pc[t] = Idle /\ Unlocked(t) /\ ready /\ range \subseteq mapping
      /\ \A b \in range : owner[b] = Host
      /\ \A b \in range : explicit[b] # "stale"
      /\ pc' = [pc EXCEPT ![t] = Call("flush", range, Host)]
      /\ UNCHANGED <<memory, client, status, owner, explicit>>
  BY DEF FlushMappedMemoryRanges, ValidRange, use
<1>2. QED
  BY <1>1, BeginMem

LEMMA InvalidateMem ==
  ASSUME MappedInv, MemInv, ~May("invalidate coherent memory"), NEW t \in Threads,
         NEW range \in Ranges, InvalidateMappedMemoryRanges(t, range)
  PROVE  MemKept
<1>1. /\ pc[t] = Idle /\ Unlocked(t) /\ ready /\ range \subseteq mapping /\ Agreed(range)
      /\ \A b \in range : owner[b] = Host
      /\ \A b \in range : explicit[b] # "stored"
      /\ pc' = [pc EXCEPT ![t] = Call("download", range, Host)]
      /\ UNCHANGED <<memory, client, status, owner, explicit>>
  BY DEF InvalidateMappedMemoryRanges, ValidRange, use
<1>2. "download" \in {"flush", "download", "unmap"} /\ "download" # "flush" /\ "download" # "unmap"
  OBVIOUS
<1>3. QED
  BY <1>1, <1>2, BeginMem, Zenon

LEMMA UnmapMem ==
  ASSUME MappedInv, MemInv, ~May("unmap in flight"), NEW t \in Threads, UnmapMemory(t)
  PROVE  MemKept
<1>1. /\ pc[t] = Idle /\ Unlocked(t) /\ Alone(t) /\ ready /\ UNCHANGED <<memory, status, owner>>
      /\ \A b \in mapping : explicit[b] # "stored"
  BY DEF UnmapMemory
<1>2. CASE allocation = "coherent"
  <2>1. /\ pc' = [pc EXCEPT ![t] = Call("unmap", mapping, Host)] /\ UNCHANGED <<client, explicit>>
        /\ \A b \in mapping : owner[b] = Host
    BY <1>2 DEF UnmapMemory
  <2>2. PICK range : range = mapping
    OBVIOUS
  <2>3. pc' = [pc EXCEPT ![t] = Call("unmap", range, Host)] /\ \A b \in range : owner[b] = Host
    BY <2>1, <2>2
  <2>4. QED
    BY <1>1, <2>1, <2>2, <2>3, BeginMem
<1>3. CASE allocation # "coherent"
  <2>1. Erase /\ UNCHANGED pc
    BY <1>3 DEF UnmapMemory
  <2>2. \A u \in Threads : pc'[u].op = "idle"
    BY <1>1, <2>1, OthersAtRest, PlaceFacts
  <2>3. \A c \in Batches : status[c] # "handing"
    BY <1>1, <2>1, <2>2, NoneHanding
  <2>4. allocation = "explicit"
    BY <1>1, <1>3 DEF MappedInv, TypeOK, PlaceInv
  <2>5. \A b \in Bytes : HostReads(b) => shadow[b] = server[b]
    <3> SUFFICES ASSUME NEW b \in Bytes, HostReads(b)  PROVE shadow[b] = server[b]
      OBVIOUS
    <3>1. ready /\ b \in mapping /\ explicit[b] # "stale" /\ ~Away(b)
      BY DEF HostReads, Away
    <3>2. explicit[b] = "clean"
      BY <1>1, <3>1, DataTypes
    <3>3. QED
      BY <2>4, <3>1, <3>2 DEF MemInv, ByteMem
  <2>6. QED
    BY <1>1, <2>1, <2>2, <2>3, <2>5, EraseMem DEF memory
<1>4. QED
  BY <1>2, <1>3

LEMMA UnmappedMem ==
  ASSUME MappedInv, MemInv, NEW t \in Threads, Unmapped(t)
  PROVE  MemKept
<1>1. /\ pc[t].op = "unmap" /\ pc[t].todo = {} /\ Erase /\ Done(t)
      /\ UNCHANGED <<server, status, owner>>
  BY DEF Unmapped, memory
<1>2. pc[t].op \in Locking
  BY <1>1 DEF Locking
<1>3. \A u \in Threads : pc'[u].op = "idle"
  BY <1>1, <1>2, DoneFacts, OthersAtRest
<1>4. \A c \in Batches : status[c] # "handing"
  BY <1>1, <1>2, NoneHanding
<1>5. Coherent
  BY <1>1 DEF MappedInv, CallInv, Coherent
<1>6. \A b \in mapping : server[b] = shadow[b]
  BY <1>1, <1>5 DEF MemInv, CallMem
<1>7. \A b \in Bytes : HostReads(b) => shadow[b] = server[b]
  BY <1>6 DEF HostReads
<1>8. QED
  BY <1>1, <1>3, <1>4, <1>7, EraseMem

LEMMA TransferredMem ==
  ASSUME MappedInv, MemInv, NEW t \in Threads, Transferred(t)
  PROVE  MemKept
<1>1. /\ pc[t].op \in {"flush", "download", "fill"} /\ pc[t].todo = {}
      /\ UNCHANGED <<allocation, server, mapping, ready, shadow, baseline, status, owner, explicit>>
  BY DEF Transferred, memory, client, use
<1>2. (\A u \in Threads \ {t} : pc'[u] = pc[u]) /\ CallMem(t)'
  <2>1. CASE pc[t].op = "fill"
    <3>1. PICK op, none : op = "filled" /\ none = {}
      OBVIOUS
    <3>2. Step(t, op, none, none) /\ op \in Ops /\ none \in SUBSET Bytes
      BY <2>1, <3>1 DEF Transferred, Ops
    <3>3. /\ \A u \in Threads \ {t} : pc'[u] = pc[u]
          /\ pc'[t].op = "filled" /\ pc'[t].todo = {} /\ pc'[t].run = {}
      <4>1. /\ pc' \in [Threads -> Place] /\ \A u \in Threads \ {t} : pc'[u] = pc[u]
            /\ pc'[t].op = op /\ pc'[t].todo = none /\ pc'[t].run = none
            /\ pc'[t].batch = pc[t].batch
        BY <3>2, StepFacts
      <4>2. QED
        BY <3>1, <4>1
    <3>4. \A b \in mapping \ {} : owner[b] = Host => server[b] = shadow[b]
      BY <1>1, <2>1 DEF MemInv, CallMem, Mapping
    <3>5. CallMem(t)'
      BY <1>1, <3>3, <3>4 DEF CallMem
    <3>6. QED
      BY <3>3, <3>5
  <2>2. CASE pc[t].op # "fill"
    <3>1. Done(t)
      BY <2>2 DEF Transferred
    <3>2. QED
      BY <3>1, DoneFacts, IdleCall
  <2>3. QED
    BY <2>1, <2>2
<1>3. QED
  BY <1>1, <1>2, PlaceMem

LEMMA FindRunMem ==
  ASSUME MappedInv, MemInv, NEW t \in Threads, FindRun(t)
  PROVE  MemKept
<1>1. /\ pc[t].op = "publish"
      /\ UNCHANGED <<allocation, server, mapping, ready, shadow, baseline, status, owner, explicit>>
  BY DEF FindRun, memory, client, use
<1>2. PICK left, run : left \subseteq pc[t].todo /\ run \subseteq pc[t].todo /\ Step(t, "publish", left, run)
  BY DEF FindRun
<1>3. left \in SUBSET Bytes /\ run \in SUBSET Bytes /\ "publish" \in Ops
  BY <1>2, PlaceFacts DEF Ops, Locking
<1>4. /\ pc' \in [Threads -> Place] /\ \A u \in Threads \ {t} : pc'[u] = pc[u]
      /\ pc'[t].op = "publish" /\ pc'[t].todo = left /\ pc'[t].run = run
      /\ pc'[t].batch = pc[t].batch
  BY <1>2, <1>3, StepFacts
<1>5. CallMem(t)'
  <2>1. pc[t].batch \in Batches /\ status[pc[t].batch] = "handing"
    BY <1>1 DEF MemInv, CallMem
  <2>2. QED
    BY <1>1, <1>4, <2>1 DEF CallMem, Mapping
<1>6. QED
  BY <1>1, <1>4, <1>5, PlaceMem

-----------------------------------------------------------------------------
\* One request, by the thread that holds the lock: the others rely on nothing.
LEMMA OneMoves ==
  ASSUME MappedInv, MemInv, NEW t \in Threads, pc[t].op \in Locking, ready \/ pc[t].op = "fill",
         UNCHANGED status, \A u \in Threads \ {t} : pc'[u] = pc[u],
         pc'[t].op = pc[t].op \/ {pc[t].op, pc'[t].op} \subseteq {"publish", "keep"},
         pc'[t].batch = pc[t].batch,
         CallMem(t)', \A b \in Bytes : ByteMem(b)', \A b \in Bytes : Sees(b)' = Sees(b)
  PROVE  MemKept
<1>1. \A u \in Threads \ {t} : pc[u].op = "idle"
  BY OthersAtRest DEF Mapping
<1>2. \A u \in Threads : CallMem(u)'
  BY <1>1, AllCalls
<1>3. HandInv'
  <2> SUFFICES ASSUME NEW c \in Batches, status[c] = "handing"
               PROVE  \E u \in Threads : pc'[u].op \in {"publish", "keep"} /\ pc'[u].batch = c
    BY DEF HandInv
  <2>1. PICK u \in Threads : pc[u].op \in {"publish", "keep"} /\ pc[u].batch = c
    BY DEF MemInv, HandInv
  <2>2. QED
    BY <2>1
<1>4. QED
  BY <1>2, <1>3 DEF MemInv, MemKept

\* Of a coherent mapping the host sees what is not away.
LEMMA SeenCoherent ==
  ASSUME MemInv, Coherent, NEW b \in Bytes, b \in mapping
  PROVE  (HostReads(b) <=> ~Away(b)) /\ explicit[b] = "clean"
  BY DEF MemInv, ByteMem, HostReads, Away, Coherent

LEMMA FlushChunkMem ==
  ASSUME MappedInv, MemInv, NEW t \in Threads, FlushChunk(t)
  PROVE  MemKept
<1>1. PICK chunk : chunk = AtomChunk(pc[t].todo)
  OBVIOUS
<1>2. /\ pc[t].op \in {"flush", "unmap"} /\ pc[t].todo # {} /\ server' = Copy(server, shadow, chunk)
      /\ explicit' = [b \in Bytes |-> IF b \in chunk THEN "clean" ELSE explicit[b]]
      /\ Step(t, pc[t].op, pc[t].todo \ chunk, {})
      /\ UNCHANGED <<allocation, mapping, ready, shadow, baseline, status, owner>>
  BY <1>1 DEF FlushChunk, Upload, client
<1>3. chunk \subseteq pc[t].todo /\ pc[t].todo \subseteq mapping /\ mapping \subseteq Bytes
  BY <1>1, ChunkWithin, PlaceFacts
<1>4. pc[t].op \in Locking /\ ready /\ (pc[t].op = "unmap" => Coherent)
  BY <1>2 DEF MappedInv, CallInv, Locking, Coherent
<1>5. /\ pc' \in [Threads -> Place] /\ \A u \in Threads \ {t} : pc'[u] = pc[u]
      /\ pc'[t].op = pc[t].op /\ pc'[t].todo = pc[t].todo \ chunk /\ pc'[t].run = {}
      /\ pc'[t].batch = pc[t].batch
  <2>1. pc[t].todo \ chunk \in SUBSET Bytes /\ {} \in SUBSET Bytes
    BY <1>3
  <2>2. pc[t].op \in Ops
    BY PlaceFacts
  <2>3. QED
    BY <1>2, <2>1, <2>2, StepFacts
<1>6. /\ \A b \in Bytes : b \in chunk => server'[b] = shadow[b]
      /\ \A b \in Bytes : b \notin chunk => server'[b] = server[b]
  BY <1>2, DataTypes, CopyFacts
<1>7. CallMem(t)
  BY DEF MemInv
<1>8. \A b \in chunk : owner[b] = Host /\ explicit[b] # "stale"
  <2>1. pc[t].op = "flush" => \A b \in pc[t].todo : owner[b] = Host /\ explicit[b] # "stale"
    BY <1>7 DEF CallMem
  <2>2. pc[t].op = "unmap" => \A b \in mapping : owner[b] = Host /\ explicit[b] = "clean"
    BY <1>3, <1>4, <1>7, SeenCoherent DEF CallMem
  <2>3. QED
    BY <1>2, <1>3, <2>1, <2>2
<1>9. Coherent' = Coherent
  BY <1>2 DEF Coherent
<1>10. CallMem(t)'
  <2>1. pc[t].op = "flush" => \A b \in pc[t].todo \ chunk : owner[b] = Host /\ explicit'[b] # "stale"
    BY <1>2, <1>3, <1>7 DEF CallMem
  <2>2. pc[t].op = "unmap" => \A b \in mapping : owner[b] = Host
    BY <1>7 DEF CallMem
  <2>3. pc[t].op = "unmap" => \A b \in mapping : b \notin pc[t].todo \ chunk => server'[b] = shadow[b]
    BY <1>3, <1>4, <1>6, <1>7 DEF CallMem
  <2>4. QED
    BY <1>2, <1>5, <1>9, <2>1, <2>2, <2>3 DEF CallMem, Mapping
<1>11. ASSUME NEW b \in Bytes  PROVE ByteMem(b)' /\ Sees(b)' = Sees(b)
  <2>1. ByteMem(b)
    BY DEF MemInv
  <2>2. Away(b)' = Away(b)
    BY <1>2 DEF Away
  <2>3. CASE b \in chunk
    <3>1. server'[b] = shadow[b] /\ explicit'[b] = "clean" /\ owner[b] = Host /\ explicit[b] # "stale"
          /\ b \in mapping
      BY <1>2, <1>3, <1>6, <1>8, <2>3
    <3>2. pc[t].op = "unmap" => Held(b)'
      BY <1>5 DEF Held
    <3>3. Coherent /\ pc[t].op = "flush" => shadow[b] = baseline[b]
      BY <1>3, <2>3 DEF MappedInv, PublishInv
    <3>4. ByteMem(b)'
      BY <1>2, <1>9, <2>2, <3>1, <3>2, <3>3 DEF ByteMem, Away
    <3>5. HostReads(b) /\ HostReads(b)'
      BY <1>2, <1>4, <3>1 DEF HostReads
    <3>6. QED
      BY <1>2, <3>4, <3>5 DEF Sees
  <2>4. CASE b \notin chunk
    <3>1. server'[b] = server[b] /\ explicit'[b] = explicit[b]
      BY <1>2, <1>6, <2>4
    <3>2. Coherent /\ b \in mapping =>
            \/ b \in Outputs /\ Away(b)
            \/ server[b] = baseline[b]
            \/ server[b] = shadow[b] /\ pc[t].op = "unmap"
      BY <1>2, <1>4, OwnByte
    <3>3. pc[t].op = "unmap" => Held(b)'
      BY <1>5 DEF Held
    <3>4. ByteMem(b)'
      BY <1>2, <1>9, <2>1, <2>2, <3>1, <3>2, <3>3 DEF ByteMem
    <3>5. QED
      BY <1>2, <3>1, <3>4 DEF Sees, HostReads
  <2>5. QED
    BY <2>3, <2>4
<1>12. QED
  BY <1>2, <1>4, <1>5, <1>10, <1>11, OneMoves

LEMMA DownloadChunkMem ==
  ASSUME MappedInv, MemInv, NEW t \in Threads, DownloadChunk(t)
  PROVE  MemKept
<1>1. PICK chunk : chunk = AtomChunk(pc[t].todo)
  OBVIOUS
<1>2. /\ pc[t].op \in {"download", "fill"} /\ pc[t].todo # {} /\ shadow' = Copy(shadow, server, chunk)
      /\ baseline' = IF allocation = "coherent" THEN Copy(baseline, server, chunk) ELSE baseline
      /\ explicit' = [b \in Bytes |-> IF b \in chunk THEN "clean" ELSE explicit[b]]
      /\ Step(t, pc[t].op, pc[t].todo \ chunk, {})
      /\ UNCHANGED <<allocation, mapping, ready, server, status, owner>>
  BY <1>1 DEF DownloadChunk, Downloaded, memory
<1>3. chunk \subseteq pc[t].todo /\ pc[t].todo \subseteq mapping /\ mapping \subseteq Bytes
  BY <1>1, ChunkWithin, PlaceFacts
<1>4. /\ pc[t].op \in Locking
      /\ pc[t].op = "download" => ready /\ allocation \in {"coherent", "explicit"}
      /\ pc[t].op = "fill" => ~ready
  BY <1>2, <1>3 DEF MappedInv, CallInv, Locking, Mapping, TypeOK, PlaceInv
<1>5. /\ pc' \in [Threads -> Place] /\ \A u \in Threads \ {t} : pc'[u] = pc[u]
      /\ pc'[t].op = pc[t].op /\ pc'[t].todo = pc[t].todo \ chunk /\ pc'[t].run = {}
      /\ pc'[t].batch = pc[t].batch
  <2>1. pc[t].todo \ chunk \in SUBSET Bytes /\ {} \in SUBSET Bytes
    BY <1>3
  <2>2. pc[t].op \in Ops
    BY PlaceFacts
  <2>3. QED
    BY <1>2, <2>1, <2>2, StepFacts
<1>6. /\ \A b \in Bytes : b \in chunk => shadow'[b] = server[b]
      /\ \A b \in Bytes : b \notin chunk => shadow'[b] = shadow[b]
  BY <1>2, DataTypes, CopyFacts
<1>7. Coherent => /\ \A b \in Bytes : b \in chunk => baseline'[b] = server[b]
                  /\ \A b \in Bytes : b \notin chunk => baseline'[b] = baseline[b]
  BY <1>2, DataTypes, CopyFacts DEF Coherent
<1>8. CallMem(t)
  BY DEF MemInv
<1>9. Coherent' = Coherent /\ (Coherent => pc[t].op = "download")
  BY <1>2, <1>4 DEF Coherent
<1>10. CallMem(t)'
  <2>1. pc[t].op = "download" => \A b \in pc[t].todo \ chunk : owner[b] = Host /\ explicit'[b] # "stored"
    BY <1>2, <1>3, <1>8 DEF CallMem
  <2>2. pc[t].op = "fill" =>
          \A b \in mapping \ (pc[t].todo \ chunk) : owner[b] = Host => server[b] = shadow'[b]
    BY <1>3, <1>6, <1>8 DEF CallMem, Mapping
  <2>3. Coherent => \A b \in pc[t].todo \ chunk : shadow'[b] = baseline'[b]
    BY <1>3, <1>6, <1>7, <1>8, <1>9 DEF CallMem
  <2>4. QED
    BY <1>2, <1>5, <1>9, <2>1, <2>2, <2>3 DEF CallMem, Mapping
<1>11. ASSUME NEW b \in Bytes  PROVE ByteMem(b)' /\ Sees(b)' = Sees(b)
  <2>1. ByteMem(b)
    BY DEF MemInv
  <2>2. Away(b)' = Away(b)
    BY <1>2 DEF Away
  <2>3. Coherent /\ b \in mapping => (b \in Outputs /\ Away(b)) \/ server[b] = baseline[b]
    BY <1>2, <1>4, OwnByte
  <2>4. CASE b \in chunk
    <3>1. shadow'[b] = server[b] /\ explicit'[b] = "clean" /\ b \in mapping
      BY <1>2, <1>3, <1>6, <2>4
    <3>2. pc[t].op = "download" => owner[b] = Host /\ explicit[b] # "stored"
      BY <1>3, <1>8, <2>4 DEF CallMem
    <3>3. ByteMem(b)'
      BY <1>2, <1>7, <1>9, <2>2, <2>4, <3>1, <3>2 DEF ByteMem, Away
    <3>4. CASE pc[t].op = "download"
      <4>1. ~Away(b) /\ HostReads(b)'
        BY <1>2, <1>4, <3>1, <3>2, <3>4 DEF Away, HostReads
      <4>2. Coherent => shadow[b] = baseline[b]
        BY <1>3, <1>8, <2>4, <3>4 DEF CallMem
      <4>3. HostReads(b) => shadow[b] = server[b]
        <5>1. CASE Coherent
          BY <2>3, <3>1, <4>1, <4>2, <5>1
        <5>2. CASE ~Coherent
          <6>1. allocation = "explicit"
            BY <1>4, <3>4, <5>2 DEF Coherent
          <6>2. HostReads(b) => explicit[b] = "clean"
            BY <3>2, <3>4, DataTypes DEF HostReads
          <6>3. QED
            BY <1>4, <2>1, <3>1, <3>4, <4>1, <6>1, <6>2 DEF ByteMem
        <5>3. QED
          BY <5>1, <5>2
      <4>4. QED
        BY <3>1, <3>3, <4>1, <4>3 DEF Sees
    <3>5. CASE pc[t].op = "fill"
      BY <1>2, <1>4, <3>3, <3>5 DEF Sees, HostReads
    <3>6. QED
      BY <1>2, <3>4, <3>5
  <2>5. CASE b \notin chunk
    <3>1. shadow'[b] = shadow[b] /\ explicit'[b] = explicit[b]
      BY <1>2, <1>6, <2>5
    <3>2. ByteMem(b)'
      BY <1>2, <1>7, <1>9, <2>1, <2>2, <2>3, <2>5, <3>1 DEF ByteMem
    <3>3. QED
      BY <1>2, <3>1, <3>2 DEF Sees, HostReads
  <2>6. QED
    BY <2>4, <2>5
<1>12. ready \/ pc[t].op = "fill"
  BY <1>2, <1>4
<1>13. QED
  BY <1>2, <1>4, <1>5, <1>10, <1>11, <1>12, OneMoves

LEMMA PublishChunkMem ==
  ASSUME MappedInv, MemInv, RunsApart, NEW t \in Threads, PublishChunk(t)
  PROVE  MemKept
<1>1. PICK chunk : chunk = Chunk(pc[t].run)
  OBVIOUS
<1>2. /\ pc[t].op = "publish" /\ pc[t].run # {} /\ server' = Copy(server, shadow, chunk)
      /\ Step(t, "keep", pc[t].todo, pc[t].run)
      /\ UNCHANGED <<allocation, mapping, ready, shadow, baseline, status, owner, explicit>>
  BY <1>1 DEF PublishChunk, Upload, client, use
<1>3. chunk \subseteq pc[t].run /\ pc[t].run \subseteq mapping /\ pc[t].todo \subseteq mapping
      /\ mapping \subseteq Bytes
  BY <1>1, ChunkWithin, PlaceFacts
<1>4. pc[t].op \in Locking /\ ready /\ Coherent
  BY <1>2 DEF MappedInv, CallInv, Locking, Coherent
<1>5. /\ pc' \in [Threads -> Place] /\ \A u \in Threads \ {t} : pc'[u] = pc[u]
      /\ pc'[t].op = "keep" /\ pc'[t].todo = pc[t].todo /\ pc'[t].run = pc[t].run
      /\ pc'[t].batch = pc[t].batch
  <2>1. PICK todo, run : todo = pc[t].todo /\ run = pc[t].run
    OBVIOUS
  <2>2. todo \in SUBSET Bytes /\ run \in SUBSET Bytes
    BY <1>3, <2>1
  <2>3. Step(t, "keep", todo, run)
    BY <1>2, <2>1
  <2>4. "keep" \in Ops
    BY DEF Ops, Locking
  <2>5. /\ pc' \in [Threads -> Place] /\ \A u \in Threads \ {t} : pc'[u] = pc[u]
        /\ pc'[t].op = "keep" /\ pc'[t].todo = todo /\ pc'[t].run = run
        /\ pc'[t].batch = pc[t].batch
    BY <2>2, <2>3, <2>4, StepFacts
  <2>6. QED
    BY <2>1, <2>5
<1>6. /\ \A b \in Bytes : b \in chunk => server'[b] = shadow[b]
      /\ \A b \in Bytes : b \notin chunk => server'[b] = server[b]
  BY <1>2, DataTypes, CopyFacts
<1>7. pc[t].batch \in Batches /\ status[pc[t].batch] = "handing"
  BY <1>2 DEF MemInv, CallMem
<1>8. Coherent'
  BY <1>2, <1>4 DEF Coherent
<1>9. Chunk(pc'[t].run) = chunk
  BY <1>1, <1>5 DEF Chunk
<1>10. CallMem(t)'
  <2>1. \A b \in chunk : server'[b] = shadow[b]
    BY <1>3, <1>6
  <2>2. Chunk(pc[t].run)' = chunk
    BY <1>9 DEF Chunk
  <2>3. QED
    BY <1>2, <1>5, <1>7, <2>1, <2>2 DEF CallMem, Mapping
<1>11. ASSUME NEW b \in Bytes  PROVE ByteMem(b)' /\ Sees(b)' = Sees(b)
  <2>1. ByteMem(b)
    BY DEF MemInv
  <2>2. Away(b)' = Away(b) /\ (HostReads(b)' <=> HostReads(b))
    BY <1>2 DEF Away, HostReads
  <2>3. b \in mapping => (b \in Outputs /\ Away(b)) \/ server[b] = baseline[b]
    BY <1>2, <1>4, OwnByte
  <2>4. CASE b \in chunk
    <3>1. b \in mapping /\ server'[b] = shadow[b]
      BY <1>3, <1>6, <2>4
    <3>2. Held(b)'
      BY <1>5, <1>9, <2>4 DEF Held, Chunk
    <3>3. ByteMem(b)'
      BY <1>2, <1>4, <1>8, <2>1, <2>2, <3>1, <3>2 DEF ByteMem
    <3>4. Away(b) => b \notin Outputs
      <4>1. b \in Outputs => owner[b] \in {Host, pc[t].batch}
        BY <1>2, <1>3, <2>4 DEF RunsApart
      <4>2. QED
        BY <1>7, <4>1 DEF Away
    <3>5. Away(b) => server'[b] = server[b]
      BY <1>4, <2>1, <2>3, <3>1, <3>4 DEF ByteMem
    <3>6. HostReads(b) <=> ~Away(b)
      BY <1>4, <3>1, SeenCoherent
    <3>7. QED
      BY <1>2, <2>2, <3>3, <3>5, <3>6 DEF Sees
  <2>5. CASE b \notin chunk
    <3>1. server'[b] = server[b]
      BY <1>6, <2>5
    <3>2. ByteMem(b)'
      BY <1>2, <1>4, <1>8, <2>1, <2>2, <2>3, <3>1 DEF ByteMem
    <3>3. QED
      BY <1>2, <2>2, <3>1, <3>2 DEF Sees
  <2>6. QED
    BY <2>4, <2>5
<1>12. QED
  BY <1>2, <1>4, <1>5, <1>10, <1>11, OneMoves

LEMMA KeepChunkMem ==
  ASSUME MappedInv, MemInv, NEW t \in Threads, KeepChunk(t)
  PROVE  MemKept
<1>1. PICK chunk : chunk = Chunk(pc[t].run)
  OBVIOUS
<1>2. /\ pc[t].op = "keep" /\ baseline' = Copy(baseline, shadow, chunk)
      /\ Step(t, "publish", pc[t].todo, pc[t].run \ chunk)
      /\ UNCHANGED <<allocation, server, mapping, ready, shadow, status, owner, explicit>>
  BY <1>1 DEF KeepChunk, Keep, memory, use
<1>3. chunk \subseteq pc[t].run /\ pc[t].run \subseteq mapping /\ pc[t].todo \subseteq mapping
      /\ mapping \subseteq Bytes
  BY <1>1, ChunkWithin, PlaceFacts
<1>4. pc[t].op \in Locking /\ ready /\ Coherent
  BY <1>2 DEF MappedInv, CallInv, Locking, Coherent
<1>5. /\ pc' \in [Threads -> Place] /\ \A u \in Threads \ {t} : pc'[u] = pc[u]
      /\ pc'[t].op = "publish" /\ pc'[t].todo = pc[t].todo /\ pc'[t].run = pc[t].run \ chunk
      /\ pc'[t].batch = pc[t].batch
  <2>1. pc[t].todo \in SUBSET Bytes /\ pc[t].run \ chunk \in SUBSET Bytes
    BY <1>3
  <2>2. Step(t, "publish", pc[t].todo, pc[t].run \ chunk)
    BY <1>2
  <2>3. "publish" \in Ops
    BY DEF Ops, Locking
  <2>4. QED
    BY <2>1, <2>2, <2>3, StepFacts
<1>6. /\ \A b \in Bytes : b \in chunk => baseline'[b] = shadow[b]
      /\ \A b \in Bytes : b \notin chunk => baseline'[b] = baseline[b]
  BY <1>2, DataTypes, CopyFacts
<1>7. /\ pc[t].batch \in Batches /\ status[pc[t].batch] = "handing"
      /\ \A b \in mapping : b \in chunk => server[b] = shadow[b]
  BY <1>1, <1>2, <1>4 DEF MemInv, CallMem
<1>8. CallMem(t)'
  BY <1>2, <1>5, <1>7 DEF CallMem, Mapping
<1>9. ASSUME NEW b \in Bytes  PROVE ByteMem(b)' /\ Sees(b)' = Sees(b)
  <2>1. ByteMem(b) /\ Away(b)' = Away(b)
    BY <1>2 DEF MemInv, Away
  <2>2. b \in mapping =>
          (b \in Outputs /\ Away(b)) \/ server[b] = baseline[b] \/ b \in chunk
    BY <1>1, <1>2, <1>4, OwnByte
  <2>3. b \in mapping => (b \in Outputs /\ Away(b)) \/ server[b] = baseline'[b]
    BY <1>6, <1>7, <2>2
  <2>4. b \in mapping /\ Away(b) => shadow[b] = baseline'[b]
    BY <1>4, <1>6, <2>1 DEF ByteMem
  <2>5. ByteMem(b)'
    BY <1>2, <1>4, <2>1, <2>3, <2>4 DEF ByteMem, Coherent
  <2>6. QED
    BY <1>2, <2>5 DEF Sees, HostReads
<1>10. QED
  BY <1>2, <1>4, <1>5, <1>8, <1>9, OneMoves

LEMMA AcquireChunkMem ==
  ASSUME MappedInv, MemInv, NEW t \in Threads, AcquireChunk(t)
  PROVE  MemKept
<1>1. PICK chunk : chunk = Chunk(pc[t].todo)
  OBVIOUS
<1>2. PICK clean : clean = chunk \ Dirty(chunk)
  OBVIOUS
<1>3. /\ pc[t].op = "acquire" /\ pc[t].todo # {}
      /\ shadow' = Copy(shadow, server, clean) /\ baseline' = Copy(baseline, server, chunk)
      /\ Step(t, "acquire", pc[t].todo \ chunk, {})
      /\ UNCHANGED <<allocation, server, mapping, ready, status, owner, explicit>>
  BY <1>1, <1>2 DEF AcquireChunk, Refresh, Downloaded, memory, use
<1>4. chunk \subseteq pc[t].todo /\ pc[t].todo \subseteq mapping /\ mapping \subseteq Bytes
      /\ clean \subseteq chunk
  BY <1>1, <1>2, ChunkWithin, PlaceFacts
<1>5. pc[t].op \in Locking /\ ready /\ Coherent
  BY <1>3 DEF MappedInv, CallInv, Locking, Coherent
<1>6. /\ pc' \in [Threads -> Place] /\ \A u \in Threads \ {t} : pc'[u] = pc[u]
      /\ pc'[t].op = "acquire" /\ pc'[t].todo = pc[t].todo \ chunk /\ pc'[t].run = {}
      /\ pc'[t].batch = pc[t].batch
  <2>1. pc[t].todo \ chunk \in SUBSET Bytes /\ {} \in SUBSET Bytes
    BY <1>4
  <2>2. "acquire" \in Ops
    BY DEF Ops, Locking
  <2>3. Step(t, "acquire", pc[t].todo \ chunk, {})
    BY <1>3
  <2>4. QED
    BY <2>1, <2>2, <2>3, StepFacts
<1>7. /\ \A b \in Bytes : b \in clean => shadow'[b] = server[b]
      /\ \A b \in Bytes : b \notin clean => shadow'[b] = shadow[b]
  BY <1>3, DataTypes, CopyFacts
<1>8. /\ \A b \in Bytes : b \in chunk => baseline'[b] = server[b]
      /\ \A b \in Bytes : b \notin chunk => baseline'[b] = baseline[b]
  BY <1>3, DataTypes, CopyFacts
<1>9. /\ pc[t].batch \in Batches /\ status[pc[t].batch] = "returning"
      /\ \A b \in mapping : b \notin pc[t].todo /\ owner[b] = pc[t].batch => server[b] = baseline[b]
  BY <1>3, <1>5 DEF MemInv, CallMem
<1>10. CallMem(t)'
  <2>1. \A b \in mapping : b \notin pc[t].todo \ chunk /\ owner[b] = pc[t].batch => server[b] = baseline'[b]
    BY <1>4, <1>8, <1>9
  <2>2. QED
    BY <1>3, <1>6, <1>9, <2>1 DEF CallMem, Mapping
<1>11. ASSUME NEW b \in Bytes  PROVE ByteMem(b)' /\ Sees(b)' = Sees(b)
  <2>1. ByteMem(b) /\ Away(b)' = Away(b) /\ (HostReads(b)' <=> HostReads(b))
    BY <1>3 DEF MemInv, Away, HostReads
  <2>2. b \in mapping => (b \in Outputs /\ Away(b)) \/ server[b] = baseline[b]
    BY <1>3, <1>5, OwnByte
  <2>3. CASE b \in chunk
    <3>1. b \in mapping /\ baseline'[b] = server[b]
      BY <1>4, <1>8, <2>3
    <3>2. b \in clean <=> shadow[b] = baseline[b]
      BY <1>2, <2>3 DEF Dirty
    <3>3. Away(b) => b \in clean
      BY <1>5, <2>1, <3>1, <3>2 DEF ByteMem
    <3>4. ~Away(b) => shadow'[b] = shadow[b]
      BY <1>7, <2>2, <3>1, <3>2
    <3>5. ByteMem(b)'
      BY <1>3, <1>5, <1>7, <2>1, <3>1, <3>3 DEF ByteMem, Coherent
    <3>6. HostReads(b) <=> ~Away(b)
      BY <1>5, <3>1, SeenCoherent
    <3>7. QED
      BY <1>3, <2>1, <3>4, <3>5, <3>6 DEF Sees
  <2>4. CASE b \notin chunk
    <3>1. shadow'[b] = shadow[b] /\ baseline'[b] = baseline[b]
      BY <1>4, <1>7, <1>8, <2>4
    <3>2. ByteMem(b)'
      BY <1>3, <1>5, <2>1, <2>2, <3>1 DEF ByteMem, Coherent
    <3>3. QED
      BY <1>3, <2>1, <3>1, <3>2 DEF Sees
  <2>5. QED
    BY <2>3, <2>4
<1>12. QED
  BY <1>3, <1>5, <1>6, <1>10, <1>11, OneMoves

-----------------------------------------------------------------------------
\* A step of t that hands bytes over or takes them back.  The others wait for the
\* lock, perhaps with a new mapping whose bytes must not change hands behind them.
LEMMA BatchMem ==
  ASSUME MappedInv, MemInv, NEW t \in Threads, Unlocked(t) \/ pc[t].op \in Locking,
         UNCHANGED <<server, mapping, shadow>>,
         \A u \in Threads \ {t} : pc'[u] = pc[u], CallMem(t)', HandInv',
         \/ \A u \in Threads \ {t} : pc[u].op # "filled"
         \/ \A b \in Bytes : owner'[b] = Host => owner[b] = Host,
         \A b \in Bytes : ByteMem(b)' /\ Sees(b)' = Sees(b)
  PROVE  MemKept
<1>1. ASSUME NEW u \in Threads, u # t  PROVE CallMem(u)'
  <2>1. pc'[u] = pc[u] /\ pc[u].op \in {"idle", "pushed", "filled"} /\ CallMem(u)
    BY <1>1, OthersUnlocked DEF MemInv
  <2>2. CASE pc[u].op = "idle"
    BY <2>1, <2>2, IdleCall
  <2>3. CASE pc[u].op = "pushed"
    <3>1. mapping \subseteq pc[u].todo
      BY <2>1, <2>3 DEF CallMem
    <3>2. QED
      BY <2>1, <2>3, <3>1 DEF CallMem
  <2>4. CASE pc[u].op = "filled"
    <3>1. \A b \in Bytes : owner'[b] = Host => owner[b] = Host
      BY <1>1, <2>4
    <3>2. \A b \in mapping \ pc[u].todo : owner'[b] = Host => server[b] = shadow[b]
      BY <2>1, <2>4, <3>1, DataTypes DEF CallMem, Mapping
    <3>3. QED
      BY <2>1, <2>4, <3>2 DEF CallMem
  <2>5. QED
    BY <2>1, <2>2, <2>3, <2>4
<1>2. QED
  BY <1>1 DEF MemInv, MemKept

\* A byte that is away as before, or here as before.
LEMMA SameAway ==
  ASSUME MappedInv, MemInv, NEW t \in Threads, Unlocked(t) \/ pc[t].op \in Locking,
         pc[t].op \notin {"unmap", "keep"},
         UNCHANGED <<allocation, server, mapping, ready, shadow, baseline, explicit>>,
         NEW b \in Bytes, Away(b)' <=> Away(b), owner'[b] # Host => explicit[b] # "stored"
  PROVE  ByteMem(b)' /\ Sees(b)' = Sees(b)
<1>1. ByteMem(b)
  BY DEF MemInv
<1>2. Coherent /\ b \in mapping => (b \in Outputs /\ Away(b)) \/ server[b] = baseline[b]
  BY OwnByte
<1>3. ByteMem(b)'
  BY <1>1, <1>2 DEF ByteMem, Coherent
<1>4. HostReads(b)' <=> HostReads(b)
  BY DEF HostReads, Away
<1>5. QED
  BY <1>3, <1>4 DEF Sees

LEMMA BatchTypes ==
  ASSUME MappedInv
  PROVE  /\ status \in [Batches -> {"none", "handing", "running", "done", "returning"}]
         /\ owner \in [Bytes -> Batches \cup {Host}] /\ Host \notin Batches
         /\ \A b \in Bytes : owner[b] # Host => owner[b] \in Batches /\ status[owner[b]] # "none"
  BY OutputsAssumption DEF MappedInv, TypeOK, PlaceInv

LEMMA BatchBegun ==
  ASSUME MappedInv, NEW t \in Threads, NEW c \in Batches, NEW op, NEW todo, Begins(t, op, todo, c)
  PROVE  pc'[t].batch = c
<1>1. todo \in SUBSET Bytes /\ op \in Ops
  BY PlaceFacts DEF Begins, Ops, Locking
<1>2. PICK p : p = Call(op, todo, c)
  OBVIOUS
<1>3. p \in Place /\ p.batch = c
  BY <1>1, <1>2, CallPlace
<1>4. QED
  BY <1>2, <1>3, CallFacts DEF Begins

LEMMA SubmitMem ==
  ASSUME MappedInv, MemInv, NEW t \in Threads, NEW c \in Batches, NEW given \in SUBSET Bytes,
         Submit(t, c, given)
  PROVE  MemKept
<1>1. /\ pc[t] = Idle /\ Unlocked(t) /\ status[c] = "none"
      /\ \A b \in given : owner[b] = Host /\ explicit[b] # "stored"
      /\ status' = [status EXCEPT ![c] = "handing"]
      /\ owner' = [b \in Bytes |-> IF b \in given THEN c ELSE owner[b]]
      /\ UNCHANGED <<allocation, server, mapping, ready, shadow, baseline, explicit>>
  BY DEF Submit, memory, client
<1>2. PICK todo : todo = IF allocation = "coherent" /\ ready THEN mapping ELSE {}
  OBVIOUS
<1>3. Begins(t, "publish", todo, c)
  BY <1>1, <1>2 DEF Submit, Begins
<1>4. /\ \A u \in Threads \ {t} : pc'[u] = pc[u]
      /\ pc'[t].op = "publish" /\ pc'[t].batch = c /\ pc[t].op = "idle"
  BY <1>3, BeginBatch, BatchBegun
<1>5. status'[c] = "handing" /\ \A d \in Batches : d # c => status'[d] = status[d]
  BY <1>1, BatchTypes
<1>6. CallMem(t)'
  BY <1>4, <1>5 DEF CallMem, Mapping
<1>7. HandInv'
  <2>1. \A d \in Batches : status[d] # "handing"
    BY <1>1, <1>4, NoneHanding
  <2>2. QED
    BY <1>4, <1>5, <2>1 DEF HandInv
<1>8. ASSUME NEW b \in Bytes
      PROVE  /\ ByteMem(b)' /\ Sees(b)' = Sees(b)
             /\ owner'[b] = Host => owner[b] = Host
  <2>1. (b \in given => owner'[b] = c) /\ (b \notin given => owner'[b] = owner[b])
    BY <1>1
  <2>2. Away(b)' <=> Away(b)
    BY <1>1, <1>5, <2>1, BatchTypes DEF Away
  <2>3. owner'[b] # Host => explicit[b] # "stored"
    BY <1>1, <2>1 DEF MemInv, ByteMem
  <2>4. ByteMem(b)' /\ Sees(b)' = Sees(b)
    BY <1>1, <1>4, <2>2, <2>3, SameAway
  <2>5. QED
    BY <2>1, <2>4, BatchTypes
<1>9. QED
  BY <1>1, <1>4, <1>6, <1>7, <1>8, BatchMem

LEMMA WaitMem ==
  ASSUME MappedInv, MemInv, NEW t \in Threads, NEW c \in Batches, Wait(t, c)
  PROVE  MemKept
<1>1. /\ pc[t] = Idle /\ Unlocked(t) /\ status[c] = "done"
      /\ status' = [status EXCEPT ![c] = "returning"]
      /\ UNCHANGED <<allocation, server, mapping, ready, shadow, baseline, owner, explicit>>
  BY DEF Wait, memory, client
<1>2. PICK todo : todo = IF allocation = "coherent" /\ ready THEN mapping ELSE {}
  OBVIOUS
<1>3. Begins(t, "acquire", todo, c)
  BY <1>1, <1>2 DEF Wait, Begins
<1>4. /\ \A u \in Threads \ {t} : pc'[u] = pc[u]
      /\ pc'[t].op = "acquire" /\ pc'[t].todo = todo /\ pc'[t].batch = c /\ pc[t].op = "idle"
  BY <1>3, BeginBatch, BatchBegun
<1>5. status'[c] = "returning" /\ \A d \in Batches : d # c => status'[d] = status[d]
  BY <1>1, BatchTypes
<1>6. CallMem(t)'
  <2>1. Coherent' => todo = mapping
    BY <1>1, <1>2 DEF Coherent
  <2>2. QED
    BY <1>1, <1>4, <1>5, <2>1 DEF CallMem, Mapping
<1>7. HandInv'
  <2>1. \A d \in Batches : status[d] # "handing"
    BY <1>1, <1>4, NoneHanding
  <2>2. QED
    BY <1>5, <2>1 DEF HandInv
<1>8. ASSUME NEW b \in Bytes  PROVE ByteMem(b)' /\ Sees(b)' = Sees(b)
  <2>1. Away(b)' <=> Away(b)
    BY <1>1, <1>5, BatchTypes DEF Away
  <2>2. owner'[b] # Host => explicit[b] # "stored"
    BY <1>1 DEF MemInv, ByteMem
  <2>3. QED
    BY <1>1, <1>4, <2>1, <2>2, SameAway
<1>9. QED
  BY <1>1, <1>4, <1>6, <1>7, <1>8, BatchMem

\* The submission: what the host sees of the batch's bytes is on the server.
LEMMA SubmittedMem ==
  ASSUME MappedInv, MemInv, NEW t \in Threads, Submitted(t)
  PROVE  MemKept
<1>1. /\ pc[t].op = "publish" /\ pc[t].run = {} /\ Dirty(pc[t].todo) = {} /\ Done(t)
      /\ status' = [status EXCEPT ![pc[t].batch] = "running"]
      /\ UNCHANGED <<allocation, server, mapping, ready, shadow, baseline, owner, explicit>>
  BY DEF Submitted, memory, client
<1>2. PICK c : c = pc[t].batch
  OBVIOUS
<1>3. c \in Batches /\ status[c] = "handing" /\ \A d \in Batches : status[d] = "handing" => d = c
  BY <1>1, <1>2, OneHanding
<1>4. status'[c] = "running" /\ \A d \in Batches : d # c => status'[d] = status[d]
  BY <1>1, <1>2, <1>3, BatchTypes
<1>5. pc[t].op \in Locking
  BY <1>1 DEF Locking
<1>6. (\A u \in Threads \ {t} : pc'[u] = pc[u]) /\ CallMem(t)'
  BY <1>1, DoneFacts, IdleCall
<1>7. HandInv'
  BY <1>3, <1>4 DEF HandInv
<1>8. Coherent => \A b \in mapping : shadow[b] = baseline[b]
  <2>1. Coherent => \A b \in mapping \ (pc[t].todo \cup {}) : shadow[b] = baseline[b]
    BY <1>1 DEF MappedInv, PublishInv
  <2>2. QED
    BY <1>1, <2>1 DEF Dirty
<1>9. ASSUME NEW b \in Bytes  PROVE ByteMem(b)' /\ Sees(b)' = Sees(b)
  <2>1. ByteMem(b) /\ (Away(b)' <=> owner[b] # Host)
    BY <1>1, <1>3, <1>4, BatchTypes DEF MemInv, Away
  <2>2. Coherent /\ b \in mapping => (b \in Outputs /\ Away(b)) \/ server[b] = baseline[b]
    BY <1>1, <1>5, OwnByte
  <2>3. Away(b) => owner[b] # Host
    BY DEF Away
  <2>4. ByteMem(b)'
    BY <1>1, <1>8, <2>1, <2>2, <2>3 DEF ByteMem, Coherent
  <2>5. HostReads(b)' => HostReads(b)
    BY <1>1, <2>1, <2>3 DEF HostReads, Away
  <2>6. ASSUME HostReads(b), ~HostReads(b)'  PROVE shadow[b] = server[b]
    <3>1. ready /\ b \in mapping /\ explicit[b] # "stale" /\ ~Away(b)
      BY <2>6 DEF HostReads, Away
    <3>2. owner[b] # Host
      BY <1>1, <2>1, <2>6, <3>1 DEF HostReads
    <3>3. explicit[b] = "clean"
      BY <2>1, <3>1, <3>2, DataTypes DEF ByteMem
    <3>4. CASE Coherent
      BY <1>8, <2>2, <3>1, <3>4
    <3>5. CASE ~Coherent
      <4>1. allocation = "explicit"
        BY <3>1, <3>5 DEF Coherent, MappedInv, TypeOK, PlaceInv
      <4>2. QED
        BY <2>1, <3>1, <3>3, <4>1 DEF ByteMem
    <3>6. QED
      BY <3>4, <3>5
  <2>7. QED
    BY <1>1, <2>4, <2>5, <2>6 DEF Sees
<1>10. \A b \in Bytes : owner'[b] = Host => owner[b] = Host
  BY <1>1
<1>11. QED
  BY <1>1, <1>5, <1>6, <1>7, <1>9, <1>10, BatchMem

\* The bytes of a batch come back: what the host sees of them is what the device
\* has left on the server.
LEMMA ReturnMem ==
  ASSUME MappedInv, MemInv, MapsUndisturbed, NEW t \in Threads, Return(t)
  PROVE  MemKept
<1>1. PICK c : c = pc[t].batch
  OBVIOUS
<1>2. /\ pc[t].op = "acquire" /\ pc[t].todo = {} /\ Done(t) /\ owner' = Returned(c)
      /\ status' = [status EXCEPT ![c] = "none"]
      /\ explicit' = [b \in Bytes |->
           IF allocation = "explicit" /\ owner[b] = c /\ b \in Outputs \cap mapping
             THEN "stale" ELSE explicit[b]]
      /\ UNCHANGED <<allocation, server, mapping, ready, shadow, baseline>>
  BY <1>1 DEF Return, memory, client
<1>3. pc[t].op \in Locking
  BY <1>2 DEF Locking
<1>4. /\ c \in Batches /\ status[c] = "returning"
      /\ Coherent => \A b \in mapping : owner[b] = c => server[b] = baseline[b]
  BY <1>1, <1>2 DEF MemInv, CallMem
<1>5. \A d \in Batches : d # c => status'[d] = status[d]
  BY <1>2, BatchTypes
<1>6. (\A u \in Threads \ {t} : pc'[u] = pc[u]) /\ CallMem(t)'
  BY <1>2, DoneFacts, IdleCall
<1>7. HandInv'
  <2>1. \A d \in Batches : status[d] # "handing"
    BY <1>2, <1>3, NoneHanding
  <2>2. \A d \in Batches : status'[d] # "handing"
    BY <1>2, <1>4, <1>5, <2>1, BatchTypes
  <2>3. QED
    BY <2>2 DEF HandInv
<1>8. \A u \in Threads \ {t} : pc[u].op # "filled"
  BY <1>2 DEF MapsUndisturbed
<1>9. ASSUME NEW b \in Bytes  PROVE ByteMem(b)' /\ Sees(b)' = Sees(b)
  <2>1. ByteMem(b) /\ Host # c
    BY <1>4, BatchTypes DEF MemInv
  <2>2. Coherent /\ b \in mapping => (b \in Outputs /\ Away(b)) \/ server[b] = baseline[b]
    BY <1>2, <1>3, OwnByte
  <2>3. Coherent' = Coherent
    BY <1>2 DEF Coherent
  <2>4. CASE owner[b] = c
    <3>1. owner'[b] = Host /\ Away(b) /\ ~Away(b)' /\ ~HostReads(b)
      BY <1>2, <1>4, <2>1, <2>4 DEF Returned, Away, HostReads
    <3>2. explicit[b] # "stored"
      BY <2>1, <3>1 DEF ByteMem, Away
    <3>3. ready /\ b \in mapping /\ explicit'[b] # "stale" => server[b] = shadow[b]
      <4>1. CASE Coherent
        BY <1>4, <2>1, <2>4, <3>1, <4>1 DEF ByteMem
      <4>2. CASE ready /\ b \in mapping /\ explicit'[b] # "stale" /\ ~Coherent
        <5>1. allocation = "explicit"
          BY <4>2 DEF Coherent, MappedInv, TypeOK, PlaceInv
        <5>2. b \notin Outputs /\ explicit'[b] = explicit[b]
          BY <1>2, <2>4, <4>2, <5>1
        <5>3. explicit[b] = "clean"
          BY <3>2, <4>2, <5>2, DataTypes
        <5>4. QED
          BY <2>1, <4>2, <5>1, <5>2, <5>3 DEF ByteMem
      <4>3. QED
        BY <4>1, <4>2
    <3>4. allocation # "explicit" => explicit'[b] = "clean"
      BY <1>2, <2>1 DEF ByteMem
    <3>5. ByteMem(b)'
      BY <1>2, <1>4, <2>3, <2>4, <3>1, <3>3, <3>4 DEF ByteMem, Coherent
    <3>6. HostReads(b)' => server[b] = shadow[b]
      BY <1>2, <3>3 DEF HostReads
    <3>7. QED
      BY <1>2, <3>1, <3>5, <3>6 DEF Sees
  <2>5. CASE owner[b] # c
    <3>1. owner'[b] = owner[b] /\ explicit'[b] = explicit[b]
      BY <1>2, <2>5 DEF Returned
    <3>2. Away(b)' <=> Away(b)
      BY <1>5, <2>5, <3>1, BatchTypes DEF Away
    <3>3. ByteMem(b)'
      BY <1>2, <2>1, <2>2, <2>3, <3>1, <3>2 DEF ByteMem
    <3>4. HostReads(b)' <=> HostReads(b)
      BY <1>2, <3>1, <3>2 DEF HostReads, Away
    <3>5. QED
      BY <1>2, <3>3, <3>4 DEF Sees
  <2>6. QED
    BY <2>4, <2>5
<1>10. QED
  BY <1>2, <1>3, <1>6, <1>7, <1>8, <1>9, BatchMem

\* A request fails: the bytes a submission was to hand over are the host's again,
\* those a wait was to bring back stay away.
LEMMA FailsMem ==
  ASSUME MappedInv, MemInv, ~May("lose stores in unmap"), NEW t \in Threads, Fails(t)
  PROVE  MemKept
<1>1. UNCHANGED <<allocation, server>>
  BY DEF Fails, memory
<1>2. CASE /\ pc[t].op = "publish" /\ pc[t].run # {}
           /\ status' = [status EXCEPT ![pc[t].batch] = "none"] /\ owner' = Returned(pc[t].batch)
           /\ Done(t) /\ UNCHANGED <<client, explicit>>
  <2>1. UNCHANGED <<allocation, server, mapping, ready, shadow, baseline, explicit>>
    BY <1>1, <1>2 DEF client
  <2>2. PICK c : c = pc[t].batch
    OBVIOUS
  <2>3. c \in Batches /\ status[c] = "handing" /\ \A d \in Batches : status[d] = "handing" => d = c
    BY <1>2, <2>2, OneHanding
  <2>4. status'[c] = "none" /\ \A d \in Batches : d # c => status'[d] = status[d]
    BY <1>2, <2>2, <2>3, BatchTypes
  <2>5. pc[t].op \in Locking /\ ready
    BY <1>2 DEF MappedInv, CallInv, Locking
  <2>6. (\A u \in Threads \ {t} : pc'[u] = pc[u]) /\ CallMem(t)'
    BY <1>2, DoneFacts, IdleCall
  <2>7. HandInv'
    BY <2>3, <2>4 DEF HandInv
  <2>8. \A u \in Threads \ {t} : pc[u].op # "filled"
    BY <2>5, OthersAtRest
  <2>9. ASSUME NEW b \in Bytes  PROVE ByteMem(b)' /\ Sees(b)' = Sees(b)
    <3>1. owner'[b] = IF owner[b] = c THEN Host ELSE owner[b]
      BY <1>2, <2>2 DEF Returned
    <3>2. Away(b)' <=> Away(b)
      BY <2>3, <2>4, <3>1, BatchTypes DEF Away
    <3>3. owner'[b] # Host => explicit[b] # "stored"
      BY <3>1 DEF MemInv, ByteMem
    <3>4. QED
      BY <1>2, <2>1, <2>5, <3>2, <3>3, SameAway
  <2>10. QED
    BY <2>1, <2>5, <2>6, <2>7, <2>8, <2>9, BatchMem
<1>3. CASE /\ pc[t].op = "acquire" /\ status' = [status EXCEPT ![pc[t].batch] = "done"]
           /\ Done(t) /\ UNCHANGED <<client, owner, explicit>>
  <2>1. UNCHANGED <<allocation, server, mapping, ready, shadow, baseline, owner, explicit>>
    BY <1>1, <1>3 DEF client
  <2>2. PICK c : c = pc[t].batch
    OBVIOUS
  <2>3. c \in Batches /\ status[c] = "returning"
    BY <1>3, <2>2 DEF MemInv, CallMem
  <2>4. status'[c] = "done" /\ \A d \in Batches : d # c => status'[d] = status[d]
    BY <1>3, <2>2, <2>3, BatchTypes
  <2>5. pc[t].op \in Locking
    BY <1>3 DEF Locking
  <2>6. (\A u \in Threads \ {t} : pc'[u] = pc[u]) /\ CallMem(t)'
    BY <1>3, DoneFacts, IdleCall
  <2>7. HandInv'
    <3>1. \A d \in Batches : status[d] # "handing"
      BY <1>3, <2>5, NoneHanding
    <3>2. QED
      BY <2>4, <3>1 DEF HandInv
  <2>8. ASSUME NEW b \in Bytes  PROVE ByteMem(b)' /\ Sees(b)' = Sees(b)
    <3>1. Away(b)' <=> Away(b)
      BY <2>1, <2>3, <2>4, BatchTypes DEF Away
    <3>2. owner'[b] # Host => explicit[b] # "stored"
      BY <2>1 DEF MemInv, ByteMem
    <3>3. QED
      BY <1>3, <2>1, <2>5, <3>1, <3>2, SameAway
  <2>9. \A b \in Bytes : owner'[b] = Host => owner[b] = Host
    BY <2>1
  <2>10. QED
    BY <2>1, <2>5, <2>6, <2>7, <2>8, <2>9, BatchMem
<1>4. CASE pc[t].op \in {"flush", "download"} /\ Done(t) /\ UNCHANGED <<client, use>>
  <2>1. UNCHANGED <<allocation, server, mapping, ready, shadow, baseline, status, owner, explicit>>
    BY <1>1, <1>4 DEF client, use
  <2>2. (\A u \in Threads \ {t} : pc'[u] = pc[u]) /\ CallMem(t)'
    BY <1>4, DoneFacts, IdleCall
  <2>3. QED
    BY <1>4, <2>1, <2>2, PlaceMem
<1>5. CASE pc[t].op = "fill" /\ Erase /\ Done(t) /\ UNCHANGED <<status, owner>>
  <2>1. pc[t].op \in Locking /\ pc[t].op \in Mapping /\ ~ready
    BY <1>5 DEF MappedInv, CallInv, Locking, Mapping
  <2>2. \A u \in Threads : pc'[u].op = "idle"
    <3>1. \A u \in Threads \ {t} : pc[u].op = "idle"
      BY <2>1, OthersAtRest
    <3>2. pc'[t].op = "idle" /\ \A u \in Threads \ {t} : pc'[u] = pc[u]
      BY <1>5, DoneFacts
    <3>3. QED
      BY <3>1, <3>2
  <2>3. \A d \in Batches : status[d] # "handing"
    BY <1>5, <2>1, NoneHanding
  <2>4. \A b \in Bytes : HostReads(b) => shadow[b] = server[b]
    BY <2>1 DEF HostReads
  <2>5. QED
    BY <1>1, <1>5, <2>2, <2>3, <2>4, EraseMem
<1>6. CASE /\ pc[t].op = "unmap" /\ Agreed(pc[t].todo)
           /\ Step(t, "unmap", {}, {}) /\ UNCHANGED <<client, use>>
  <2>1. UNCHANGED <<allocation, server, mapping, ready, shadow, baseline, status, owner, explicit>>
    BY <1>1, <1>6 DEF client, use
  <2>2. "unmap" \in Ops /\ "unmap" \in Locking /\ {} \in SUBSET Bytes
    BY DEF Ops, Locking
  <2>3. /\ pc' \in [Threads -> Place] /\ \A u \in Threads \ {t} : pc'[u] = pc[u]
        /\ pc'[t].op = "unmap" /\ pc'[t].todo = {} /\ pc'[t].run = {}
        /\ pc'[t].batch = pc[t].batch
    BY <1>6, <2>2, StepFacts
  <2>4. Coherent /\ pc[t].op \in Locking
    BY <1>6, <2>2 DEF MappedInv, CallInv, Coherent
  <2>5. /\ \A b \in mapping : owner[b] = Host
        /\ \A b \in mapping : b \notin pc[t].todo => server[b] = shadow[b]
    BY <1>6, <2>4 DEF MemInv, CallMem
  <2>6. \A b \in mapping : server[b] = shadow[b]
    <3> SUFFICES ASSUME NEW b \in mapping  PROVE server[b] = shadow[b]
      OBVIOUS
    <3>1. b \in pc[t].todo => shadow[b] = baseline[b]
      BY <1>6, <2>4 DEF Agreed, Coherent
    <3>2. ~Away(b)
      BY <2>5 DEF Away
    <3>3. server[b] = baseline[b] \/ server[b] = shadow[b]
      BY <2>4, <3>2, OwnByte
    <3>4. QED
      BY <2>5, <3>1, <3>3
  <2>7. CallMem(t)'
    BY <2>1, <2>3, <2>5, <2>6 DEF CallMem, Mapping
  <2>8. \A b \in Bytes : ByteMem(b)'
    <3>1. \A b : Held(b)'
      BY <2>3 DEF Held
    <3>2. QED
      BY <2>1, <2>6, <3>1 DEF MemInv, ByteMem, Coherent, Away
  <2>9. \A b \in Bytes : Sees(b)' = Sees(b)
    BY <2>1 DEF Sees, HostReads
  <2>10. ready /\ pc'[t].op = pc[t].op
    BY <1>6, <2>3, <2>4 DEF Coherent
  <2>11. QED
    BY <2>1, <2>3, <2>4, <2>7, <2>8, <2>9, <2>10, OneMoves
<1>7. QED
  BY <1>2, <1>3, <1>4, <1>5, <1>6 DEF Fails
-----------------------------------------------------------------------------
\* One byte changes to the eyes of the host.
LEMMA MemWritten ==
  ASSUME NEW b \in Bytes, NEW v, Sees(b)' = v, \A x \in Bytes \ {b} : Sees(x)' = Sees(x)
  PROVE  Mem' = [Mem EXCEPT ![b] = v]
<1>1. Mem = [x \in Bytes |-> Sees(x)] /\ Mem' = [x \in Bytes |-> Sees(x)']
  BY DEF Mem, Sees
<1>2. QED
  BY <1>1

LEMMA StoreMem ==
  ASSUME MappedInv, MemInv, ~May("store while publishing"), NEW b \in Bytes, NEW v \in Values,
         HostStore(b, v)
  PROVE  MemInv' /\ Mem' = [Mem EXCEPT ![b] = v]
<1>1. /\ ready /\ b \in mapping /\ owner[b] = Host /\ shadow' = [shadow EXCEPT ![b] = v]
      /\ explicit' = [explicit EXCEPT ![b] = IF allocation = "explicit" THEN "stored" ELSE explicit[b]]
      /\ UNCHANGED <<allocation, server, mapping, ready, baseline, pc, status, owner>>
  BY DEF HostStore, memory
<1>2. PICK t \in Threads : pc[t].op = "idle" /\ Unlocked(t)
  BY DEF HostStore
<1>3. \A u \in Threads : pc[u].op = "idle"
  BY <1>1, <1>2, OthersAtRest
<1>4. \A u \in Threads : CallMem(u)'
  BY <1>1, <1>3, IdleCall
<1>5. HandInv'
  BY <1>1 DEF MemInv, HandInv
<1>6. Coherent' = Coherent
  BY <1>1 DEF Coherent
<1>7. ASSUME NEW x \in Bytes \ {b}  PROVE ByteMem(x)' /\ Sees(x)' = Sees(x)
  <2>1. shadow'[x] = shadow[x] /\ explicit'[x] = explicit[x] /\ (Away(x)' <=> Away(x))
    BY <1>1, DataTypes DEF Away
  <2>2. ByteMem(x) /\ (Held(x)' <=> Held(x))
    BY <1>1 DEF MemInv, Held, Chunk
  <2>3. ByteMem(x)'
    BY <1>1, <1>6, <2>1, <2>2 DEF ByteMem
  <2>4. QED
    BY <1>1, <2>1, <2>3 DEF Sees, HostReads
<1>8. ByteMem(b)' /\ Sees(b)' = v
  <2>1. shadow'[b] = v /\ (allocation = "explicit" => explicit'[b] = "stored")
        /\ (allocation # "explicit" => explicit'[b] = explicit[b])
    BY <1>1, DataTypes
  <2>2. ByteMem(b) /\ ~Away(b)'
    BY <1>1 DEF MemInv, Away
  <2>3. Coherent => server[b] = baseline[b]
    <3>1. ~Away(b)
      BY <1>1 DEF Away
    <3>2. QED
      BY <1>1, <1>2, <3>1, OwnByte
  <2>4. ByteMem(b)'
    BY <1>1, <1>6, <2>1, <2>2, <2>3 DEF ByteMem
  <2>5. HostReads(b)'
    BY <1>1, <2>1, <2>2 DEF HostReads, ByteMem
  <2>6. QED
    BY <2>1, <2>4, <2>5 DEF Sees
<1>9. QED
  BY <1>4, <1>5, <1>7, <1>8, MemWritten DEF MemInv

LEMMA DeviceWriteMem ==
  ASSUME MappedInv, MemInv, RunsApart, NEW b \in Bytes, NEW v \in Values, DeviceWrite(b, v)
  PROVE  MemInv' /\ Mem' = [Mem EXCEPT ![b] = v]
<1>1. /\ b \in Outputs /\ owner[b] # Host /\ status[owner[b]] = "running"
      /\ server' = [server EXCEPT ![b] = v]
      /\ UNCHANGED <<allocation, mapping, ready, shadow, baseline, pc, status, owner, explicit>>
  BY DEF DeviceWrite, client, use
<1>2. server'[b] = v /\ \A x \in Bytes \ {b} : server'[x] = server[x]
  BY <1>1, DataTypes
<1>3. ASSUME NEW u \in Threads  PROVE CallMem(u)'
  <2>1. CallMem(u) /\ Coherent' = Coherent /\ mapping \subseteq Bytes
    BY <1>1, DataTypes DEF MemInv, Coherent
  <2>2. pc[u].op = "keep" => b \notin Chunk(pc[u].run)
    BY <1>1, <2>1, ChunkWithin DEF CallMem, RunsApart
  <2>3. pc[u].op = "acquire" => owner[b] # pc[u].batch
    BY <1>1, <2>1 DEF CallMem
  <2>4. pc[u].op = "unmap" => b \notin mapping
    BY <1>1, <2>1 DEF CallMem
  <2>5. Chunk(pc[u].run)' = Chunk(pc[u].run)
    BY <1>1 DEF Chunk
  <2>6. pc[u].op \in Mapping =>
          \A x \in mapping \ pc[u].todo : owner[x] = Host => server'[x] = shadow[x]
    BY <1>1, <1>2, <2>1 DEF CallMem
  <2>7. Coherent => \A x \in mapping :
          /\ pc[u].op = "keep" /\ x \in Chunk(pc[u].run) => server'[x] = shadow[x]
          /\ pc[u].op = "acquire" /\ x \notin pc[u].todo /\ owner[x] = pc[u].batch =>
               server'[x] = baseline[x]
          /\ pc[u].op = "unmap" /\ x \notin pc[u].todo => server'[x] = shadow[x]
    BY <1>2, <2>1, <2>2, <2>3, <2>4 DEF CallMem
  <2>8. QED
    BY <1>1, <2>1, <2>5, <2>6, <2>7 DEF CallMem
<1>4. HandInv'
  BY <1>1 DEF MemInv, HandInv
<1>5. ASSUME NEW x \in Bytes
      PROVE  ByteMem(x)' /\ (x # b => Sees(x)' = Sees(x))
  <2>1. ByteMem(x) /\ (Away(x)' <=> Away(x)) /\ (Held(x)' <=> Held(x)) /\ Coherent' = Coherent
    BY <1>1 DEF MemInv, Away, Held, Chunk, Coherent
  <2>2. CASE x = b
    <3>1. Away(x)' /\ x \in Outputs
      BY <1>1, <2>2 DEF Away
    <3>2. QED
      BY <1>1, <2>1, <2>2, <3>1 DEF ByteMem
  <2>3. CASE x # b
    BY <1>1, <1>2, <2>1, <2>3 DEF ByteMem, Sees, HostReads
  <2>4. QED
    BY <2>2, <2>3
<1>6. Sees(b)' = v
  BY <1>1, <1>2 DEF Sees, HostReads
<1>7. QED
  BY <1>3, <1>4, <1>5, <1>6, MemWritten DEF MemInv

\* A batch completes, or nothing happens.
LEMMA DeviceDoneMem ==
  ASSUME MappedInv, MemInv, (\E c \in Batches : DeviceDone(c)) \/ UNCHANGED vars
  PROVE  MemKept
<1>1. /\ UNCHANGED <<allocation, server, mapping, ready, shadow, baseline, pc, owner, explicit>>
      /\ \A d \in Batches : status'[d] = status[d] \/ (status[d] = "running" /\ status'[d] = "done")
  <2>1. ASSUME NEW c \in Batches, DeviceDone(c)
        PROVE  /\ UNCHANGED <<allocation, server, mapping, ready, shadow, baseline, pc, owner, explicit>>
               /\ \A d \in Batches :
                    status'[d] = status[d] \/ (status[d] = "running" /\ status'[d] = "done")
    BY <2>1, BatchTypes DEF DeviceDone, memory, client
  <2>2. CASE UNCHANGED vars
    BY <2>2 DEF vars, memory, client, use
  <2>3. QED
    BY <2>1, <2>2
<1>2. ASSUME NEW u \in Threads  PROVE CallMem(u)'
  <2>1. CallMem(u) /\ Coherent' = Coherent /\ Chunk(pc[u].run)' = Chunk(pc[u].run)
    BY <1>1 DEF MemInv, Coherent, Chunk
  <2>2. QED
    BY <1>1, <2>1 DEF CallMem
<1>3. HandInv'
  BY <1>1 DEF MemInv, HandInv
<1>4. ASSUME NEW b \in Bytes  PROVE ByteMem(b)' /\ Sees(b)' = Sees(b)
  <2>1. ByteMem(b) /\ (Held(b)' <=> Held(b)) /\ Coherent' = Coherent
    BY <1>1 DEF MemInv, Held, Chunk, Coherent
  <2>2. Away(b)' <=> Away(b)
    BY <1>1, BatchTypes DEF Away
  <2>3. HostReads(b)' <=> HostReads(b)
    BY <1>1, <2>2 DEF HostReads, Away
  <2>4. QED
    BY <1>1, <2>1, <2>2, <2>3 DEF ByteMem, Sees
<1>5. QED
  BY <1>2, <1>3, <1>4 DEF MemInv, MemKept

LEMMA MemInit == Init => MemInv
<1> SUFFICES ASSUME Init  PROVE MemInv
  OBVIOUS
<1>1. \A t \in Threads : pc[t].op = "idle"
  BY IdlePlace DEF Init
<1>2. \A t \in Threads : CallMem(t)
  BY <1>1 DEF CallMem, Mapping
<1>3. \A b \in Bytes : ByteMem(b)
  BY DEF Init, ByteMem, Coherent
<1>4. HandInv
  BY DEF Init, HandInv
<1>5. QED
  BY <1>2, <1>3, <1>4 DEF MemInv

\* What OneMemory allows a step to do.
MemStep ==
  \/ Mem' = Mem
  \/ allocation' # allocation
  \/ \E b \in Bytes, v \in Values :
       (HostStore(b, v) \/ DeviceWrite(b, v)) /\ Mem' = [Mem EXCEPT ![b] = v]

LEMMA OneMemoryStep ==
  ASSUME Usage = {}, MappedInv, MemInv, RunsApart, MapsUndisturbed, [Next]_vars
  PROVE  MemInv' /\ MemStep
<1>1. MemKept => MemInv' /\ MemStep
  BY MemIsSeen DEF MemKept, MemStep
<1>2. \A call : ~May(call)
  BY DEF May
<1>3. ASSUME NEW t \in Threads, Thread(t)  PROVE MemInv' /\ MemStep
  <2>1. CASE AllocateMemory(t) \/ FreeMemory(t)
    BY <2>1, AllocateMem, FreeMem DEF MemStep
  <2>2. CASE \E range \in MapRanges : MapMemory(t, range)
    BY <1>1, <2>2, MapMem
  <2>3. CASE \E range \in Ranges : \/ FlushMappedMemoryRanges(t, range)
                                   \/ InvalidateMappedMemoryRanges(t, range)
    BY <1>1, <1>2, <2>3, FlushCallMem, InvalidateMem
  <2>4. CASE Fill(t) \/ MapReady(t) \/ UnmapMemory(t) \/ Unmapped(t)
    BY <1>1, <1>2, <2>4, FillMem, MapReadyMem, UnmapMem, UnmappedMem
  <2>5. CASE FlushChunk(t) \/ DownloadChunk(t) \/ Transferred(t)
    BY <1>1, <2>5, FlushChunkMem, DownloadChunkMem, TransferredMem
  <2>6. CASE \E c \in Batches : \/ \E given \in SUBSET Bytes : Submit(t, c, given)
                                \/ Wait(t, c)
    BY <1>1, <2>6, SubmitMem, WaitMem
  <2>7. CASE FindRun(t) \/ PublishChunk(t) \/ KeepChunk(t) \/ Submitted(t)
    BY <1>1, <2>7, FindRunMem, PublishChunkMem, KeepChunkMem, SubmittedMem
  <2>8. CASE AcquireChunk(t) \/ Return(t) \/ Fails(t)
    BY <1>1, <1>2, <2>8, AcquireChunkMem, ReturnMem, FailsMem
  <2>9. QED
    BY <1>3, <2>1, <2>2, <2>3, <2>4, <2>5, <2>6, <2>7, <2>8 DEF Thread
<1>4. ASSUME NEW b \in Bytes, NEW v \in Values, HostStore(b, v) \/ DeviceWrite(b, v)
      PROVE  MemInv' /\ MemStep
  BY <1>2, <1>4, StoreMem, DeviceWriteMem DEF MemStep
<1>5. CASE (\E c \in Batches : DeviceDone(c)) \/ UNCHANGED vars
  BY <1>1, <1>5, DeviceDoneMem
<1>6. QED
  BY <1>3, <1>4, <1>5 DEF Next

\* For any threads, sizes and ranges: what the application reads through its mapping
\* and what the device finds on the server are one memory (publish_coherent_mapped
\* and acquire_coherent_mapped of remote_objects.cpp, vkMapMemory, vkUnmapMemory and
\* the ranges' flush and invalidate of memory.cpp, whichever of their requests fail).
\* The application makes none of the calls this client does not cope with, and two
\* things do not happen that this client does not exclude: a run that is sent with
\* another batch's output between two of its stores (RunsApart), and a batch that is
\* seen complete between the download of a new mapping and transfer_ready
\* (MapsUndisturbed).
THEOREM ThereIsOneMemory ==
  ASSUME Usage = {}
  PROVE  Spec /\ [](RunsApart /\ MapsUndisturbed) => OneMemory
<1>1. MappedInv /\ [Next]_vars => MappedInv'
  BY MappedStep DEF May
<1>2. MappedInv /\ MemInv /\ (RunsApart /\ MapsUndisturbed) /\ [Next]_vars => MemInv' /\ MemStep
  BY OneMemoryStep
<1>3. Init => MappedInv /\ MemInv
  BY MappedInit, MemInit
<1>4. OneMemory <=> [][MemStep]_vars
  BY PTL DEF OneMemory, MemStep
<1>5. QED
  BY <1>1, <1>2, <1>3, <1>4, PTL DEF Spec
=============================================================================
