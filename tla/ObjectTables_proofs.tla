------------------------ MODULE ObjectTables_proofs ------------------------
(***************************************************************************)
(* Theorems about ObjectTables: in every session, for any number of        *)
(* handles and names, names and native objects correspond one to one, the  *)
(* maps beside the tables describe the same objects as the tables, and the *)
(* teardown of a device or of the session is in order and complete.        *)
(*                                                                         *)
(* ObjectsInv is the inductive invariant.  Most of it speaks of the time   *)
(* between two handlers and holds in a teardown too, with the allowances   *)
(* that destroy_device_objects makes for itself: what went with its pool   *)
(* keeps its name until the end, and a swapchain's images lose theirs      *)
(* before they go.                                                         *)
(***************************************************************************)
EXTENDS ObjectTables, FiniteSetTheorems, SequenceTheorems, WellFoundedInduction, TLAPS

Slot == [h : Handles \cup {Null}, owner : Handles \cup {Null}]
Gone == [h |-> Null, owner |-> Null]
IsFn(f) == f = [x \in DOMAIN f |-> f[x]]

IsObject(o) ==
  /\ o = Object(o.kind, o.id, o.h, o.dev, o.parent, o.refs)
  /\ o.kind \in Kinds /\ o.id \in Nat /\ o.h \in Handles /\ o.dev \in Nat

\* Which objects come and go with which others.
Parentage ==
  {<<"queues", "devices">>, <<"command_buffers", "command_pools">>,
   <<"descriptor_sets", "descriptor_pools">>, <<"images", "swapchains">>}

\* h is the native handle of the device that the client calls d.
DeviceIs(d, h) == \E p \in live : p.kind = "devices" /\ p.id = d /\ p.h = h

\* own is what the tables should say is the owner of o.
OwnerIs(o, own) ==
  IF o.kind \in {"devices", "surfaces"} THEN own = Null ELSE DeviceIs(o.dev, own)

\* A name that is allowed to have outlived its object.
Loose(k, i) ==
  \/ k = "command_buffers" /\ i \in orphaned
  \/ /\ k \in {"command_buffers", "descriptor_sets"}
     /\ doing.h # Null /\ tables[k][i].owner = doing.h

\* An object that is allowed to have outlived its name.
Excused(o) ==
  /\ doing.h # Null
  /\ \/ o.kind = "devices" /\ o.id = doing.id
     \/ o.kind = "images" /\ o.parent # <<>> /\ o.dev = doing.id

StateType ==
  /\ tables \in [Kinds -> Seq(Slot)]
  /\ \A o \in live : IsObject(o)
  /\ doing \in [at : {"serving", "ending", "ended"}, h : Handles \cup {Null},
                id : 0 .. Len(tables["devices"])]
  /\ doing.h = Null => doing.id = Null
  /\ doing.at = "ended" => doing.h = Null
  /\ orphaned \subseteq AllIds("command_buffers")

RegType ==
  /\ IsFn(registered) /\ DOMAIN registered = RegisteredKinds
  /\ \A k \in RegisteredKinds : IsFn(registered[k]) /\ DOMAIN registered[k] \subseteq AllIds(k)

SetType ==
  IsFn(descriptor_set_owners) /\ DOMAIN descriptor_set_owners \subseteq AllIds("descriptor_sets")

ChainType ==
  /\ DOMAIN swapchain_image_ids \subseteq AllIds("swapchains")
  /\ DOMAIN swapchain_devices \subseteq Handles

TypeInv ==
  StateType /\ RegType /\ SetType /\ ChainType /\ DOMAIN command_buffer_devices \subseteq Handles

\* The driver's handles of a kind are distinct, and so are the names told.
UniqueInv ==
  /\ \A o, p \in live : o.kind = p.kind /\ o.h = p.h => o = p
  /\ \A o, p \in live : o.kind = p.kind /\ o.id = p.id /\ o.id # Null => o = p

\* What an object has: a name unless it is a swapchain's image, a device, its
\* parent, and references to its own device's objects or to a surface.
HasName(o) ==
  /\ o.id = Null => o.kind = "images" /\ o.parent # <<>>
  /\ o.kind = "queues" => o.id = o.dev
  /\ o.kind # "queues" => o.id <= Len(tables[o.kind])

HasDevice(o) ==
  /\ o.dev = Null <=> o.kind \in {"devices", "surfaces"}
  /\ o.dev # Null => \E p \in live : p.kind = "devices" /\ p.id = o.dev

HasParent(o) ==
  /\ o.parent = <<>> => o.kind \notin {"queues", "command_buffers", "descriptor_sets"}
  /\ o.parent # <<>> =>
       \E p \in live : /\ o.parent = <<p.kind, p.id>> /\ <<o.kind, p.kind>> \in Parentage
                       /\ IF o.kind = "queues" THEN p.id = o.dev ELSE p.dev = o.dev

HasRefs(o) ==
  \A r \in o.refs : \E k \in Refers(o.kind) : \E i \in AllIds(k) :
    /\ r = <<k, i>>
    /\ \A p \in live : p.kind = k /\ p.id = i => p.dev = o.dev \/ k = "surfaces"

ShapeInv == \A o \in live : HasName(o) /\ HasDevice(o) /\ HasParent(o) /\ HasRefs(o)

\* A name that resolves denotes the object it was given for, under its owner.
NameInv ==
  \A k \in Kinds \ {"queues"} : \A i \in AllIds(k) :
    tables[k][i].h # Null =>
      \/ Loose(k, i)
      \/ \E o \in live : /\ o.kind = k /\ o.id = i /\ o.h = tables[k][i].h
                         /\ OwnerIs(o, tables[k][i].owner)

\* An object that was given a name has it.
NamedInv ==
  \A o \in live : o.id # Null /\ o.kind # "queues" =>
    \/ Excused(o)
    \/ tables[o.kind][o.id].h = o.h /\ OwnerIs(o, tables[o.kind][o.id].owner)

\* A device in a teardown is there, without its name.
DoingInv ==
  doing.h # Null => /\ DeviceIs(doing.id, doing.h)
                    /\ doing.id # Null /\ tables["devices"][doing.id].h = Null

\* Names of queues, which may be asked for again but are given out once.
QueueInv ==
  /\ \A i \in AllIds("queues") : tables["queues"][i].h # Null =>
       \E o \in live : /\ o.kind = "queues" /\ o.h = tables["queues"][i].h
                       /\ DeviceIs(o.dev, tables["queues"][i].owner)
  /\ \A i, j \in AllIds("queues") :
       tables["queues"][i].h # Null /\ tables["queues"][i] = tables["queues"][j] => i = j

\* memory_metadata and the two *_owners maps.
RegInv ==
  \A k \in RegisteredKinds :
    /\ \A i \in AllIds(k) : tables[k][i].h # Null =>
         i \in DOMAIN registered[k]
           /\ registered[k][i] = [owner |-> tables[k][i].owner, h |-> tables[k][i].h]
    /\ \A i \in DOMAIN registered[k] :
         tables[k][i].h # Null \/ (doing.h # Null /\ registered[k][i].owner = doing.h)

\* descriptor_set_owners.
SetInv ==
  /\ \A o \in live : o.kind = "descriptor_sets" =>
       /\ o.id \in DOMAIN descriptor_set_owners
       /\ DeviceIs(o.dev, descriptor_set_owners[o.id].device)
       /\ \E p \in live : /\ p.kind = "descriptor_pools" /\ o.parent = <<p.kind, p.id>>
                          /\ p.h = descriptor_set_owners[o.id].pool
  /\ \A i \in DOMAIN descriptor_set_owners :
       /\ descriptor_set_owners[i] = [device |-> descriptor_set_owners[i].device,
                                      pool |-> descriptor_set_owners[i].pool]
       /\ \/ \E o \in live : o.kind = "descriptor_sets" /\ o.id = i
          \/ doing.h # Null /\ descriptor_set_owners[i].device = doing.h

\* command_buffer_devices.
BufferInv ==
  \A o \in live : o.kind = "command_buffers" =>
    o.h \in DOMAIN command_buffer_devices /\ DeviceIs(o.dev, command_buffer_devices[o.h])

\* swapchain_devices and swapchain_surfaces.
ChainInv ==
  /\ \A o \in live : o.kind = "swapchains" =>
       o.h \in DOMAIN swapchain_devices /\ DeviceIs(o.dev, swapchain_devices[o.h])
  /\ \A c \in DOMAIN swapchain_devices :
       \/ \E o \in live : o.kind = "swapchains" /\ o.h = c
       \/ doing.h # Null /\ swapchain_devices[c] = doing.h
  /\ DOMAIN swapchain_surfaces = DOMAIN swapchain_devices

\* swapchain_image_ids: the images of a swapchain that were named, and no other.
ImageInv ==
  /\ \A o \in live : o.kind = "images" /\ o.id # Null /\ o.parent # <<>> =>
       o.id \in ImageIdsOf(o.parent[2])
  /\ \A s \in DOMAIN swapchain_image_ids : \A i \in ImageIdsOf(s) :
       /\ i \in AllIds("images")
       /\ \A o \in live : o.kind = "images" /\ o.id = i => o.parent = <<"swapchains", s>>
  /\ \A o \in live : o.kind = "swapchains" =>
       \E c \in live : c.kind = "images" /\ c.parent = <<"swapchains", o.id>>

ObjectInv ==
  UniqueInv /\ ShapeInv /\ NameInv /\ NamedInv /\ DoingInv /\ QueueInv

MapInv == RegInv /\ SetInv /\ BufferInv /\ ChainInv /\ ImageInv

ObjectsInv ==
  /\ TypeInv
  /\ faults = {}
  /\ doing.at = "ended" => live = {}
  /\ doing.at # "ended" => ObjectInv /\ MapInv

------------------------------------------------------------------------------
(* Tables, handles and pairs. *)

LEMMA Consts == Null = 0 /\ Handles \subseteq Nat /\ Null \notin Handles
  BY HandlesAssumption DEF Null

LEMMA Pairs ==
  /\ \A a, b : <<a, b>> # <<>>
  /\ \A a, b, c, d : <<a, b>> = <<c, d>> => a = c /\ b = d
  /\ \A a, b : <<a, b>>[1] = a /\ <<a, b>>[2] = b
<1>1. ASSUME NEW a, NEW b PROVE <<a, b>> # <<>>
  <2>1. Len(<<a, b>>) = 2 /\ Len(<<>>) = 0
    OBVIOUS
  <2>2. QED
    BY <2>1
<1>2. QED
  BY <1>1

LEMMA LeastOf ==
  ASSUME NEW S \in SUBSET Nat, S # {}
  PROVE  Min(S) \in S /\ \A x \in S : Min(S) <= x
<1>1. PICK R : R = {p \in Nat \X Nat : p[1] < p[2]}
  OBVIOUS
<1>2. IsWellFoundedOn(R, Nat)
  BY <1>1, NatLessThanWellFounded DEF OpToRel
<1>3. PICK m \in S : \A x \in S : ~(<<x, m>> \in R)
  BY <1>2, WFMin
<1>4. \A x \in S : ~(x < m)
  BY <1>1, <1>3
<1>5. \A x \in S : m <= x
  BY <1>4
<1>6. QED
  BY <1>5 DEF Min

LEMMA KindFacts ==
  /\ "devices" \in Kinds /\ "queues" \in Kinds /\ "command_buffers" \in Kinds
  /\ "pipelines" \in Kinds /\ "descriptor_pools" \in Kinds /\ "descriptor_sets" \in Kinds
  /\ "fences" \in Kinds /\ "semaphores" \in Kinds /\ "surfaces" \in Kinds
  /\ "swapchains" \in Kinds /\ "images" \in Kinds /\ "command_pools" \in Kinds
  /\ "memories" \in Kinds
  /\ RegisteredKinds \subseteq Kinds /\ PlainKinds \subseteq Kinds
  BY DEF Kinds, PlainKinds, RegisteredKinds

LEMMA SlotFacts ==
  ASSUME StateType, NEW k \in Kinds
  PROVE  /\ tables[k] \in Seq(Slot) /\ Len(tables[k]) \in Nat
         /\ DOMAIN tables[k] = AllIds(k) /\ AllIds(k) \subseteq Nat \ {0}
         /\ \A i \in AllIds(k) : tables[k][i] \in Slot
         /\ \A i \in AllIds(k) : /\ tables[k][i].h \in Handles \cup {Null}
                                 /\ tables[k][i].owner \in Handles \cup {Null}
<1>1. tables[k] \in Seq(Slot)
  BY DEF StateType
<1>2. /\ Len(tables[k]) \in Nat /\ DOMAIN tables[k] = 1 .. Len(tables[k])
      /\ \A i \in 1 .. Len(tables[k]) : tables[k][i] \in Slot
  BY <1>1
<1>3. QED
  BY <1>1, <1>2 DEF AllIds, Ids, Slot

\* Table::add gives the next id and leaves the others alone.
Added(u, t, k, e, own) ==
  /\ u \in [Kinds -> Seq(Slot)] /\ Len(t[k]) \in Nat
  /\ Len(u[k]) = Len(t[k]) + 1
  /\ \A i \in 1 .. Len(t[k]) : u[k][i] = t[k][i]
  /\ u[k][Len(t[k]) + 1] = [h |-> e, owner |-> own]
  /\ \A x \in Kinds : x # k => u[x] = t[x]

LEMMA AddFacts ==
  ASSUME NEW t \in [Kinds -> Seq(Slot)], NEW k \in Kinds, NEW e \in Handles \cup {Null},
         NEW own \in Handles \cup {Null}
  PROVE  Added(Add(t, k, e, own), t, k, e, own)
<1>1. [h |-> e, owner |-> own] \in Slot /\ t[k] \in Seq(Slot)
  BY DEF Slot
<1>2. Add(t, k, e, own) = [t EXCEPT ![k] = Append(t[k], [h |-> e, owner |-> own])]
  BY DEF Add
<1>3. QED
  BY <1>1, <1>2 DEF Added

\* take() empties the slots of ids and leaves the others alone.
Took(u, t, k, ids) ==
  /\ u \in [Kinds -> Seq(Slot)] /\ Len(t[k]) \in Nat
  /\ Len(u[k]) = Len(t[k])
  /\ \A i \in 1 .. Len(t[k]) : i \in ids => u[k][i] = Gone
  /\ \A i \in 1 .. Len(t[k]) : i \notin ids => u[k][i] = t[k][i]
  /\ \A x \in Kinds : x # k => u[x] = t[x]

LEMMA TakeFacts ==
  ASSUME NEW t \in [Kinds -> Seq(Slot)], NEW k \in Kinds, NEW ids
  PROVE  Took(Take(t, k, ids), t, k, ids)
<1>1. t[k] \in Seq(Slot) /\ Len(t[k]) \in Nat /\ DOMAIN t[k] = 1 .. Len(t[k])
  OBVIOUS
<1>2. Gone \in Slot
  BY DEF Gone, Slot
<1>. DEFINE s == [i \in 1 .. Len(t[k]) |-> IF i \in ids THEN Gone ELSE t[k][i]]
<1>3. Take(t, k, ids) = [t EXCEPT ![k] = s]
  BY <1>1 DEF Take, Gone
<1>4. s \in Seq(Slot) /\ Len(s) = Len(t[k])
  <2>1. \A i \in 1 .. Len(t[k]) : s[i] \in Slot
    BY <1>1, <1>2
  <2>2. s \in [1 .. Len(t[k]) -> Slot]
    BY <2>1
  <2>3. QED
    BY <1>1, <2>2
<1>5. QED
  BY <1>1, <1>3, <1>4 DEF Took

------------------------------------------------------------------------------
(* What a creation does to names and objects. *)

ShapeOK(o) == HasName(o) /\ HasDevice(o) /\ HasParent(o) /\ HasRefs(o)

\* The names given out so far still stand.
Kept ==
  \A k \in Kinds : /\ Len(tables[k]) <= Len(tables'[k])
                   /\ \A i \in AllIds(k) : tables'[k][i] = tables[k][i]

\* New objects that share neither a handle nor a name with others.
Fresh(new) ==
  /\ \A n \in new : \A o \in live : n.kind = o.kind => n.h # o.h
  /\ \A n \in new : n.id # Null =>
       IF n.kind = "queues" THEN n.id > Len(tables["devices"]) ELSE n.id > Len(tables[n.kind])
  /\ \A n, m \in new : n.kind = m.kind /\ (n.h = m.h \/ (n.id = m.id /\ n.id # Null)) => n = m

\* The new objects and the new names describe each other.
Introduced(new) ==
  /\ \A n \in new : ShapeOK(n)'
  /\ \A n \in new : n.id # Null /\ n.kind # "queues" =>
       tables'[n.kind][n.id].h = n.h /\ OwnerIs(n, tables[n.kind][n.id].owner)'
  /\ \A k \in Kinds \ {"queues"} : \A i \in AllIds(k)' \ AllIds(k) : tables'[k][i].h # Null =>
       \E n \in new : /\ n.kind = k /\ n.id = i /\ n.h = tables'[k][i].h
                      /\ OwnerIs(n, tables[k][i].owner)'
  /\ tables'["queues"] = tables["queues"] \/ QueueInv'

Grows(new) ==
  /\ doing.h = Null /\ UNCHANGED <<doing, orphaned>>
  /\ live' = live \cup new
  /\ Kept /\ Fresh(new) /\ Introduced(new)

LEMMA KeptIds ==
  ASSUME StateType, StateType', Kept
  PROVE  \A k \in Kinds : AllIds(k) \subseteq AllIds(k)'
<1>1. \A k \in Kinds : Len(tables[k]) \in Nat /\ Len(tables'[k]) \in Nat
  <2>1. \A k \in Kinds : Len(tables[k]) \in Nat
    BY SlotFacts
  <2>2. \A k \in Kinds : tables'[k] \in Seq(Slot)
    BY DEF StateType
  <2>3. QED
    BY <2>1, <2>2
<1>2. QED
  BY <1>1 DEF Kept, AllIds, Ids

\* Devices and their owners are not affected by new objects.
LEMMA GrowsOwner ==
  ASSUME NEW new, live' = live \cup new
  PROVE  /\ \A d, h : DeviceIs(d, h) => DeviceIs(d, h)'
         /\ \A o, own : OwnerIs(o, own) => OwnerIs(o, own)'
  BY DEF DeviceIs, OwnerIs

\* The handles and names of different objects stay different.
LEMMA GrowsUnique ==
  ASSUME StateType, StateType', ObjectInv, NEW new, Grows(new)
  PROVE  UniqueInv'
<1>1. live' = live \cup new /\ Fresh(new)
  BY DEF Grows
<1>2. \A o, p \in live' : o.kind = p.kind /\ o.h = p.h => o = p
  BY <1>1 DEF Fresh, UniqueInv, ObjectInv
<1>3. ASSUME NEW o \in live, NEW n \in new, o.kind = n.kind, o.id = n.id, o.id # Null
      PROVE  FALSE
  <2>1. HasName(o) /\ HasDevice(o) /\ IsObject(o)
    BY DEF ObjectInv, ShapeInv, StateType
  <2>2. IF o.kind = "queues" THEN o.id > Len(tables["devices"]) ELSE o.id > Len(tables[o.kind])
    BY <1>1, <1>3 DEF Fresh
  <2>3. CASE o.kind = "queues"
    <3>1. PICK p \in live : p.kind = "devices" /\ p.id = o.id
      BY <1>3, <2>1, <2>3 DEF HasName, HasDevice
    <3>2. p.id <= Len(tables["devices"]) /\ IsObject(p)
      BY <3>1 DEF ObjectInv, ShapeInv, StateType, HasName
    <3>3. Len(tables["devices"]) \in Nat
      BY SlotFacts, KindFacts
    <3>4. QED
      BY <2>2, <2>3, <3>1, <3>2, <3>3 DEF IsObject
  <2>4. CASE o.kind # "queues"
    <3>1. Len(tables[o.kind]) \in Nat
      BY <2>1, SlotFacts DEF IsObject
    <3>2. QED
      BY <2>1, <2>2, <2>4, <3>1 DEF HasName, IsObject
  <2>5. QED
    BY <2>3, <2>4
<1>4. \A o, p \in live' : o.kind = p.kind /\ o.id = p.id /\ o.id # Null => o = p
  BY <1>1, <1>3 DEF Fresh, UniqueInv, ObjectInv
<1>5. QED
  BY <1>2, <1>4 DEF UniqueInv

LEMMA RefersKinds == \A k : Refers(k) \subseteq Kinds \ {"queues", "devices", "swapchains"}
  BY DEF Refers, Kinds, PlainKinds, RegisteredKinds

LEMMA GrowsShape ==
  ASSUME StateType, StateType', ObjectInv, NEW new, Grows(new)
  PROVE  ShapeInv'
<1>1. live' = live \cup new /\ Fresh(new) /\ Kept /\ Introduced(new)
  BY DEF Grows
<1>2. SUFFICES ASSUME NEW o \in live PROVE ShapeOK(o)'
  BY <1>1 DEF Introduced, ShapeInv, ShapeOK
<1>3. ShapeOK(o) /\ IsObject(o)
  BY DEF ObjectInv, ShapeInv, ShapeOK, StateType
<1>4. HasName(o)'
  <2>1. CASE o.kind = "queues"
    BY <1>3, <2>1 DEF ShapeOK, HasName
  <2>2. CASE o.kind # "queues"
    <3>1. Len(tables[o.kind]) <= Len(tables'[o.kind]) /\ Len(tables[o.kind]) \in Nat
      BY <1>1, <1>3, SlotFacts DEF Kept, IsObject
    <3>2. tables'[o.kind] \in Seq(Slot)
      BY <1>3 DEF StateType, IsObject
    <3>3. Len(tables'[o.kind]) \in Nat /\ o.id <= Len(tables[o.kind]) /\ o.id \in Nat
      BY <1>3, <2>2, <3>2 DEF ShapeOK, HasName, IsObject
    <3>4. o.id <= Len(tables'[o.kind])
      BY <3>1, <3>3
    <3>5. QED
      BY <1>3, <2>2, <3>4 DEF ShapeOK, HasName
  <2>3. QED
    BY <2>1, <2>2
<1>5. HasDevice(o)'
  BY <1>1, <1>3 DEF ShapeOK, HasDevice
<1>6. HasParent(o)'
  <2>1. CASE o.parent = <<>>
    BY <1>3, <2>1 DEF ShapeOK, HasParent
  <2>2. CASE o.parent # <<>>
    <3>1. PICK p \in live : /\ o.parent = <<p.kind, p.id>> /\ <<o.kind, p.kind>> \in Parentage
                            /\ IF o.kind = "queues" THEN p.id = o.dev ELSE p.dev = o.dev
      BY <1>3, <2>2 DEF ShapeOK, HasParent
    <3>2. p \in live'
      BY <1>1
    <3>3. QED
      BY <2>2, <3>1, <3>2 DEF HasParent
  <2>3. QED
    BY <2>1, <2>2
<1>7. HasRefs(o)'
  <2>1. SUFFICES ASSUME NEW r \in o.refs
                 PROVE  \E k \in Refers(o.kind) : \E i \in AllIds(k)' :
                          /\ r = <<k, i>>
                          /\ \A p \in live' : p.kind = k /\ p.id = i => p.dev = o.dev \/ k = "surfaces"
    BY DEF HasRefs
  <2>2. PICK k \in Refers(o.kind) : \E i \in AllIds(k) :
          /\ r = <<k, i>>
          /\ \A p \in live : p.kind = k /\ p.id = i => p.dev = o.dev \/ k = "surfaces"
    BY <1>3 DEF ShapeOK, HasRefs
  <2>3. PICK i \in AllIds(k) :
          /\ r = <<k, i>>
          /\ \A p \in live : p.kind = k /\ p.id = i => p.dev = o.dev \/ k = "surfaces"
    BY <2>2
  <2>4. k \in Kinds /\ k # "queues"
    BY RefersKinds
  <2>5. i \in AllIds(k)' /\ i \in 1 .. Len(tables[k]) /\ Len(tables[k]) \in Nat
    BY <1>1, <2>4, KeptIds, SlotFacts DEF AllIds, Ids
  <2>6. ASSUME NEW p \in new, p.kind = k, p.id = i PROVE FALSE
    BY <1>1, <2>4, <2>5, <2>6, Consts DEF Fresh
  <2>7. QED
    BY <1>1, <2>3, <2>5, <2>6
<1>8. QED
  BY <1>4, <1>5, <1>6, <1>7 DEF ShapeOK

LEMMA GrowsNames ==
  ASSUME StateType, StateType', ObjectInv, NEW new, Grows(new)
  PROVE  NameInv'
<1>1. /\ live' = live \cup new /\ Kept /\ Introduced(new)
      /\ doing' = doing /\ orphaned' = orphaned /\ doing.h = Null
  BY DEF Grows
<1>2. SUFFICES ASSUME NEW k \in Kinds \ {"queues"}, NEW i \in AllIds(k)', tables'[k][i].h # Null
               PROVE  \/ Loose(k, i)'
                      \/ \E o \in live' : /\ o.kind = k /\ o.id = i /\ o.h = tables'[k][i].h
                                          /\ OwnerIs(o, tables[k][i].owner)'
  BY DEF NameInv
<1>3. CASE i \in AllIds(k)
  <2>1. tables'[k][i] = tables[k][i]
    BY <1>1, <1>3 DEF Kept
  <2>2. \/ Loose(k, i)
        \/ \E o \in live : /\ o.kind = k /\ o.id = i /\ o.h = tables[k][i].h
                           /\ OwnerIs(o, tables[k][i].owner)
    BY <1>2, <1>3, <2>1 DEF ObjectInv, NameInv
  <2>3. Loose(k, i) => Loose(k, i)'
    BY <1>1 DEF Loose
  <2>4. \A o : OwnerIs(o, tables[k][i].owner) => OwnerIs(o, tables[k][i].owner)'
    BY <1>1, <2>1 DEF OwnerIs, DeviceIs
  <2>5. QED
    BY <1>1, <2>1, <2>2, <2>3, <2>4
<1>4. CASE i \notin AllIds(k)
  BY <1>1, <1>2, <1>4 DEF Introduced
<1>5. QED
  BY <1>3, <1>4

LEMMA GrowsNamed ==
  ASSUME StateType, StateType', ObjectInv, NEW new, Grows(new)
  PROVE  NamedInv'
<1>1. /\ live' = live \cup new /\ Kept /\ Introduced(new)
      /\ doing' = doing /\ orphaned' = orphaned /\ doing.h = Null
  BY DEF Grows
<1>2. SUFFICES ASSUME NEW o \in live, o.id # Null, o.kind # "queues"
               PROVE  tables'[o.kind][o.id].h = o.h /\ OwnerIs(o, tables[o.kind][o.id].owner)'
  BY <1>1 DEF NamedInv, Introduced
<1>3. o.id \in AllIds(o.kind) /\ o.kind \in Kinds
  <2>1. HasName(o) /\ IsObject(o)
    BY DEF ObjectInv, ShapeInv, StateType
  <2>2. Len(tables[o.kind]) \in Nat
    BY <2>1, SlotFacts DEF IsObject
  <2>3. QED
    BY <1>2, <2>1, <2>2, Consts DEF HasName, IsObject, AllIds, Ids
<1>4. tables[o.kind][o.id].h = o.h /\ OwnerIs(o, tables[o.kind][o.id].owner)
  BY <1>1, <1>2 DEF ObjectInv, NamedInv, Excused
<1>5. tables'[o.kind][o.id] = tables[o.kind][o.id]
  BY <1>1, <1>3 DEF Kept
<1>6. OwnerIs(o, tables[o.kind][o.id].owner)'
  BY <1>1, <1>4, <1>5 DEF OwnerIs, DeviceIs
<1>7. QED
  BY <1>4, <1>5, <1>6

LEMMA GrowsQueues ==
  ASSUME StateType, StateType', ObjectInv, NEW new, Grows(new)
  PROVE  QueueInv'
<1>1. live' = live \cup new /\ (tables'["queues"] = tables["queues"] \/ QueueInv')
  BY DEF Grows, Introduced
<1>2. \A d, h : DeviceIs(d, h) => DeviceIs(d, h)'
  BY <1>1, GrowsOwner
<1>3. SUFFICES ASSUME tables'["queues"] = tables["queues"] PROVE QueueInv'
  BY <1>1
<1>4. QED
  BY <1>1, <1>2, <1>3 DEF ObjectInv, QueueInv, AllIds, Ids

\* A creation keeps the correspondence of names and objects.
LEMMA GrowsKeeps ==
  ASSUME StateType, StateType', ObjectInv, NEW new, Grows(new)
  PROVE  ObjectInv'
<1>1. DoingInv'
  BY DEF Grows, DoingInv
<1>2. QED
  BY <1>1, GrowsUnique, GrowsShape, GrowsNames, GrowsNamed, GrowsQueues DEF ObjectInv

------------------------------------------------------------------------------
(* What a destruction does to names and objects. *)

\* No name is given out, and those that change are taken.
Taken ==
  \A k \in Kinds : /\ Len(tables'[k]) = Len(tables[k])
                   /\ \A i \in AllIds(k) : tables'[k][i] \in {tables[k][i], Gone}

\* What stays keeps its device and its parent.
Closed ==
  /\ live' \subseteq live
  /\ \A o \in live' : \A p \in live :
       (p.kind = "devices" /\ p.id = o.dev) \/ o.parent = <<p.kind, p.id>> => p \in live'

\* A name that still resolves has its object, unless it is allowed not to.
NamesKept ==
  /\ \A k \in Kinds \ {"queues"} : \A i \in AllIds(k) :
       tables'[k][i].h # Null /\ Loose(k, i) => Loose(k, i)'
  /\ \A o \in live \ live' :
       o.kind # "queues" /\ o.id # Null /\ tables'[o.kind][o.id].h # Null => Loose(o.kind, o.id)'
  /\ \A i \in AllIds("queues") : \A o \in live :
       tables'["queues"][i].h # Null /\ o.kind = "queues" /\ o.h = tables'["queues"][i].h => o \in live'

\* An object that is left has its name, unless it is allowed not to.
ObjectsKept ==
  \A o \in live' : o.kind # "queues" /\ o.id # Null =>
    Excused(o)' \/ (tables'[o.kind][o.id] = tables[o.kind][o.id] /\ ~ Excused(o))

Shrinks == Taken /\ Closed /\ NamesKept /\ ObjectsKept /\ DoingInv'

LEMMA TakenIds ==
  ASSUME Taken
  PROVE  \A k \in Kinds : AllIds(k)' = AllIds(k)
  BY DEF Taken, AllIds, Ids

LEMMA ShrinksOwner ==
  ASSUME Closed
  PROVE  /\ \A o \in live' : \A h : DeviceIs(o.dev, h) => DeviceIs(o.dev, h)'
         /\ \A o \in live' : \A own : OwnerIs(o, own) => OwnerIs(o, own)'
<1>1. \A o \in live' : \A h : DeviceIs(o.dev, h) => DeviceIs(o.dev, h)'
  BY DEF DeviceIs, Closed
<1>2. QED
  BY <1>1 DEF OwnerIs

\* An object with a name has it in the table of its kind.
LEMMA NameInTable ==
  ASSUME StateType, ObjectInv, NEW o \in live, o.id # Null, o.kind # "queues"
  PROVE  o.kind \in Kinds /\ o.id \in AllIds(o.kind)
<1>1. HasName(o) /\ IsObject(o)
  BY DEF ObjectInv, ShapeInv, StateType
<1>2. Len(tables[o.kind]) \in Nat
  BY <1>1, SlotFacts DEF IsObject
<1>3. QED
  BY <1>1, <1>2, Consts DEF HasName, IsObject, AllIds, Ids

LEMMA ShrinksShape ==
  ASSUME StateType, ObjectInv, Shrinks
  PROVE  ShapeInv'
<1>1. Taken /\ Closed
  BY DEF Shrinks
<1>2. SUFFICES ASSUME NEW o \in live' PROVE ShapeOK(o)'
  BY DEF ShapeInv, ShapeOK
<1>3. o \in live /\ ShapeOK(o) /\ IsObject(o)
  BY <1>1 DEF Closed, ObjectInv, ShapeInv, ShapeOK, StateType
<1>4. HasName(o)'
  <2>1. Len(tables'[o.kind]) = Len(tables[o.kind])
    BY <1>1, <1>3 DEF Taken, IsObject
  <2>2. QED
    BY <1>3, <2>1 DEF ShapeOK, HasName
<1>5. HasDevice(o)'
  BY <1>1, <1>3 DEF ShapeOK, HasDevice, Closed
<1>6. HasParent(o)'
  <2>1. CASE o.parent = <<>>
    BY <1>3, <2>1 DEF ShapeOK, HasParent
  <2>2. CASE o.parent # <<>>
    <3>1. PICK p \in live : /\ o.parent = <<p.kind, p.id>> /\ <<o.kind, p.kind>> \in Parentage
                            /\ IF o.kind = "queues" THEN p.id = o.dev ELSE p.dev = o.dev
      BY <1>3, <2>2 DEF ShapeOK, HasParent
    <3>2. p \in live'
      BY <1>1, <3>1 DEF Closed
    <3>3. QED
      BY <2>2, <3>1, <3>2 DEF HasParent
  <2>3. QED
    BY <2>1, <2>2
<1>7. HasRefs(o)'
  <2>1. \A k \in Refers(o.kind) : AllIds(k)' = AllIds(k)
    BY <1>1, TakenIds, RefersKinds
  <2>2. HasRefs(o) /\ live' \subseteq live
    BY <1>1, <1>3 DEF ShapeOK, Closed
  <2>3. QED
    BY <2>1, <2>2 DEF HasRefs
<1>8. QED
  BY <1>4, <1>5, <1>6, <1>7 DEF ShapeOK

LEMMA ShrinksNames ==
  ASSUME StateType, ObjectInv, Shrinks
  PROVE  NameInv'
<1>1. Taken /\ Closed /\ NamesKept
  BY DEF Shrinks
<1>2. SUFFICES ASSUME NEW k \in Kinds \ {"queues"}, NEW i \in AllIds(k)', tables'[k][i].h # Null
               PROVE  \/ Loose(k, i)'
                      \/ \E o \in live' : /\ o.kind = k /\ o.id = i /\ o.h = tables'[k][i].h
                                          /\ OwnerIs(o, tables[k][i].owner)'
  BY DEF NameInv
<1>3. i \in AllIds(k) /\ tables'[k][i] = tables[k][i]
  BY <1>1, <1>2, TakenIds DEF Taken, Gone
<1>4. CASE Loose(k, i)
  BY <1>1, <1>2, <1>3, <1>4 DEF NamesKept
<1>5. CASE ~ Loose(k, i)
  <2>1. PICK o \in live : /\ o.kind = k /\ o.id = i /\ o.h = tables[k][i].h
                          /\ OwnerIs(o, tables[k][i].owner)
    BY <1>2, <1>3, <1>5 DEF ObjectInv, NameInv
  <2>2. CASE o \in live'
    <3>1. OwnerIs(o, tables[k][i].owner)'
      BY <1>1, <1>3, <2>1, <2>2 DEF OwnerIs, DeviceIs, Closed
    <3>2. QED
      BY <1>3, <2>1, <2>2, <3>1
  <2>3. CASE o \notin live'
    <3>1. i # Null
      BY <1>3, SlotFacts, Consts
    <3>2. QED
      BY <1>1, <1>2, <2>1, <2>3, <3>1 DEF NamesKept
  <2>4. QED
    BY <2>2, <2>3
<1>6. QED
  BY <1>4, <1>5

LEMMA ShrinksNamed ==
  ASSUME StateType, ObjectInv, Shrinks
  PROVE  NamedInv'
<1>1. Closed /\ ObjectsKept
  BY DEF Shrinks
<1>2. SUFFICES ASSUME NEW o \in live', o.id # Null, o.kind # "queues", ~ Excused(o)'
               PROVE  tables'[o.kind][o.id].h = o.h /\ OwnerIs(o, tables[o.kind][o.id].owner)'
  BY DEF NamedInv
<1>3. o \in live /\ tables'[o.kind][o.id] = tables[o.kind][o.id] /\ ~ Excused(o)
  BY <1>1, <1>2 DEF Closed, ObjectsKept
<1>4. tables[o.kind][o.id].h = o.h /\ OwnerIs(o, tables[o.kind][o.id].owner)
  BY <1>2, <1>3 DEF ObjectInv, NamedInv
<1>5. OwnerIs(o, tables[o.kind][o.id].owner)'
  BY <1>1, <1>3, <1>4 DEF OwnerIs, DeviceIs, Closed
<1>6. QED
  BY <1>3, <1>4, <1>5

LEMMA ShrinksQueues ==
  ASSUME StateType, ObjectInv, Shrinks
  PROVE  QueueInv'
<1>1. Taken /\ Closed /\ NamesKept
  BY DEF Shrinks
<1>2. AllIds("queues")' = AllIds("queues")
  BY <1>1, TakenIds, KindFacts
<1>3. \A i \in AllIds("queues") : tables'["queues"][i].h # Null =>
        tables'["queues"][i] = tables["queues"][i]
  BY <1>1, KindFacts DEF Taken, Gone
<1>4. ASSUME NEW i \in AllIds("queues"), tables'["queues"][i].h # Null
      PROVE  \E o \in live' : /\ o.kind = "queues" /\ o.h = tables'["queues"][i].h
                              /\ DeviceIs(o.dev, tables["queues"][i].owner)'
  <2>1. PICK o \in live : /\ o.kind = "queues" /\ o.h = tables["queues"][i].h
                          /\ DeviceIs(o.dev, tables["queues"][i].owner)
    BY <1>3, <1>4 DEF ObjectInv, QueueInv
  <2>2. o \in live'
    BY <1>1, <1>3, <1>4, <2>1 DEF NamesKept
  <2>3. DeviceIs(o.dev, tables["queues"][i].owner)'
    BY <1>1, <1>3, <1>4, <2>1, <2>2 DEF DeviceIs, Closed
  <2>4. QED
    BY <1>3, <1>4, <2>1, <2>2, <2>3
<1>5. \A i, j \in AllIds("queues") :
        tables'["queues"][i].h # Null /\ tables'["queues"][i] = tables'["queues"][j] => i = j
  BY <1>3 DEF ObjectInv, QueueInv
<1>6. QED
  BY <1>2, <1>4, <1>5 DEF QueueInv

\* A destruction keeps the correspondence of names and objects.
LEMMA ShrinksKeeps ==
  ASSUME StateType, ObjectInv, Shrinks
  PROVE  ObjectInv'
<1>1. UniqueInv'
  BY DEF Shrinks, Closed, ObjectInv, UniqueInv
<1>2. QED
  BY <1>1, ShrinksShape, ShrinksNames, ShrinksNamed, ShrinksQueues DEF ObjectInv, Shrinks

------------------------------------------------------------------------------
(* The maps, where a handler leaves them alone. *)

LEMMA MapTypes ==
  ASSUME \A k \in Kinds : AllIds(k) \subseteq AllIds(k)'
  PROVE  /\ RegType /\ registered' = registered => RegType'
         /\ SetType /\ descriptor_set_owners' = descriptor_set_owners => SetType'
         /\ ChainType /\ UNCHANGED <<swapchain_image_ids, swapchain_devices>> => ChainType'
<1>1. RegType /\ registered' = registered => RegType'
  BY KindFacts DEF RegType, IsFn
<1>2. SetType /\ descriptor_set_owners' = descriptor_set_owners => SetType'
  BY KindFacts DEF SetType, IsFn
<1>3. ChainType /\ UNCHANGED <<swapchain_image_ids, swapchain_devices>> => ChainType'
  BY KindFacts DEF ChainType
<1>4. QED
  BY <1>1, <1>2, <1>3

LEMMA RegKept ==
  ASSUME RegInv, registered' = registered, doing' = doing \/ doing.h = Null,
         \A k \in RegisteredKinds : tables'[k] = tables[k]
  PROVE  RegInv'
  BY DEF RegInv, AllIds, Ids

LEMMA SetGrows ==
  ASSUME SetInv, descriptor_set_owners' = descriptor_set_owners, NEW new, Grows(new),
         \A n \in new : n.kind # "descriptor_sets"
  PROVE  SetInv'
<1>1. /\ live' = live \cup new /\ doing' = doing
      /\ \A d, h : DeviceIs(d, h) => DeviceIs(d, h)'
  BY GrowsOwner DEF Grows
<1>2. \A o \in live' : o.kind = "descriptor_sets" =>
       /\ o.id \in DOMAIN descriptor_set_owners
       /\ DeviceIs(o.dev, descriptor_set_owners[o.id].device)'
       /\ \E p \in live' : /\ p.kind = "descriptor_pools" /\ o.parent = <<p.kind, p.id>>
                          /\ p.h = descriptor_set_owners[o.id].pool
  <2>1. SUFFICES ASSUME NEW o \in live, o.kind = "descriptor_sets"
                 PROVE  /\ o.id \in DOMAIN descriptor_set_owners
                        /\ DeviceIs(o.dev, descriptor_set_owners[o.id].device)'
                        /\ \E p \in live' : /\ p.kind = "descriptor_pools" /\ o.parent = <<p.kind, p.id>>
                                            /\ p.h = descriptor_set_owners[o.id].pool
    BY <1>1
  <2>2. o.id \in DOMAIN descriptor_set_owners /\ DeviceIs(o.dev, descriptor_set_owners[o.id].device)
    BY <2>1 DEF SetInv
  <2>3. PICK p \in live : /\ p.kind = "descriptor_pools" /\ o.parent = <<p.kind, p.id>>
                          /\ p.h = descriptor_set_owners[o.id].pool
    BY <2>1 DEF SetInv
  <2>4. DeviceIs(o.dev, descriptor_set_owners[o.id].device)'
    BY <1>1, <2>2 DEF DeviceIs
  <2>5. QED
    BY <1>1, <2>2, <2>3, <2>4
<1>3. \A i \in DOMAIN descriptor_set_owners :
       /\ descriptor_set_owners[i] = [device |-> descriptor_set_owners[i].device,
                                      pool |-> descriptor_set_owners[i].pool]
       /\ \/ \E o \in live' : o.kind = "descriptor_sets" /\ o.id = i
          \/ doing'.h # Null /\ descriptor_set_owners[i].device = doing'.h
  BY <1>1 DEF SetInv
<1>4. QED
  BY <1>2, <1>3 DEF SetInv

LEMMA BufferGrows ==
  ASSUME BufferInv, command_buffer_devices' = command_buffer_devices, NEW new, Grows(new),
         \A n \in new : n.kind # "command_buffers"
  PROVE  BufferInv'
<1>1. live' = live \cup new
  BY DEF Grows
<1>2. ASSUME NEW o \in live, o.kind = "command_buffers"
      PROVE  /\ o.h \in DOMAIN command_buffer_devices
             /\ DeviceIs(o.dev, command_buffer_devices[o.h])'
  BY <1>1, <1>2 DEF BufferInv, DeviceIs
<1>3. QED
  BY <1>1, <1>2 DEF BufferInv

LEMMA ChainGrows ==
  ASSUME ChainInv, UNCHANGED <<swapchain_devices, swapchain_surfaces>>, NEW new, Grows(new),
         \A n \in new : n.kind # "swapchains"
  PROVE  ChainInv'
<1>1. live' = live \cup new /\ doing' = doing
  BY DEF Grows
<1>2. ASSUME NEW o \in live, o.kind = "swapchains"
      PROVE  /\ o.h \in DOMAIN swapchain_devices
             /\ DeviceIs(o.dev, swapchain_devices[o.h])'
  BY <1>1, <1>2 DEF ChainInv, DeviceIs
<1>3. \A c \in DOMAIN swapchain_devices :
       \/ \E o \in live' : o.kind = "swapchains" /\ o.h = c
       \/ doing'.h # Null /\ swapchain_devices[c] = doing'.h
  BY <1>1 DEF ChainInv
<1>4. QED
  BY <1>1, <1>2, <1>3 DEF ChainInv

LEMMA ImageGrows ==
  ASSUME StateType, StateType', ImageInv, swapchain_image_ids' = swapchain_image_ids,
         NEW new, Grows(new),
         \A n \in new : /\ n.kind # "swapchains"
                        /\ n.kind = "images" => n.parent = <<>> /\ n.id # Null
  PROVE  ImageInv'
<1>1. live' = live \cup new /\ Fresh(new) /\ Kept
  BY DEF Grows
<1>2. \A s : ImageIdsOf(s)' = ImageIdsOf(s)
  BY DEF ImageIdsOf
<1>3. \A o \in live' : o.kind = "images" /\ o.id # Null /\ o.parent # <<>> =>
        o.id \in ImageIdsOf(o.parent[2])
  BY <1>1 DEF ImageInv
<1>4. ASSUME NEW s \in DOMAIN swapchain_image_ids, NEW i \in ImageIdsOf(s)
      PROVE  /\ i \in AllIds("images")'
             /\ \A o \in live' : o.kind = "images" /\ o.id = i => o.parent = <<"swapchains", s>>
  <2>1. /\ i \in AllIds("images")
        /\ \A o \in live : o.kind = "images" /\ o.id = i => o.parent = <<"swapchains", s>>
    BY <1>4 DEF ImageInv
  <2>2. i \in 1 .. Len(tables["images"]) /\ Len(tables["images"]) \in Nat
    BY <2>1, SlotFacts, KindFacts DEF AllIds, Ids
  <2>3. \A n \in new : n.kind = "images" => n.id > Len(tables["images"])
    BY <1>1 DEF Fresh
  <2>4. \A n \in new : n.kind = "images" => n.id # i
    BY <2>2, <2>3
  <2>5. i \in AllIds("images")'
    BY <1>1, <2>1, KeptIds, KindFacts
  <2>6. QED
    BY <1>1, <2>1, <2>4, <2>5
<1>5. \A o \in live' : o.kind = "swapchains" =>
       \E c \in live' : c.kind = "images" /\ c.parent = <<"swapchains", o.id>>
  BY <1>1 DEF ImageInv
<1>6. QED
  BY <1>2, <1>3, <1>4, <1>5 DEF ImageInv

LEMMA SetShrinks ==
  ASSUME SetInv, descriptor_set_owners' = descriptor_set_owners, Closed,
         doing' = doing \/ doing.h = Null,
         \A o \in live \ live' : o.kind = "descriptor_sets" =>
           doing'.h # Null /\ descriptor_set_owners[o.id].device = doing'.h
  PROVE  SetInv'
<1>1. ASSUME NEW o \in live', o.kind = "descriptor_sets"
      PROVE  /\ o.id \in DOMAIN descriptor_set_owners
             /\ DeviceIs(o.dev, descriptor_set_owners[o.id].device)'
             /\ \E p \in live' : /\ p.kind = "descriptor_pools" /\ o.parent = <<p.kind, p.id>>
                                 /\ p.h = descriptor_set_owners[o.id].pool
  <2>1. o \in live
    BY DEF Closed
  <2>2. o.id \in DOMAIN descriptor_set_owners /\ DeviceIs(o.dev, descriptor_set_owners[o.id].device)
    BY <1>1, <2>1 DEF SetInv
  <2>3. PICK p \in live : /\ p.kind = "descriptor_pools" /\ o.parent = <<p.kind, p.id>>
                          /\ p.h = descriptor_set_owners[o.id].pool
    BY <1>1, <2>1 DEF SetInv
  <2>4. DeviceIs(o.dev, descriptor_set_owners[o.id].device)'
    BY <2>2 DEF DeviceIs, Closed
  <2>5. p \in live'
    BY <2>3 DEF Closed
  <2>6. QED
    BY <2>2, <2>3, <2>4, <2>5
<1>2. ASSUME NEW i \in DOMAIN descriptor_set_owners
      PROVE  \/ \E o \in live' : o.kind = "descriptor_sets" /\ o.id = i
             \/ doing'.h # Null /\ descriptor_set_owners[i].device = doing'.h
  BY <1>2 DEF SetInv
<1>3. \A i \in DOMAIN descriptor_set_owners :
        descriptor_set_owners[i] = [device |-> descriptor_set_owners[i].device,
                                    pool |-> descriptor_set_owners[i].pool]
  BY DEF SetInv
<1>4. QED
  BY <1>1, <1>2, <1>3 DEF SetInv

LEMMA BufferShrinks ==
  ASSUME BufferInv, command_buffer_devices' = command_buffer_devices, Closed
  PROVE  BufferInv'
<1>1. ASSUME NEW o \in live', o.kind = "command_buffers"
      PROVE  /\ o.h \in DOMAIN command_buffer_devices
             /\ DeviceIs(o.dev, command_buffer_devices[o.h])'
  <2>1. o \in live
    BY DEF Closed
  <2>2. o.h \in DOMAIN command_buffer_devices /\ DeviceIs(o.dev, command_buffer_devices[o.h])
    BY <1>1, <2>1 DEF BufferInv
  <2>3. QED
    BY <2>2 DEF DeviceIs, Closed
<1>2. QED
  BY <1>1 DEF BufferInv

LEMMA ChainShrinks ==
  ASSUME ChainInv, UNCHANGED <<swapchain_devices, swapchain_surfaces>>, Closed,
         doing' = doing \/ doing.h = Null,
         \A o \in live \ live' : o.kind = "swapchains" =>
           doing'.h # Null /\ swapchain_devices[o.h] = doing'.h
  PROVE  ChainInv'
<1>1. ASSUME NEW o \in live', o.kind = "swapchains"
      PROVE  /\ o.h \in DOMAIN swapchain_devices
             /\ DeviceIs(o.dev, swapchain_devices[o.h])'
  <2>1. o \in live
    BY DEF Closed
  <2>2. o.h \in DOMAIN swapchain_devices /\ DeviceIs(o.dev, swapchain_devices[o.h])
    BY <1>1, <2>1 DEF ChainInv
  <2>3. QED
    BY <2>2 DEF DeviceIs, Closed
<1>2. ASSUME NEW c \in DOMAIN swapchain_devices
      PROVE  \/ \E o \in live' : o.kind = "swapchains" /\ o.h = c
             \/ doing'.h # Null /\ swapchain_devices[c] = doing'.h
  BY <1>2 DEF ChainInv
<1>3. QED
  BY <1>1, <1>2 DEF ChainInv

\* An image goes with its swapchain, or has none.
LEMMA ImageShrinks ==
  ASSUME ImageInv, swapchain_image_ids' = swapchain_image_ids, Closed, Taken,
         \A o \in live \ live' : \A c \in live' :
           o.kind = "images" /\ c.kind = "swapchains" => o.parent # <<"swapchains", c.id>>
  PROVE  ImageInv'
<1>1. \A s : ImageIdsOf(s)' = ImageIdsOf(s)
  BY DEF ImageIdsOf
<1>2. live' \subseteq live /\ AllIds("images")' = AllIds("images")
  BY TakenIds, KindFacts DEF Closed
<1>3. \A o \in live' : o.kind = "swapchains" =>
       \E c \in live' : c.kind = "images" /\ c.parent = <<"swapchains", o.id>>
  BY <1>2 DEF ImageInv
<1>4. QED
  BY <1>1, <1>2, <1>3 DEF ImageInv

------------------------------------------------------------------------------
(* The handlers that create. *)

LEMMA LiveDevice ==
  ASSUME StateType, ObjectInv, NEW d \in LiveDevices
  PROVE  /\ d \in Nat /\ d # Null /\ Native(d) \in Handles /\ Native(d) # Null
         /\ Native(d) = tables["devices"][d].h /\ d \in AllIds("devices")
         /\ DeviceIs(d, Native(d))
<1>1. /\ d \in AllIds("devices") /\ Native(d) = tables["devices"][d].h /\ Native(d) # Null
  BY DEF LiveDevices, Native, Get, AllIds
<1>2. d \in Nat \ {0} /\ tables["devices"][d].h \in Handles \cup {Null}
  BY <1>1, SlotFacts, KindFacts
<1>3. ~ Loose("devices", d)
  BY DEF Loose
<1>4. \E o \in live : o.kind = "devices" /\ o.id = d /\ o.h = tables["devices"][d].h
  BY <1>1, <1>3, KindFacts DEF ObjectInv, NameInv
<1>5. DeviceIs(d, Native(d))
  BY <1>1, <1>4 DEF DeviceIs
<1>6. QED
  BY <1>1, <1>2, <1>5, Consts

LEMMA HandleFacts ==
  ASSUME NEW k, HasHandle(k)
  PROVE  NewHandle(k) \in Handles /\ \A o \in live : o.kind = k => o.h # NewHandle(k)
<1>1. FreeHandles(k) \in SUBSET Nat /\ FreeHandles(k) # {}
  BY Consts DEF HasHandle, FreeHandles
<1>2. NewHandle(k) \in FreeHandles(k)
  BY <1>1, LeastOf DEF NewHandle
<1>3. QED
  BY <1>2 DEF FreeHandles, Objects

LEMMA HeldFacts ==
  ASSUME NEW k, NEW d, NEW id \in Held(k, d)
  PROVE  \E x \in live : x.kind = k /\ x.id = id /\ x.dev = d /\ id # Null
  BY DEF Held, Objects

RightOwner(k, d, own) ==
  IF k = "surfaces" THEN d = Null /\ own = Null ELSE d # Null /\ DeviceIs(d, own)

RightParent(k, d, parent) ==
  \/ parent = <<>> /\ k \notin {"queues", "command_buffers", "descriptor_sets"}
  \/ \E p \in live : /\ parent = <<p.kind, p.id>> /\ <<k, p.kind>> \in Parentage
                     /\ p.dev = d

RightRefs(k, d, refs) ==
  \A r \in refs : \E x \in Refers(k) : \E i \in AllIds(x) :
    /\ r = <<x, i>>
    /\ \A p \in live : p.kind = x /\ p.id = i => p.dev = d \/ x = "surfaces"

\* What an object may refer to is its device's.
LEMMA RefFacts ==
  ASSUME StateType, ObjectInv, NEW k, NEW d, NEW refs \in RefChoices(k, d)
  PROVE  RightRefs(k, d, refs)
<1>. DEFINE ks == {r \in Refers(k) \cap Exercised : Held(r, d) # {}}
<1>1. PICK f \in [ks -> UNION {Held(r, d) : r \in ks}] :
        (\A r \in ks : f[r] \in Held(r, d)) /\ refs = {<<r, f[r]>> : r \in ks}
  BY DEF RefChoices
<1>2. SUFFICES ASSUME NEW x \in ks
               PROVE  \E i \in AllIds(x) :
                        /\ <<x, f[x]>> = <<x, i>>
                        /\ \A p \in live : p.kind = x /\ p.id = i => p.dev = d \/ x = "surfaces"
  BY <1>1 DEF RightRefs
<1>3. PICK y \in live : y.kind = x /\ y.id = f[x] /\ y.dev = d /\ f[x] # Null
  BY <1>1, HeldFacts
<1>4. y.kind # "queues"
  BY <1>3, RefersKinds
<1>5. f[x] \in AllIds(x)
  BY <1>3, <1>4, NameInTable
<1>6. \A p \in live : p.kind = x /\ p.id = f[x] => p = y
  BY <1>3 DEF ObjectInv, UniqueInv
<1>7. QED
  BY <1>3, <1>5, <1>6

LEMMA ObjectFields ==
  ASSUME NEW k, NEW id, NEW h, NEW d, NEW parent, NEW refs
  PROVE  /\ Object(k, id, h, d, parent, refs).kind = k
         /\ Object(k, id, h, d, parent, refs).id = id
         /\ Object(k, id, h, d, parent, refs).h = h
         /\ Object(k, id, h, d, parent, refs).dev = d
         /\ Object(k, id, h, d, parent, refs).parent = parent
         /\ Object(k, id, h, d, parent, refs).refs = refs
  BY DEF Object

LEMMA ObjectIs ==
  ASSUME NEW k \in Kinds, NEW id \in Nat, NEW h \in Handles, NEW d \in Nat, NEW parent, NEW refs
  PROVE  IsObject(Object(k, id, h, d, parent, refs))
  BY ObjectFields DEF IsObject

\* A new object that is named at once: SERVER_CREATE and the like.
LEMMA NamedType ==
  ASSUME StateType, NEW k \in Kinds, NEW d \in Nat, NEW h \in Handles,
         NEW own \in Handles \cup {Null}, NEW parent, NEW refs,
         Named(k, d, h, own, parent, refs), UNCHANGED <<doing, orphaned>>
  PROVE  StateType' /\ Kept
<1>1. Added(tables', tables, k, h, own)
  BY AddFacts DEF StateType, Named
<1>2. Kept
  <2>1. \A x \in Kinds : Len(tables[x]) \in Nat
    BY SlotFacts
  <2>2. QED
    BY <1>1, <2>1 DEF Added, Kept, AllIds, Ids
<1>3. \A o \in live' : IsObject(o)
  <2>1. NewId(k) \in Nat
    BY <1>1 DEF Added, NewId
  <2>2. QED
    BY <2>1, ObjectIs DEF StateType, Named
<1>4. \A x \in Kinds : AllIds(x) \subseteq AllIds(x)'
  <2>1. \A x \in Kinds : Len(tables[x]) \in Nat
    BY SlotFacts
  <2>2. QED
    BY <1>1, <2>1 DEF Added, AllIds, Ids
<1>5. 0 .. Len(tables["devices"]) \subseteq 0 .. Len(tables'["devices"])
  <2>1. Len(tables["devices"]) \in Nat /\ Len(tables["devices"]) <= Len(tables'["devices"])
    BY <1>2, SlotFacts, KindFacts DEF Kept
  <2>2. tables'["devices"] \in Seq(Slot)
    BY <1>1, KindFacts DEF Added
  <2>3. Len(tables'["devices"]) \in Nat
    BY <2>2
  <2>4. QED
    BY <2>1, <2>3
<1>6. QED
  <2>1. doing' = doing /\ orphaned' = orphaned
    OBVIOUS
  <2>2. doing \in [at : {"serving", "ending", "ended"}, h : Handles \cup {Null},
                   id : 0 .. Len(tables'["devices"])]
    BY <1>5 DEF StateType
  <2>3. orphaned \subseteq AllIds("command_buffers")'
    BY <1>4, KindFacts DEF StateType
  <2>4. QED
    BY <1>1, <1>2, <1>3, <2>1, <2>2, <2>3 DEF Added, StateType

MakesOne(k, d, own, parent, refs) ==
  /\ doing.h = Null /\ UNCHANGED <<doing, orphaned>>
  /\ k \in Kinds \ {"queues", "devices"} /\ d \in Nat /\ HasHandle(k)
  /\ own \in Handles \cup {Null}
  /\ RightOwner(k, d, own) /\ RightParent(k, d, parent) /\ RightRefs(k, d, refs)
  /\ Named(k, d, NewHandle(k), own, parent, refs)

MadeOne(k, d, own, parent, refs) ==
  /\ StateType' /\ Grows({Object(k, NewId(k), NewHandle(k), d, parent, refs)})
  /\ \A x \in Kinds : x # k => tables'[x] = tables[x]
  /\ \A i \in AllIds(k) : tables'[k][i] = tables[k][i]
  /\ AllIds(k)' = AllIds(k) \cup {NewId(k)}
  /\ tables'[k][NewId(k)] = [h |-> NewHandle(k), owner |-> own]
  /\ NewId(k) \notin AllIds(k) /\ NewId(k) \in Nat \ {0}

LEMMA NamedGrows ==
  ASSUME StateType, ObjectInv, NEW k, NEW d, NEW own, NEW parent, NEW refs,
         MakesOne(k, d, own, parent, refs)
  PROVE  MadeOne(k, d, own, parent, refs)
<1>0. /\ doing.h = Null /\ UNCHANGED <<doing, orphaned>>
      /\ k \in Kinds \ {"queues", "devices"} /\ d \in Nat /\ HasHandle(k)
      /\ own \in Handles \cup {Null}
      /\ RightOwner(k, d, own) /\ RightParent(k, d, parent) /\ RightRefs(k, d, refs)
      /\ Named(k, d, NewHandle(k), own, parent, refs)
  BY DEF MakesOne
<1>a. PICK h, id : h = NewHandle(k) /\ id = NewId(k)
  OBVIOUS
<1>b. PICK n : n = Object(k, id, h, d, parent, refs)
  OBVIOUS
<1>1. h \in Handles /\ \A o \in live : o.kind = k => o.h # h
  BY <1>0, <1>a, HandleFacts
<1>2. StateType' /\ Kept
  BY <1>0, <1>a, <1>1, NamedType
<1>3. /\ tables' \in [Kinds -> Seq(Slot)] /\ Len(tables[k]) \in Nat
      /\ Len(tables'[k]) = Len(tables[k]) + 1
      /\ \A i \in 1 .. Len(tables[k]) : tables'[k][i] = tables[k][i]
      /\ tables'[k][Len(tables[k]) + 1] = [h |-> h, owner |-> own]
      /\ \A x \in Kinds : x # k => tables'[x] = tables[x]
  <2>1. Added(tables', tables, k, h, own)
    BY <1>0, <1>a, <1>1, AddFacts DEF StateType, Named
  <2>2. QED
    BY <1>0, <2>1 DEF Added
<1>4. live' = live \cup {n}
  BY <1>0, <1>a, <1>b DEF Named
<1>5. id = Len(tables[k]) + 1 /\ id # Null
  BY <1>0, <1>a, <1>3, Consts DEF NewId
<1>6. n.kind = k /\ n.id = id /\ n.h = h /\ n.dev = d /\ n.parent = parent /\ n.refs = refs
  BY <1>0, <1>b, ObjectFields
<1>7. Fresh({n})
  BY <1>0, <1>1, <1>3, <1>5, <1>6 DEF Fresh
<1>8. AllIds(k)' = AllIds(k) \cup {id} /\ id \notin AllIds(k) /\ id \in Nat \ {0}
  BY <1>0, <1>3, <1>5 DEF AllIds, Ids
<1>9. OwnerIs(n, own)'
  BY <1>0, <1>4, <1>6 DEF OwnerIs, DeviceIs, RightOwner
<1>10. ShapeOK(n)'
  <2>1. HasName(n)'
    BY <1>0, <1>3, <1>5, <1>6 DEF HasName
  <2>2. HasDevice(n)'
    BY <1>0, <1>4, <1>6 DEF HasDevice, RightOwner, DeviceIs
  <2>3. HasParent(n)'
    <3>1. CASE parent = <<>> /\ k \notin {"queues", "command_buffers", "descriptor_sets"}
      BY <1>0, <1>6, <3>1 DEF HasParent
    <3>2. CASE \E p \in live : /\ parent = <<p.kind, p.id>> /\ <<k, p.kind>> \in Parentage
                               /\ p.dev = d
      <4>1. PICK p \in live : parent = <<p.kind, p.id>> /\ <<k, p.kind>> \in Parentage /\ p.dev = d
        BY <3>2
      <4>2. p \in live' /\ parent # <<>>
        BY <1>4, <4>1, Pairs
      <4>3. QED
        BY <1>0, <1>6, <4>1, <4>2 DEF HasParent
    <3>3. QED
      BY <1>0, <3>1, <3>2 DEF RightParent
  <2>4. HasRefs(n)'
    <3>1. \A x \in Kinds : AllIds(x) \subseteq AllIds(x)'
      BY <1>0, <1>2, KeptIds
    <3>2. SUFFICES ASSUME NEW r \in refs
                   PROVE  \E x \in Refers(k) : \E i \in AllIds(x)' :
                            /\ r = <<x, i>>
                            /\ \A p \in live' : p.kind = x /\ p.id = i => p.dev = d \/ x = "surfaces"
      BY <1>0, <1>6 DEF HasRefs
    <3>3. PICK x \in Refers(k) : \E i \in AllIds(x) :
            /\ r = <<x, i>>
            /\ \A p \in live : p.kind = x /\ p.id = i => p.dev = d \/ x = "surfaces"
      BY <1>0 DEF RightRefs
    <3>4. x \in Kinds
      BY <1>0, RefersKinds
    <3>5. \A p \in live' : p \in live \/ p.dev = d
      BY <1>0, <1>4, <1>6
    <3>6. QED
      BY <1>0, <3>1, <3>3, <3>4, <3>5
  <2>5. QED
    BY <1>0, <2>1, <2>2, <2>3, <2>4 DEF ShapeOK
<1>11. tables'[k][id].h = h /\ tables'[k][id].owner = own
  BY <1>0, <1>3, <1>5
<1>12. Introduced({n})
  <2>1. \A x \in Kinds : x # k => AllIds(x)' = AllIds(x)
    BY <1>0, <1>3 DEF AllIds, Ids
  <2>2. OwnerIs(n, tables[k][id].owner)'
    BY <1>0, <1>9, <1>11
  <2>3. \A x \in Kinds \ {"queues"} : \A i \in AllIds(x)' \ AllIds(x) : x = k /\ i = id
    BY <1>0, <1>8, <2>1
  <2>4. tables'["queues"] = tables["queues"]
    BY <1>0, <1>3, KindFacts
  <2>5. \A m \in {n} : m.id # Null /\ m.kind # "queues" =>
          tables'[m.kind][m.id].h = m.h /\ OwnerIs(m, tables[m.kind][m.id].owner)'
    BY <1>0, <1>6, <1>11, <2>2
  <2>6. \A x \in Kinds \ {"queues"} : \A i \in AllIds(x)' \ AllIds(x) : tables'[x][i].h # Null =>
          \E m \in {n} : /\ m.kind = x /\ m.id = i /\ m.h = tables'[x][i].h
                         /\ OwnerIs(m, tables[x][i].owner)'
    BY <1>0, <1>6, <1>11, <2>2, <2>3
  <2>7. QED
    BY <1>0, <1>10, <2>4, <2>5, <2>6 DEF Introduced
<1>13. Grows({n})
  BY <1>0, <1>2, <1>4, <1>7, <1>12 DEF Grows
<1>14. \A i \in AllIds(k) : tables'[k][i] = tables[k][i]
  BY <1>0, <1>3 DEF AllIds, Ids
<1>15. tables'[k][id] = [h |-> h, owner |-> own]
  BY <1>0, <1>3, <1>5
<1>16. QED
  BY <1>0, <1>a, <1>b, <1>2, <1>3, <1>8, <1>13, <1>14, <1>15 DEF MadeOne

LEMMA ServingInv ==
  ASSUME ObjectsInv, Serving
  PROVE  /\ TypeInv /\ StateType /\ ObjectInv /\ MapInv /\ faults = {}
         /\ doing.h = Null /\ doing.at = "serving"
  BY DEF ObjectsInv, Serving, TypeInv

LEMMA ServingStep ==
  ASSUME TypeInv', ObjectInv', MapInv', faults' = {}, doing'.at # "ended"
  PROVE  ObjectsInv'
  BY DEF ObjectsInv

\* SERVER_CREATE and the like: no map is involved.
LEMMA PlainGrows ==
  ASSUME TypeInv, StateType', ObjectInv, MapInv, NEW new, Grows(new), UNCHANGED maps,
         \A k \in RegisteredKinds : tables'[k] = tables[k],
         \A n \in new : /\ n.kind \notin {"descriptor_sets", "command_buffers", "swapchains"}
                        /\ n.kind = "images" => n.parent = <<>> /\ n.id # Null
  PROVE  TypeInv' /\ ObjectInv' /\ MapInv'
<1>1. /\ StateType /\ RegType /\ SetType /\ ChainType /\ DOMAIN command_buffer_devices \subseteq Handles
      /\ RegInv /\ SetInv /\ BufferInv /\ ChainInv /\ ImageInv
  BY DEF TypeInv, MapInv
<1>2. /\ registered' = registered /\ descriptor_set_owners' = descriptor_set_owners
      /\ command_buffer_devices' = command_buffer_devices
      /\ UNCHANGED <<swapchain_devices, swapchain_surfaces>> /\ swapchain_devices' = swapchain_devices
      /\ swapchain_image_ids' = swapchain_image_ids
  BY DEF maps
<1>3. ObjectInv'
  BY <1>1, GrowsKeeps
<1>4. \A k \in Kinds : AllIds(k) \subseteq AllIds(k)'
  BY <1>1, KeptIds DEF Grows
<1>5. TypeInv'
  BY <1>1, <1>2, <1>4, MapTypes DEF TypeInv
<1>6. RegInv'
  BY <1>1, <1>2, RegKept DEF Grows
<1>7. SetInv'
  BY <1>1, <1>2, SetGrows
<1>8. BufferInv'
  BY <1>1, <1>2, BufferGrows
<1>9. ChainInv'
  BY <1>1, <1>2, ChainGrows
<1>10. ImageInv'
  BY <1>1, <1>2, ImageGrows
<1>11. QED
  BY <1>3, <1>5, <1>6, <1>7, <1>8, <1>9, <1>10 DEF MapInv

LEMMA CreateStep ==
  ASSUME ObjectsInv, NEW k \in PlainKinds \cup {"fences", "semaphores", "descriptor_pools"}, Create(k)
  PROVE  ObjectsInv'
<1>1. Serving /\ HasHandle(k) /\ UNCHANGED maps /\ UNCHANGED <<doing, orphaned>> /\ faults' = faults
  BY DEF Create, watched
<1>2. /\ TypeInv /\ StateType /\ ObjectInv /\ MapInv /\ faults = {}
      /\ doing.h = Null /\ doing.at = "serving"
  BY <1>1, ServingInv
<1>3. PICK d \in LiveDevices : \E refs \in RefChoices(k, d) :
        Named(k, d, NewHandle(k), Native(d), <<>>, refs)
  BY DEF Create
<1>4. PICK refs \in RefChoices(k, d) : Named(k, d, NewHandle(k), Native(d), <<>>, refs)
  BY <1>3
<1>5. /\ k \in Kinds
      /\ k \notin {"devices", "queues", "surfaces", "command_buffers", "descriptor_sets",
                   "swapchains"} \cup RegisteredKinds
  BY DEF Kinds, PlainKinds, RegisteredKinds
<1>6. MakesOne(k, d, Native(d), <<>>, refs)
  <2>1. RightRefs(k, d, refs)
    BY <1>2, RefFacts
  <2>2. RightOwner(k, d, Native(d)) /\ d \in Nat /\ Native(d) \in Handles
    BY <1>2, <1>5, LiveDevice DEF RightOwner
  <2>3. RightParent(k, d, <<>>)
    BY <1>5 DEF RightParent
  <2>4. QED
    BY <1>1, <1>2, <1>4, <1>5, <2>1, <2>2, <2>3 DEF MakesOne
<1>7. MadeOne(k, d, Native(d), <<>>, refs)
  BY <1>2, <1>6, NamedGrows
<1>8. PICK n : n = Object(k, NewId(k), NewHandle(k), d, <<>>, refs)
  OBVIOUS
<1>9. n.kind = k /\ n.parent = <<>> /\ n.id # Null /\ Grows({n}) /\ StateType'
  BY <1>7, <1>8, ObjectFields, Consts DEF MadeOne
<1>10. \A x \in RegisteredKinds : tables'[x] = tables[x]
  BY <1>5, <1>7, KindFacts DEF MadeOne
<1>11. TypeInv' /\ ObjectInv' /\ MapInv'
  BY <1>1, <1>2, <1>5, <1>9, <1>10, PlainGrows
<1>12. QED
  BY <1>1, <1>2, <1>11, ServingStep

LEMMA CreateSurfaceStep ==
  ASSUME ObjectsInv, CreateSurface
  PROVE  ObjectsInv'
<1>1. /\ Serving /\ HasHandle("surfaces") /\ UNCHANGED maps /\ UNCHANGED <<doing, orphaned>>
      /\ faults' = faults /\ Named("surfaces", Null, NewHandle("surfaces"), Null, <<>>, {})
  BY DEF CreateSurface, watched
<1>2. /\ TypeInv /\ StateType /\ ObjectInv /\ MapInv /\ faults = {}
      /\ doing.h = Null /\ doing.at = "serving"
  BY <1>1, ServingInv
<1>3. MakesOne("surfaces", Null, Null, <<>>, {})
  BY <1>1, <1>2, KindFacts, Consts DEF MakesOne, RightOwner, RightParent, RightRefs
<1>4. MadeOne("surfaces", Null, Null, <<>>, {})
  BY <1>2, <1>3, NamedGrows
<1>5. PICK n : n = Object("surfaces", NewId("surfaces"), NewHandle("surfaces"), Null, <<>>, {})
  OBVIOUS
<1>6. n.kind = "surfaces" /\ Grows({n}) /\ StateType'
  BY <1>4, <1>5, ObjectFields DEF MadeOne
<1>7. \A x \in RegisteredKinds : tables'[x] = tables[x]
  BY <1>4, KindFacts DEF MadeOne, RegisteredKinds
<1>8. TypeInv' /\ ObjectInv' /\ MapInv'
  BY <1>1, <1>2, <1>6, <1>7, PlainGrows
<1>9. QED
  BY <1>1, <1>2, <1>8, ServingStep

\* memory_metadata and the two *_owners maps get an entry with the name.
LEMMA CreateRegisteredStep ==
  ASSUME ObjectsInv, NEW k \in RegisteredKinds, CreateRegistered(k)
  PROVE  ObjectsInv'
<1>1. /\ Serving /\ HasHandle(k) /\ UNCHANGED <<doing, orphaned>> /\ faults' = faults
      /\ descriptor_set_owners' = descriptor_set_owners
      /\ command_buffer_devices' = command_buffer_devices
      /\ UNCHANGED <<swapchain_devices, swapchain_surfaces>> /\ swapchain_devices' = swapchain_devices
      /\ swapchain_image_ids' = swapchain_image_ids
  BY DEF CreateRegistered, watched
<1>2. /\ TypeInv /\ StateType /\ ObjectInv /\ MapInv /\ faults = {}
      /\ doing.h = Null /\ doing.at = "serving"
  BY <1>1, ServingInv
<1>3. PICK d \in LiveDevices : \E refs \in RefChoices(k, d) :
        /\ Named(k, d, NewHandle(k), Native(d), <<>>, refs)
        /\ registered' = [registered EXCEPT ![k] =
                            Put(registered[k], NewId(k), [owner |-> Native(d), h |-> NewHandle(k)])]
  BY DEF CreateRegistered
<1>4. PICK refs \in RefChoices(k, d) : Named(k, d, NewHandle(k), Native(d), <<>>, refs)
  BY <1>3
<1>5. k \in Kinds /\ k \notin {"devices", "queues", "surfaces", "command_buffers", "descriptor_sets",
                               "swapchains", "images"}
  BY KindFacts DEF RegisteredKinds
<1>6. MakesOne(k, d, Native(d), <<>>, refs)
  <2>1. RightRefs(k, d, refs)
    BY <1>2, RefFacts
  <2>2. RightOwner(k, d, Native(d)) /\ d \in Nat /\ Native(d) \in Handles
    BY <1>2, <1>5, LiveDevice DEF RightOwner
  <2>3. RightParent(k, d, <<>>)
    BY <1>5 DEF RightParent
  <2>4. QED
    BY <1>1, <1>2, <1>4, <1>5, <2>1, <2>2, <2>3 DEF MakesOne
<1>7. MadeOne(k, d, Native(d), <<>>, refs)
  BY <1>2, <1>6, NamedGrows
<1>8. PICK n : n = Object(k, NewId(k), NewHandle(k), d, <<>>, refs)
  OBVIOUS
<1>9. n.kind = k /\ Grows({n}) /\ StateType'
  BY <1>7, <1>8, ObjectFields DEF MadeOne
<1>10. /\ RegType /\ SetType /\ ChainType /\ DOMAIN command_buffer_devices \subseteq Handles
       /\ RegInv /\ SetInv /\ BufferInv /\ ChainInv /\ ImageInv
  BY <1>2 DEF TypeInv, MapInv
<1>11. \A x \in Kinds : AllIds(x) \subseteq AllIds(x)'
  BY <1>2, <1>9, KeptIds DEF Grows
<1>12. PICK id, e : id = NewId(k) /\ e = [owner |-> Native(d), h |-> NewHandle(k)]
  OBVIOUS
<1>13. /\ id \notin AllIds(k) /\ AllIds(k)' = AllIds(k) \cup {id} /\ e.owner = Native(d)
       /\ tables'[k][id].owner = e.owner /\ tables'[k][id].h = e.h
       /\ e = [owner |-> tables'[k][id].owner, h |-> tables'[k][id].h]
       /\ tables'[k][id].h # Null
       /\ \A i \in AllIds(k) : tables'[k][i] = tables[k][i]
       /\ \A x \in Kinds : x # k => tables'[x] = tables[x]
  <2>1. NewHandle(k) \in Handles
    BY <1>1, HandleFacts
  <2>2. QED
    BY <1>7, <1>12, <2>1, Consts DEF MadeOne
<1>14. /\ DOMAIN registered' = RegisteredKinds /\ IsFn(registered')
       /\ registered'[k] = Put(registered[k], id, e)
       /\ \A x \in RegisteredKinds : x # k => registered'[x] = registered[x]
  BY <1>3, <1>10, <1>12 DEF RegType, IsFn
<1>15. /\ DOMAIN registered'[k] = DOMAIN registered[k] \cup {id} /\ IsFn(registered'[k])
       /\ registered'[k][id] = e
       /\ \A i \in DOMAIN registered[k] : i # id => registered'[k][i] = registered[k][i]
  BY <1>14 DEF Put, IsFn
<1>16. RegType'
  <2>1. \A x \in RegisteredKinds : IsFn(registered'[x]) /\ DOMAIN registered'[x] \subseteq AllIds(x)'
    BY <1>10, <1>11, <1>13, <1>14, <1>15, KindFacts DEF RegType
  <2>2. QED
    BY <1>14, <2>1 DEF RegType, IsFn
<1>17. RegInv'
  <2>1. SUFFICES ASSUME NEW x \in RegisteredKinds
                 PROVE  /\ \A i \in AllIds(x)' : tables'[x][i].h # Null =>
                             /\ i \in DOMAIN registered'[x]
                             /\ registered'[x][i] = [owner |-> tables'[x][i].owner, h |-> tables'[x][i].h]
                        /\ \A i \in DOMAIN registered'[x] : tables'[x][i].h # Null
    BY DEF RegInv
  <2>2. /\ \A i \in AllIds(x) : tables[x][i].h # Null =>
             /\ i \in DOMAIN registered[x]
             /\ registered[x][i] = [owner |-> tables[x][i].owner, h |-> tables[x][i].h]
        /\ \A i \in DOMAIN registered[x] : tables[x][i].h # Null
        /\ DOMAIN registered[x] \subseteq AllIds(x)
    BY <1>2, <1>10 DEF RegInv, RegType
  <2>3. CASE x # k
    <3>1. tables'[x] = tables[x] /\ registered'[x] = registered[x] /\ AllIds(x)' = AllIds(x)
      BY <1>13, <1>14, <2>3, KindFacts DEF AllIds, Ids
    <3>2. QED
      BY <2>2, <3>1
  <2>4. CASE x = k
    BY <1>13, <1>15, <2>2, <2>4
  <2>5. QED
    BY <2>3, <2>4
<1>18. TypeInv'
  BY <1>1, <1>9, <1>10, <1>11, <1>16, MapTypes DEF TypeInv
<1>19. ObjectInv'
  BY <1>2, <1>9, GrowsKeeps
<1>20. SetInv' /\ BufferInv' /\ ChainInv' /\ ImageInv'
  <2>1. SetInv'
    BY <1>1, <1>5, <1>9, <1>10, SetGrows
  <2>2. BufferInv'
    BY <1>1, <1>5, <1>9, <1>10, BufferGrows
  <2>3. ChainInv'
    BY <1>1, <1>5, <1>9, <1>10, ChainGrows
  <2>4. ImageInv'
    BY <1>1, <1>2, <1>5, <1>9, <1>10, ImageGrows
  <2>5. QED
    BY <2>1, <2>2, <2>3, <2>4
<1>21. QED
  BY <1>1, <1>2, <1>17, <1>18, <1>19, <1>20, ServingStep DEF MapInv

\* In between handlers every named object is found under its name.
LEMMA NameOf ==
  ASSUME StateType, ObjectInv, doing.h = Null,
         NEW o \in live, o.id # Null, o.kind # "queues"
  PROVE  /\ Get(tables, o.kind, o.id) = o.h /\ o.h \in Handles
         /\ o.kind \in Kinds /\ o.id \in AllIds(o.kind)
         /\ tables[o.kind][o.id].h = o.h /\ OwnerIs(o, tables[o.kind][o.id].owner)
<1>1. o.kind \in Kinds /\ o.id \in AllIds(o.kind)
  BY NameInTable
<1>2. tables[o.kind][o.id].h = o.h /\ OwnerIs(o, tables[o.kind][o.id].owner)
  BY DEF ObjectInv, NamedInv, Excused
<1>3. o.h \in Handles
  BY DEF StateType, IsObject
<1>4. QED
  BY <1>1, <1>2, <1>3 DEF Get, AllIds

LEMMA AllocateDescriptorSetStep ==
  ASSUME ObjectsInv, AllocateDescriptorSet
  PROVE  ObjectsInv'
<1>. DEFINE k == "descriptor_sets"
<1>1. /\ Serving /\ HasHandle(k) /\ UNCHANGED <<doing, orphaned>> /\ faults' = faults
      /\ registered' = registered
      /\ command_buffer_devices' = command_buffer_devices
      /\ UNCHANGED <<swapchain_devices, swapchain_surfaces>> /\ swapchain_devices' = swapchain_devices
      /\ swapchain_image_ids' = swapchain_image_ids
  BY DEF AllocateDescriptorSet, watched
<1>2. /\ TypeInv /\ StateType /\ ObjectInv /\ MapInv /\ faults = {}
      /\ doing.h = Null /\ doing.at = "serving"
  BY <1>1, ServingInv
<1>3. PICK d \in LiveDevices : \E p \in Held("descriptor_pools", d) :
       /\ Named(k, d, NewHandle(k), Native(d), <<"descriptor_pools", p>>, {})
       /\ descriptor_set_owners' =
            Put(descriptor_set_owners, NewId(k),
                [device |-> Native(d), pool |-> Get(tables, "descriptor_pools", p)])
  BY DEF AllocateDescriptorSet
<1>4. PICK p \in Held("descriptor_pools", d) :
       /\ Named(k, d, NewHandle(k), Native(d), <<"descriptor_pools", p>>, {})
       /\ descriptor_set_owners' =
            Put(descriptor_set_owners, NewId(k),
                [device |-> Native(d), pool |-> Get(tables, "descriptor_pools", p)])
  BY <1>3
<1>5. PICK x \in live : x.kind = "descriptor_pools" /\ x.id = p /\ x.dev = d /\ p # Null
  BY HeldFacts
<1>6. Get(tables, "descriptor_pools", p) = x.h
  BY <1>2, <1>5, NameOf
<1>7. MakesOne(k, d, Native(d), <<"descriptor_pools", p>>, {})
  <2>1. RightRefs(k, d, {})
    BY DEF RightRefs
  <2>2. RightOwner(k, d, Native(d)) /\ d \in Nat /\ Native(d) \in Handles
    BY <1>2, LiveDevice DEF RightOwner
  <2>3. RightParent(k, d, <<"descriptor_pools", p>>)
    BY <1>5 DEF RightParent, Parentage
  <2>4. QED
    BY <1>1, <1>2, <1>4, <2>1, <2>2, <2>3, KindFacts DEF MakesOne
<1>8. MadeOne(k, d, Native(d), <<"descriptor_pools", p>>, {})
  BY <1>2, <1>7, NamedGrows
<1>9. PICK id, n : id = NewId(k) /\ n = Object(k, id, NewHandle(k), d, <<"descriptor_pools", p>>, {})
  OBVIOUS
<1>10. /\ n.kind = k /\ Grows({n}) /\ StateType' /\ n.id = id /\ n.dev = d
       /\ n.parent = <<"descriptor_pools", p>>
  BY <1>8, <1>9, ObjectFields DEF MadeOne
<1>11. /\ RegType /\ SetType /\ ChainType /\ DOMAIN command_buffer_devices \subseteq Handles
       /\ RegInv /\ SetInv /\ BufferInv /\ ChainInv /\ ImageInv
  BY <1>2 DEF TypeInv, MapInv
<1>12. \A y \in Kinds : AllIds(y) \subseteq AllIds(y)'
  BY <1>2, <1>10, KeptIds DEF Grows
<1>13. /\ id \notin AllIds(k) /\ AllIds(k)' = AllIds(k) \cup {id}
       /\ \A y \in Kinds : y # k => tables'[y] = tables[y]
  BY <1>8, <1>9 DEF MadeOne
<1>14. PICK dev : dev = Native(d)
  OBVIOUS
<1>15. DeviceIs(d, dev)
  BY <1>2, <1>14, LiveDevice
<1>16. /\ DOMAIN descriptor_set_owners' = DOMAIN descriptor_set_owners \cup {id}
       /\ IsFn(descriptor_set_owners')
       /\ descriptor_set_owners'[id] = [device |-> dev, pool |-> x.h]
       /\ \A i \in DOMAIN descriptor_set_owners : i # id =>
            descriptor_set_owners'[i] = descriptor_set_owners[i]
  BY <1>4, <1>6, <1>9, <1>14 DEF Put, IsFn
<1>17. DOMAIN descriptor_set_owners \subseteq AllIds(k)
  BY <1>11 DEF SetType
<1>18. SetType'
  BY <1>13, <1>16, <1>17 DEF SetType, IsFn
<1>19. live' = live \cup {n} /\ doing' = doing
  BY <1>10 DEF Grows
<1>20. \A o \in live' : o.kind = k =>
       /\ o.id \in DOMAIN descriptor_set_owners'
       /\ DeviceIs(o.dev, descriptor_set_owners[o.id].device)'
       /\ \E q \in live' : /\ q.kind = "descriptor_pools" /\ o.parent = <<q.kind, q.id>>
                           /\ q.h = descriptor_set_owners'[o.id].pool
  <2>1. SUFFICES ASSUME NEW o \in live', o.kind = k
                 PROVE  /\ o.id \in DOMAIN descriptor_set_owners'
                        /\ DeviceIs(o.dev, descriptor_set_owners[o.id].device)'
                        /\ \E q \in live' : /\ q.kind = "descriptor_pools" /\ o.parent = <<q.kind, q.id>>
                                            /\ q.h = descriptor_set_owners'[o.id].pool
    OBVIOUS
  <2>2. CASE o = n
    <3>1. descriptor_set_owners'[o.id].device = dev /\ descriptor_set_owners'[o.id].pool = x.h
      BY <1>10, <1>16, <2>2
    <3>2. DeviceIs(o.dev, descriptor_set_owners[o.id].device)'
      BY <1>10, <1>15, <1>19, <2>2, <3>1 DEF DeviceIs
    <3>3. x \in live' /\ o.parent = <<x.kind, x.id>>
      BY <1>5, <1>10, <1>19, <2>2
    <3>4. QED
      BY <1>5, <1>10, <1>16, <2>2, <3>1, <3>2, <3>3
  <2>3. CASE o \in live
    <3>1. /\ o.id \in DOMAIN descriptor_set_owners
          /\ DeviceIs(o.dev, descriptor_set_owners[o.id].device)
          /\ \E q \in live : /\ q.kind = "descriptor_pools" /\ o.parent = <<q.kind, q.id>>
                             /\ q.h = descriptor_set_owners[o.id].pool
      BY <1>11, <2>1, <2>3 DEF SetInv
    <3>2. descriptor_set_owners'[o.id] = descriptor_set_owners[o.id]
      BY <1>13, <1>16, <1>17, <3>1
    <3>3. DeviceIs(o.dev, descriptor_set_owners[o.id].device)'
      BY <1>19, <3>1, <3>2 DEF DeviceIs
    <3>4. QED
      BY <1>16, <1>19, <3>1, <3>2, <3>3
  <2>4. QED
    BY <1>19, <2>1, <2>2, <2>3
<1>21. \A i \in DOMAIN descriptor_set_owners' :
       /\ descriptor_set_owners'[i] = [device |-> descriptor_set_owners'[i].device,
                                       pool |-> descriptor_set_owners'[i].pool]
       /\ \E o \in live' : o.kind = k /\ o.id = i
  <2>1. \A i \in DOMAIN descriptor_set_owners :
          /\ descriptor_set_owners[i] = [device |-> descriptor_set_owners[i].device,
                                         pool |-> descriptor_set_owners[i].pool]
          /\ \E o \in live : o.kind = k /\ o.id = i
    BY <1>2, <1>11 DEF SetInv
  <2>2. QED
    BY <1>10, <1>16, <1>19, <2>1
<1>22. SetInv'
  BY <1>20, <1>21 DEF SetInv
<1>23. TypeInv'
  BY <1>1, <1>10, <1>11, <1>12, <1>18, MapTypes DEF TypeInv
<1>24. ObjectInv'
  BY <1>2, <1>10, GrowsKeeps
<1>25. BufferInv' /\ ChainInv' /\ ImageInv' /\ RegInv'
  <2>1. RegInv'
    <3>1. \A y \in RegisteredKinds : tables'[y] = tables[y]
      BY <1>13, KindFacts DEF RegisteredKinds
    <3>2. QED
      BY <1>1, <1>11, <1>19, <3>1, RegKept
  <2>2. BufferInv'
    BY <1>1, <1>10, <1>11, BufferGrows
  <2>3. ChainInv'
    BY <1>1, <1>10, <1>11, ChainGrows
  <2>4. ImageInv'
    BY <1>1, <1>2, <1>10, <1>11, ImageGrows
  <2>5. QED
    BY <2>1, <2>2, <2>3, <2>4
<1>26. QED
  BY <1>1, <1>2, <1>22, <1>23, <1>24, <1>25, ServingStep DEF MapInv

LEMMA AllocateCommandBufferStep ==
  ASSUME ObjectsInv, AllocateCommandBuffer
  PROVE  ObjectsInv'
<1>. DEFINE k == "command_buffers"
<1>1. /\ Serving /\ HasHandle(k) /\ UNCHANGED <<doing, orphaned>> /\ faults' = faults
      /\ registered' = registered
      /\ descriptor_set_owners' = descriptor_set_owners
      /\ UNCHANGED <<swapchain_devices, swapchain_surfaces>> /\ swapchain_devices' = swapchain_devices
      /\ swapchain_image_ids' = swapchain_image_ids
  BY DEF AllocateCommandBuffer, watched
<1>2. /\ TypeInv /\ StateType /\ ObjectInv /\ MapInv /\ faults = {}
      /\ doing.h = Null /\ doing.at = "serving"
  BY <1>1, ServingInv
<1>3. PICK d \in LiveDevices : \E p \in Held("command_pools", d) :
       /\ Named(k, d, NewHandle(k), Native(d), <<"command_pools", p>>, {})
       /\ command_buffer_devices' = Put(command_buffer_devices, NewHandle(k), Native(d))
  BY DEF AllocateCommandBuffer
<1>4. PICK p \in Held("command_pools", d) :
       /\ Named(k, d, NewHandle(k), Native(d), <<"command_pools", p>>, {})
       /\ command_buffer_devices' = Put(command_buffer_devices, NewHandle(k), Native(d))
  BY <1>3
<1>5. PICK x \in live : x.kind = "command_pools" /\ x.id = p /\ x.dev = d /\ p # Null
  BY HeldFacts
<1>6. MakesOne(k, d, Native(d), <<"command_pools", p>>, {})
  <2>1. RightRefs(k, d, {})
    BY DEF RightRefs
  <2>2. RightOwner(k, d, Native(d)) /\ d \in Nat /\ Native(d) \in Handles
    BY <1>2, LiveDevice DEF RightOwner
  <2>3. RightParent(k, d, <<"command_pools", p>>)
    BY <1>5 DEF RightParent, Parentage
  <2>4. QED
    BY <1>1, <1>2, <1>4, <2>1, <2>2, <2>3, KindFacts DEF MakesOne
<1>7. MadeOne(k, d, Native(d), <<"command_pools", p>>, {})
  BY <1>2, <1>6, NamedGrows
<1>8. PICK h, n : h = NewHandle(k) /\ n = Object(k, NewId(k), h, d, <<"command_pools", p>>, {})
  OBVIOUS
<1>9. n.kind = k /\ Grows({n}) /\ StateType' /\ n.h = h /\ n.dev = d
  BY <1>7, <1>8, ObjectFields DEF MadeOne
<1>10. /\ RegType /\ SetType /\ ChainType /\ DOMAIN command_buffer_devices \subseteq Handles
       /\ RegInv /\ SetInv /\ BufferInv /\ ChainInv /\ ImageInv
  BY <1>2 DEF TypeInv, MapInv
<1>11. \A y \in Kinds : AllIds(y) \subseteq AllIds(y)'
  BY <1>2, <1>9, KeptIds DEF Grows
<1>12. PICK dev : dev = Native(d)
  OBVIOUS
<1>13. DeviceIs(d, dev)
  BY <1>2, <1>12, LiveDevice
<1>14. h \in Handles /\ \A o \in live : o.kind = k => o.h # h
  BY <1>1, <1>8, HandleFacts
<1>15. /\ DOMAIN command_buffer_devices' = DOMAIN command_buffer_devices \cup {h}
       /\ command_buffer_devices'[h] = dev
       /\ \A c \in DOMAIN command_buffer_devices : c # h =>
            command_buffer_devices'[c] = command_buffer_devices[c]
  BY <1>4, <1>8, <1>12 DEF Put
<1>16. live' = live \cup {n} /\ doing' = doing
  BY <1>9 DEF Grows
<1>17. BufferInv'
  <2>1. SUFFICES ASSUME NEW o \in live', o.kind = k
                 PROVE  /\ o.h \in DOMAIN command_buffer_devices'
                        /\ DeviceIs(o.dev, command_buffer_devices[o.h])'
    BY DEF BufferInv
  <2>2. CASE o = n
    BY <1>9, <1>13, <1>15, <1>16, <2>2 DEF DeviceIs
  <2>3. CASE o \in live
    <3>1. o.h \in DOMAIN command_buffer_devices /\ DeviceIs(o.dev, command_buffer_devices[o.h])
      BY <1>10, <2>1, <2>3 DEF BufferInv
    <3>2. command_buffer_devices'[o.h] = command_buffer_devices[o.h]
      BY <1>14, <1>15, <2>1, <2>3, <3>1
    <3>3. QED
      BY <1>15, <1>16, <3>1, <3>2 DEF DeviceIs
  <2>4. QED
    BY <1>16, <2>1, <2>2, <2>3
<1>18. TypeInv'
  BY <1>1, <1>9, <1>10, <1>11, <1>14, <1>15, MapTypes DEF TypeInv
<1>19. ObjectInv'
  BY <1>2, <1>9, GrowsKeeps
<1>20. SetInv' /\ ChainInv' /\ ImageInv' /\ RegInv'
  <2>1. RegInv'
    <3>1. \A y \in RegisteredKinds : tables'[y] = tables[y]
      BY <1>7, KindFacts DEF RegisteredKinds, MadeOne
    <3>2. QED
      BY <1>1, <1>10, <1>16, <3>1, RegKept
  <2>2. SetInv'
    BY <1>1, <1>9, <1>10, SetGrows
  <2>3. ChainInv'
    BY <1>1, <1>9, <1>10, ChainGrows
  <2>4. ImageInv'
    BY <1>1, <1>2, <1>9, <1>10, ImageGrows
  <2>5. QED
    BY <2>1, <2>2, <2>3, <2>4
<1>21. QED
  BY <1>1, <1>2, <1>17, <1>18, <1>19, <1>20, ServingStep DEF MapInv

\* A step that adds one name keeps the types of the rest.
LEMMA AddedType ==
  ASSUME StateType, NEW k \in Kinds, NEW e, NEW own, Added(tables', tables, k, e, own),
         \A o \in live' : IsObject(o), UNCHANGED <<doing, orphaned>>
  PROVE  /\ StateType' /\ Kept
         /\ AllIds(k)' = AllIds(k) \cup {Len(tables[k]) + 1} /\ Len(tables[k]) + 1 \notin AllIds(k)
         /\ Len(tables[k]) \in Nat
         /\ tables'[k][Len(tables[k]) + 1] = [h |-> e, owner |-> own]
         /\ \A x \in Kinds : x # k => tables'[x] = tables[x] /\ AllIds(x)' = AllIds(x)
<1>1. \A x \in Kinds : Len(tables[x]) \in Nat
  BY SlotFacts
<1>2. Kept
  BY <1>1 DEF Added, Kept, AllIds, Ids
<1>3. AllIds(k)' = AllIds(k) \cup {Len(tables[k]) + 1} /\ Len(tables[k]) + 1 \notin AllIds(k)
  BY <1>1 DEF Added, AllIds, Ids
<1>4. \A x \in Kinds : x # k => tables'[x] = tables[x] /\ AllIds(x)' = AllIds(x)
  BY DEF Added, AllIds, Ids
<1>5. Len(tables["devices"]) <= Len(tables'["devices"]) /\ Len(tables'["devices"]) \in Nat
  <2>1. tables'["devices"] \in Seq(Slot)
    BY KindFacts DEF Added
  <2>2. QED
    BY <1>2, <2>1, KindFacts DEF Kept
<1>6. doing' = doing /\ orphaned' = orphaned
  OBVIOUS
<1>7. doing' \in [at : {"serving", "ending", "ended"}, h : Handles \cup {Null},
                  id : 0 .. Len(tables'["devices"])]
  <2>1. 0 .. Len(tables["devices"]) \subseteq 0 .. Len(tables'["devices"])
    BY <1>1, <1>5, KindFacts
  <2>2. doing \in [at : {"serving", "ending", "ended"}, h : Handles \cup {Null},
                   id : 0 .. Len(tables["devices"])]
    BY DEF StateType
  <2>3. QED
    BY <1>6, <2>1, <2>2
<1>8. orphaned' \subseteq AllIds("command_buffers")'
  BY <1>3, <1>4, <1>6, KindFacts DEF StateType
<1>9. StateType'
  BY <1>6, <1>7, <1>8 DEF StateType, Added
<1>10. QED
  BY <1>1, <1>2, <1>3, <1>4, <1>9 DEF Added

\* handle_CreateDevice: the device and its queue come together.
LEMMA CreateDeviceStep ==
  ASSUME ObjectsInv, CreateDevice
  PROVE  ObjectsInv'
<1>1. /\ Serving /\ HasHandle("devices") /\ HasHandle("queues")
      /\ UNCHANGED maps /\ UNCHANGED <<doing, orphaned>> /\ faults' = faults
  BY DEF CreateDevice, watched
<1>2. /\ TypeInv /\ StateType /\ ObjectInv /\ MapInv /\ faults = {}
      /\ doing.h = Null /\ doing.at = "serving"
  BY <1>1, ServingInv
<1>3. PICK d, dh, qh : d = NewId("devices") /\ dh = NewHandle("devices") /\ qh = NewHandle("queues")
  OBVIOUS
<1>4. PICK dev : dev = Object("devices", d, dh, Null, <<>>, {})
  OBVIOUS
<1>5. PICK q : q = Object("queues", d, qh, d, <<"devices", d>>, {})
  OBVIOUS
<1>6. tables' = Add(tables, "devices", dh, Null) /\ live' = live \cup {dev, q}
  BY <1>3, <1>4, <1>5 DEF CreateDevice
<1>7. /\ dh \in Handles /\ \A o \in live : o.kind = "devices" => o.h # dh
      /\ qh \in Handles /\ \A o \in live : o.kind = "queues" => o.h # qh
  BY <1>1, <1>3, HandleFacts
<1>8. Added(tables', tables, "devices", dh, Null)
  BY <1>2, <1>6, <1>7, AddFacts, KindFacts DEF StateType
<1>9. d = Len(tables["devices"]) + 1 /\ Len(tables["devices"]) \in Nat /\ d \in Nat /\ d # Null
  BY <1>3, <1>8, Consts DEF NewId, Added
<1>10. \A o \in live' : IsObject(o)
  <2>1. IsObject(dev)
    BY <1>4, <1>7, <1>9, ObjectIs, KindFacts, Consts
  <2>2. IsObject(q)
    BY <1>5, <1>7, <1>9, ObjectIs, KindFacts
  <2>3. \A o \in live : IsObject(o)
    BY <1>2 DEF StateType
  <2>4. QED
    BY <1>6, <2>1, <2>2, <2>3
<1>11. /\ StateType' /\ Kept
       /\ AllIds("devices")' = AllIds("devices") \cup {d} /\ d \notin AllIds("devices")
       /\ tables'["devices"][d] = [h |-> dh, owner |-> Null]
       /\ \A x \in Kinds : x # "devices" => tables'[x] = tables[x] /\ AllIds(x)' = AllIds(x)
  BY <1>1, <1>2, <1>8, <1>9, <1>10, AddedType, KindFacts
<1>12. /\ dev.kind = "devices" /\ dev.id = d /\ dev.h = dh /\ dev.dev = Null /\ dev.parent = <<>>
       /\ dev.refs = {}
  BY <1>4, ObjectFields
<1>13. /\ q.kind = "queues" /\ q.id = d /\ q.h = qh /\ q.dev = d /\ q.parent = <<"devices", d>>
       /\ q.refs = {}
  BY <1>5, ObjectFields
<1>14. Fresh({dev, q})
  BY <1>7, <1>9, <1>12, <1>13 DEF Fresh
<1>15. ShapeOK(dev)'
  <2>1. HasName(dev)'
    BY <1>8, <1>9, <1>12 DEF HasName, Added
  <2>2. HasDevice(dev)' /\ HasParent(dev)' /\ HasRefs(dev)'
    BY <1>12 DEF HasDevice, HasParent, HasRefs
  <2>3. QED
    BY <2>1, <2>2 DEF ShapeOK
<1>16. ShapeOK(q)'
  <2>1. HasName(q)' /\ HasRefs(q)'
    BY <1>9, <1>13 DEF HasName, HasRefs
  <2>2. dev \in live' /\ q.parent = <<dev.kind, dev.id>> /\ <<q.kind, dev.kind>> \in Parentage
    BY <1>6, <1>12, <1>13 DEF Parentage
  <2>3. HasDevice(q)'
    BY <1>9, <1>12, <1>13, <2>2 DEF HasDevice
  <2>4. HasParent(q)'
    BY <1>12, <1>13, <2>2, Pairs DEF HasParent
  <2>5. QED
    BY <2>1, <2>3, <2>4 DEF ShapeOK
<1>17. Introduced({dev, q})
  <2>1. tables'["devices"][d].h = dh /\ tables'["devices"][d].owner = Null
    BY <1>11
  <2>2. OwnerIs(dev, tables["devices"][d].owner)'
    BY <1>12, <2>1 DEF OwnerIs
  <2>3. \A n \in {dev, q} : n.id # Null /\ n.kind # "queues" =>
          tables'[n.kind][n.id].h = n.h /\ OwnerIs(n, tables[n.kind][n.id].owner)'
    BY <1>12, <1>13, <2>1, <2>2
  <2>4. \A k \in Kinds \ {"queues"} : \A i \in AllIds(k)' \ AllIds(k) : k = "devices" /\ i = d
    BY <1>11
  <2>5. \A k \in Kinds \ {"queues"} : \A i \in AllIds(k)' \ AllIds(k) : tables'[k][i].h # Null =>
          \E n \in {dev, q} : /\ n.kind = k /\ n.id = i /\ n.h = tables'[k][i].h
                              /\ OwnerIs(n, tables[k][i].owner)'
    BY <1>12, <2>1, <2>2, <2>4
  <2>6. QED
    BY <1>11, <1>15, <1>16, <2>3, <2>5, KindFacts DEF Introduced
<1>18. Grows({dev, q})
  BY <1>1, <1>2, <1>6, <1>11, <1>14, <1>17 DEF Grows
<1>19. \A k \in RegisteredKinds : tables'[k] = tables[k]
  BY <1>11, KindFacts DEF RegisteredKinds
<1>20. \A n \in {dev, q} : n.kind \notin {"descriptor_sets", "command_buffers", "swapchains", "images"}
  BY <1>12, <1>13
<1>21. TypeInv' /\ ObjectInv' /\ MapInv'
  BY <1>1, <1>2, <1>11, <1>18, <1>19, <1>20, PlainGrows
<1>22. QED
  BY <1>1, <1>2, <1>21, ServingStep

\* handle_GetDeviceQueue: add_unique, so the queue gets no second name.
LEMMA GetDeviceQueueStep ==
  ASSUME ObjectsInv, GetDeviceQueue
  PROVE  ObjectsInv'
<1>1. /\ Serving /\ UNCHANGED maps /\ UNCHANGED <<doing, orphaned>> /\ faults' = faults /\ live' = live
  BY DEF GetDeviceQueue, watched
<1>2. /\ TypeInv /\ StateType /\ ObjectInv /\ MapInv /\ faults = {}
      /\ doing.h = Null /\ doing.at = "serving"
  BY <1>1, ServingInv
<1>3. PICK d \in LiveDevices : \E q \in {o \in Objects("queues") : o.dev = d} :
       /\ ~ \E i \in AllIds("queues") : tables["queues"][i] = [h |-> q.h, owner |-> Native(d)]
       /\ tables' = Add(tables, "queues", q.h, Native(d))
  BY DEF GetDeviceQueue
<1>4. PICK q \in live :
       /\ q.kind = "queues" /\ q.dev = d
       /\ ~ \E i \in AllIds("queues") : tables["queues"][i] = [h |-> q.h, owner |-> Native(d)]
       /\ tables' = Add(tables, "queues", q.h, Native(d))
  BY <1>3 DEF Objects
<1>5. PICK own, id : own = Native(d) /\ id = Len(tables["queues"]) + 1
  OBVIOUS
<1>6. DeviceIs(d, own) /\ own \in Handles
  BY <1>2, <1>5, LiveDevice
<1>7. q.h \in Handles
  BY <1>2 DEF StateType, IsObject
<1>8. Added(tables', tables, "queues", q.h, own)
  BY <1>2, <1>4, <1>5, <1>6, <1>7, AddFacts, KindFacts DEF StateType
<1>9. \A o \in live' : IsObject(o)
  BY <1>1, <1>2 DEF StateType
<1>10. /\ StateType' /\ Kept
       /\ AllIds("queues")' = AllIds("queues") \cup {id} /\ id \notin AllIds("queues")
       /\ tables'["queues"][id] = [h |-> q.h, owner |-> own]
       /\ \A x \in Kinds : x # "queues" => tables'[x] = tables[x] /\ AllIds(x)' = AllIds(x)
  BY <1>1, <1>2, <1>5, <1>8, <1>9, AddedType, KindFacts
<1>11. QueueInv'
  <2>1. \A i \in AllIds("queues") : tables'["queues"][i] = tables["queues"][i]
    BY <1>10, KindFacts DEF Kept
  <2>2. ASSUME NEW i \in AllIds("queues")', tables'["queues"][i].h # Null
        PROVE  \E o \in live' : /\ o.kind = "queues" /\ o.h = tables'["queues"][i].h
                                /\ DeviceIs(o.dev, tables["queues"][i].owner)'
    <3>1. CASE i = id
      <4>1. tables'["queues"][i].h = q.h /\ tables'["queues"][i].owner = own
        BY <1>10, <3>1
      <4>2. DeviceIs(q.dev, tables["queues"][i].owner)'
        BY <1>1, <1>4, <1>6, <4>1 DEF DeviceIs
      <4>3. QED
        BY <1>1, <1>4, <4>1, <4>2
    <3>2. CASE i \in AllIds("queues")
      <4>1. tables'["queues"][i] = tables["queues"][i]
        BY <2>1, <3>2
      <4>2. PICK o \in live : /\ o.kind = "queues" /\ o.h = tables["queues"][i].h
                              /\ DeviceIs(o.dev, tables["queues"][i].owner)
        BY <1>2, <2>2, <3>2, <4>1 DEF ObjectInv, QueueInv
      <4>3. DeviceIs(o.dev, tables["queues"][i].owner)'
        BY <1>1, <4>1, <4>2 DEF DeviceIs
      <4>4. QED
        BY <1>1, <4>1, <4>2, <4>3
    <3>3. QED
      BY <1>10, <2>2, <3>1, <3>2
  <2>3. \A i, j \in AllIds("queues")' :
          tables'["queues"][i].h # Null /\ tables'["queues"][i] = tables'["queues"][j] => i = j
    <3>1. \A i, j \in AllIds("queues") :
            tables["queues"][i].h # Null /\ tables["queues"][i] = tables["queues"][j] => i = j
      BY <1>2 DEF ObjectInv, QueueInv
    <3>2. \A i \in AllIds("queues") : tables["queues"][i] # tables'["queues"][id]
      BY <1>4, <1>5, <1>10
    <3>3. QED
      BY <1>10, <2>1, <3>1, <3>2
  <2>4. QED
    BY <2>2, <2>3 DEF QueueInv
<1>12. Grows({})
  <2>1. Introduced({})
    BY <1>10, <1>11 DEF Introduced
  <2>2. QED
    BY <1>1, <1>2, <1>10, <2>1 DEF Grows, Fresh
<1>13. \A k \in RegisteredKinds : tables'[k] = tables[k]
  BY <1>10, KindFacts DEF RegisteredKinds
<1>14. TypeInv' /\ ObjectInv' /\ MapInv'
  BY <1>1, <1>2, <1>10, <1>12, <1>13, PlainGrows
<1>15. QED
  BY <1>1, <1>2, <1>14, ServingStep

\* handle_CreateGraphicsPipelines: several names at once.
LEMMA CreatePipelinesStep ==
  ASSUME ObjectsInv, CreatePipelines
  PROVE  ObjectsInv'
<1>. DEFINE k == "pipelines"
<1>1. /\ Serving /\ UNCHANGED maps /\ UNCHANGED <<doing, orphaned>> /\ faults' = faults
  BY DEF CreatePipelines, watched
<1>2. /\ TypeInv /\ StateType /\ ObjectInv /\ MapInv /\ faults = {}
      /\ doing.h = Null /\ doing.at = "serving"
  BY <1>1, ServingInv
<1>3. PICK d \in LiveDevices : \E n \in 1 .. Cardinality(Handles) :
        \E refs \in RefChoices(k, d) : \E made \in NewHandles(k, n) :
         /\ tables' = [tables EXCEPT ![k] =
                         tables[k] \o [i \in 1 .. n |-> [h |-> made[i], owner |-> Native(d)]]]
         /\ live' = live \cup {Object(k, NewId(k) + i - 1, made[i], d, <<>>, refs) : i \in 1 .. n}
  BY DEF CreatePipelines
<1>4. PICK n \in 1 .. Cardinality(Handles) :
        \E refs \in RefChoices(k, d) : \E made \in NewHandles(k, n) :
         /\ tables' = [tables EXCEPT ![k] =
                         tables[k] \o [i \in 1 .. n |-> [h |-> made[i], owner |-> Native(d)]]]
         /\ live' = live \cup {Object(k, NewId(k) + i - 1, made[i], d, <<>>, refs) : i \in 1 .. n}
  BY <1>3
<1>5. PICK refs \in RefChoices(k, d) : \E made \in NewHandles(k, n) :
         /\ tables' = [tables EXCEPT ![k] =
                         tables[k] \o [i \in 1 .. n |-> [h |-> made[i], owner |-> Native(d)]]]
         /\ live' = live \cup {Object(k, NewId(k) + i - 1, made[i], d, <<>>, refs) : i \in 1 .. n}
  BY <1>4
<1>6. PICK made \in NewHandles(k, n) :
         /\ tables' = [tables EXCEPT ![k] =
                         tables[k] \o [i \in 1 .. n |-> [h |-> made[i], owner |-> Native(d)]]]
         /\ live' = live \cup {Object(k, NewId(k) + i - 1, made[i], d, <<>>, refs) : i \in 1 .. n}
  BY <1>5
<1>7. n \in Nat
  <2>1. Cardinality(Handles) \in Nat
    BY HandlesAssumption, FS_CardinalityType
  <2>2. QED
    BY <2>1
<1>8. /\ \A i \in 1 .. n : made[i] \in Handles /\ \A o \in live : o.kind = k => o.h # made[i]
      /\ \A i, j \in 1 .. n : made[i] = made[j] => i = j
  <2>1. /\ \A i \in 1 .. n : made[i] \in FreeHandles(k)
        /\ \A i, j \in 1 .. n : i < j => made[i] < made[j]
    BY DEF NewHandles
  <2>2. \A i \in 1 .. n : made[i] \in Handles /\ \A o \in live : o.kind = k => o.h # made[i]
    BY <2>1 DEF FreeHandles, Objects
  <2>3. ASSUME NEW i \in 1 .. n, NEW j \in 1 .. n, made[i] = made[j] PROVE i = j
    <3>0. made[i] \in Nat
      BY <2>2, Consts
    <3>1. ~(made[i] < made[i])
      BY <3>0
    <3>2. i \in Nat /\ j \in Nat
      BY <1>7
    <3>3. ~(i < j) /\ ~(j < i)
      BY <2>1, <2>3, <3>1
    <3>4. QED
      BY <3>2, <3>3
  <2>4. QED
    BY <2>2, <2>3
<1>9. PICK own, len, s : /\ own = Native(d) /\ len = Len(tables[k])
                         /\ s = [i \in 1 .. n |-> [h |-> made[i], owner |-> own]]
  OBVIOUS
<1>10. DeviceIs(d, own) /\ own \in Handles /\ d \in Nat /\ d # Null
  BY <1>2, <1>9, LiveDevice
<1>11. tables[k] \in Seq(Slot) /\ len \in Nat /\ k \in Kinds /\ tables \in [Kinds -> Seq(Slot)]
  BY <1>2, <1>9, KindFacts, SlotFacts DEF StateType
<1>12. s \in Seq(Slot) /\ Len(s) = n /\ \A i \in 1 .. n : s[i] = [h |-> made[i], owner |-> own]
  <2>1. \A i \in 1 .. n : [h |-> made[i], owner |-> own] \in Slot
    BY <1>8, <1>10 DEF Slot
  <2>2. s \in [1 .. n -> Slot]
    BY <1>9, <2>1
  <2>3. QED
    BY <1>7, <1>9, <2>2
<1>13. tables' = [tables EXCEPT ![k] = tables[k] \o s]
  BY <1>6, <1>9
<1>14. /\ tables[k] \o s \in Seq(Slot) /\ Len(tables[k] \o s) = len + n
       /\ \A i \in 1 .. len : (tables[k] \o s)[i] = tables[k][i]
       /\ \A i \in 1 .. n : (tables[k] \o s)[len + i] = s[i]
  BY <1>7, <1>9, <1>11, <1>12
<1>15. /\ tables' \in [Kinds -> Seq(Slot)] /\ Len(tables'[k]) = len + n
       /\ \A i \in 1 .. len : tables'[k][i] = tables[k][i]
       /\ \A i \in 1 .. n : tables'[k][len + i].h = made[i] /\ tables'[k][len + i].owner = own
       /\ \A x \in Kinds : x # k => tables'[x] = tables[x]
  BY <1>11, <1>12, <1>13, <1>14
<1>16. PICK new : new = {Object(k, NewId(k) + i - 1, made[i], d, <<>>, refs) : i \in 1 .. n}
  OBVIOUS
<1>17. live' = live \cup new
  BY <1>6, <1>16
<1>18. \A m \in new : \E i \in 1 .. n :
          /\ m.kind = k /\ m.id = len + i /\ m.h = made[i] /\ m.dev = d /\ m.parent = <<>>
          /\ m.refs = refs /\ m = Object(k, len + i, made[i], d, <<>>, refs)
  <2>1. SUFFICES ASSUME NEW i \in 1 .. n,
                        NEW m, m = Object(k, NewId(k) + i - 1, made[i], d, <<>>, refs)
                 PROVE  /\ m.kind = k /\ m.id = len + i /\ m.h = made[i] /\ m.dev = d
                        /\ m.parent = <<>>
                        /\ m.refs = refs /\ m = Object(k, len + i, made[i], d, <<>>, refs)
    BY <1>16
  <2>2. NewId(k) + i - 1 = len + i
    BY <1>7, <1>9, <1>11 DEF NewId
  <2>3. QED
    BY <2>1, <2>2, ObjectFields
<1>19. \A i \in 1 .. n : \E m \in new : m.kind = k /\ m.id = len + i /\ m.h = made[i] /\ m.dev = d
  <2>1. SUFFICES ASSUME NEW i \in 1 .. n
                 PROVE  \E m \in new : m.kind = k /\ m.id = len + i /\ m.h = made[i] /\ m.dev = d
    OBVIOUS
  <2>2. PICK m \in new : m = Object(k, NewId(k) + i - 1, made[i], d, <<>>, refs)
    BY <1>16
  <2>3. NewId(k) + i - 1 = len + i
    BY <1>7, <1>9, <1>11 DEF NewId
  <2>4. QED
    BY <2>2, <2>3, ObjectFields
<1>20. Kept
  <2>1. \A x \in Kinds : Len(tables[x]) \in Nat
    BY <1>2, SlotFacts
  <2>2. Len(tables[k]) <= Len(tables'[k]) /\ \A i \in AllIds(k) : tables'[k][i] = tables[k][i]
    BY <1>7, <1>9, <1>11, <1>15 DEF AllIds, Ids
  <2>3. ASSUME NEW x \in Kinds, x # k
        PROVE  Len(tables[x]) <= Len(tables'[x]) /\ \A i \in AllIds(x) : tables'[x][i] = tables[x][i]
    BY <1>15, <2>1, <2>3
  <2>4. QED
    BY <2>2, <2>3 DEF Kept
<1>21. \A x \in Kinds : x # k => AllIds(x)' = AllIds(x)
  BY <1>15 DEF AllIds, Ids
<1>22. StateType'
  <2>1. \A o \in new : IsObject(o)
    <3>1. SUFFICES ASSUME NEW i \in 1 .. n PROVE IsObject(Object(k, len + i, made[i], d, <<>>, refs))
      BY <1>18
    <3>2. len + i \in Nat
      BY <1>7, <1>11
    <3>3. QED
      BY <1>8, <1>10, <1>11, <3>2, ObjectIs
  <2>2. tables'["devices"] = tables["devices"] /\ AllIds("command_buffers")' = AllIds("command_buffers")
    BY <1>15, <1>21, KindFacts
  <2>3. \A o \in live' : IsObject(o)
    BY <1>2, <1>17, <2>1 DEF StateType
  <2>4. QED
    BY <1>1, <1>2, <1>15, <2>2, <2>3 DEF StateType
<1>23. Fresh(new)
  <2>1. \A m \in new : \A o \in live : m.kind = o.kind => m.h # o.h
    BY <1>8, <1>18
  <2>2. \A m \in new : m.kind = k /\ m.id > Len(tables[k])
    BY <1>7, <1>9, <1>11, <1>18
  <2>3. ASSUME NEW m \in new, NEW m2 \in new, m.h = m2.h \/ m.id = m2.id
        PROVE  m = m2
    <3>1. PICK i \in 1 .. n : m.id = len + i /\ m.h = made[i] /\ m = Object(k, len + i, made[i], d, <<>>, refs)
      BY <1>18
    <3>2. PICK j \in 1 .. n : m2.id = len + j /\ m2.h = made[j] /\ m2 = Object(k, len + j, made[j], d, <<>>, refs)
      BY <1>18
    <3>3. i = j
      BY <1>7, <1>8, <1>11, <2>3, <3>1, <3>2
    <3>4. QED
      BY <3>1, <3>2, <3>3
  <2>4. QED
    BY <2>1, <2>2, <2>3 DEF Fresh
<1>24. ASSUME NEW m \in new
       PROVE  /\ ShapeOK(m)' /\ m.kind = k /\ m.id # Null
              /\ tables'[m.kind][m.id].h = m.h /\ OwnerIs(m, tables[m.kind][m.id].owner)'
  <2>1. PICK i \in 1 .. n : /\ m.kind = k /\ m.id = len + i /\ m.h = made[i] /\ m.dev = d /\ m.parent = <<>>
                            /\ m.refs = refs
    BY <1>18
  <2>2. m.id # Null /\ m.id <= Len(tables'[k])
    BY <1>7, <1>11, <1>15, <2>1, Consts
  <2>3. HasName(m)' /\ HasParent(m)'
    BY <2>1, <2>2 DEF HasName, HasParent
  <2>4. HasDevice(m)'
    BY <1>10, <1>17, <2>1 DEF HasDevice, DeviceIs
  <2>5. HasRefs(m)'
    <3>1. RightRefs(k, d, refs)
      BY <1>2, RefFacts
    <3>2. \A p \in live' : p \in live \/ p.dev = d
      BY <1>17, <1>18
    <3>3. \A x \in Refers(k) : AllIds(x) \subseteq AllIds(x)'
      BY <1>2, <1>20, <1>22, KeptIds, RefersKinds
    <3>4. QED
      BY <2>1, <3>1, <3>2, <3>3 DEF HasRefs, RightRefs
  <2>6. tables'[m.kind][m.id].h = m.h /\ tables'[m.kind][m.id].owner = own
    BY <1>15, <2>1
  <2>7. OwnerIs(m, tables[m.kind][m.id].owner)'
    BY <1>10, <1>17, <2>1, <2>6 DEF OwnerIs, DeviceIs
  <2>8. QED
    BY <2>1, <2>2, <2>3, <2>4, <2>5, <2>6, <2>7 DEF ShapeOK
<1>25. Introduced(new)
  <2>1. ASSUME NEW x \in Kinds \ {"queues"}, NEW i \in AllIds(x)' \ AllIds(x)
        PROVE  \E m \in new : /\ m.kind = x /\ m.id = i /\ m.h = tables'[x][i].h
                              /\ OwnerIs(m, tables[x][i].owner)'
    <3>1. x = k
      BY <1>21
    <3>2. i \in 1 .. len + n /\ i \notin 1 .. len
      BY <1>9, <1>15, <3>1 DEF AllIds, Ids
    <3>3. PICK j \in 1 .. n : i = len + j
      <4>1. i - len \in 1 .. n /\ i = len + (i - len)
        BY <1>7, <1>11, <3>2
      <4>2. QED
        BY <4>1
    <3>4. PICK m \in new : m.kind = k /\ m.id = len + j
      BY <1>19
    <3>5. QED
      BY <1>24, <3>1, <3>3, <3>4
  <2>2. tables'["queues"] = tables["queues"]
    BY <1>15, KindFacts
  <2>3. QED
    BY <1>24, <2>1, <2>2 DEF Introduced
<1>26. Grows(new)
  BY <1>1, <1>2, <1>17, <1>20, <1>23, <1>25 DEF Grows
<1>27. \A x \in RegisteredKinds : tables'[x] = tables[x]
  BY <1>15, KindFacts DEF RegisteredKinds
<1>28. \A m \in new : m.kind = k
  BY <1>18
<1>29. TypeInv' /\ ObjectInv' /\ MapInv'
  BY <1>1, <1>2, <1>22, <1>26, <1>27, <1>28, PlainGrows
<1>30. QED
  BY <1>1, <1>2, <1>29, ServingStep

\* handle_CreateSwapchainKHR: the images come with the swapchain, unnamed.
LEMMA CreateSwapchainStep ==
  ASSUME ObjectsInv, CreateSwapchain
  PROVE  ObjectsInv'
<1>. DEFINE k == "swapchains"
<1>1. /\ Serving /\ HasHandle(k) /\ HasHandle("images")
      /\ UNCHANGED <<doing, orphaned>> /\ faults' = faults
      /\ registered' = registered /\ descriptor_set_owners' = descriptor_set_owners
      /\ command_buffer_devices' = command_buffer_devices
      /\ swapchain_image_ids' = swapchain_image_ids
  BY DEF CreateSwapchain, watched
<1>2. /\ TypeInv /\ StateType /\ ObjectInv /\ MapInv /\ faults = {}
      /\ doing.h = Null /\ doing.at = "serving"
  BY <1>1, ServingInv
<1>3. PICK d \in LiveDevices : \E s \in Held("surfaces", Null) :
       /\ tables' = Add(tables, k, NewHandle(k), Native(d))
       /\ live' = live \cup {Object(k, NewId(k), NewHandle(k), d, <<>>, {<<"surfaces", s>>}),
                             Object("images", Null, NewHandle("images"), d, <<k, NewId(k)>>, {})}
       /\ swapchain_devices' = Put(swapchain_devices, NewHandle(k), Native(d))
       /\ swapchain_surfaces' = Put(swapchain_surfaces, NewHandle(k), Get(tables, "surfaces", s))
  BY DEF CreateSwapchain
<1>4. PICK s \in Held("surfaces", Null) :
       /\ tables' = Add(tables, k, NewHandle(k), Native(d))
       /\ live' = live \cup {Object(k, NewId(k), NewHandle(k), d, <<>>, {<<"surfaces", s>>}),
                             Object("images", Null, NewHandle("images"), d, <<k, NewId(k)>>, {})}
       /\ swapchain_devices' = Put(swapchain_devices, NewHandle(k), Native(d))
       /\ swapchain_surfaces' = Put(swapchain_surfaces, NewHandle(k), Get(tables, "surfaces", s))
  BY <1>3
<1>5. PICK id, h, ih, own : id = NewId(k) /\ h = NewHandle(k) /\ ih = NewHandle("images") /\ own = Native(d)
  OBVIOUS
<1>6. PICK c : c = Object(k, id, h, d, <<>>, {<<"surfaces", s>>})
  OBVIOUS
<1>7. PICK m : m = Object("images", Null, ih, d, <<k, id>>, {})
  OBVIOUS
<1>8. /\ tables' = Add(tables, k, h, own) /\ live' = live \cup {c, m}
      /\ swapchain_devices' = Put(swapchain_devices, h, own)
      /\ swapchain_surfaces' = Put(swapchain_surfaces, h, Get(tables, "surfaces", s))
  BY <1>4, <1>5, <1>6, <1>7
<1>9. /\ h \in Handles /\ \A o \in live : o.kind = k => o.h # h
      /\ ih \in Handles /\ \A o \in live : o.kind = "images" => o.h # ih
  BY <1>1, <1>5, HandleFacts
<1>10. DeviceIs(d, own) /\ own \in Handles /\ d \in Nat /\ d # Null
  BY <1>2, <1>5, LiveDevice
<1>11. Added(tables', tables, k, h, own)
  BY <1>2, <1>8, <1>9, <1>10, AddFacts, KindFacts DEF StateType
<1>12. id = Len(tables[k]) + 1 /\ Len(tables[k]) \in Nat /\ id \in Nat /\ id # Null
  BY <1>5, <1>11, Consts DEF NewId, Added
<1>13. \A o \in live' : IsObject(o)
  <2>1. IsObject(c)
    BY <1>6, <1>9, <1>10, <1>12, ObjectIs, KindFacts
  <2>2. Null \in Nat
    BY Consts
  <2>3. IsObject(m)
    BY <1>7, <1>9, <1>10, <2>2, ObjectIs, KindFacts
  <2>4. QED
    BY <1>2, <1>8, <2>1, <2>3 DEF StateType
<1>14. /\ StateType' /\ Kept
       /\ AllIds(k)' = AllIds(k) \cup {id} /\ id \notin AllIds(k)
       /\ tables'[k][id] = [h |-> h, owner |-> own]
       /\ \A x \in Kinds : x # k => tables'[x] = tables[x] /\ AllIds(x)' = AllIds(x)
  BY <1>1, <1>2, <1>11, <1>12, <1>13, AddedType, KindFacts
<1>15. /\ c.kind = k /\ c.id = id /\ c.h = h /\ c.dev = d /\ c.parent = <<>>
       /\ c.refs = {<<"surfaces", s>>}
  BY <1>6, ObjectFields
<1>16. /\ m.kind = "images" /\ m.id = Null /\ m.h = ih /\ m.dev = d /\ m.parent = <<k, id>>
       /\ m.refs = {}
  BY <1>7, ObjectFields
<1>17. Fresh({c, m})
  BY <1>9, <1>12, <1>15, <1>16 DEF Fresh
<1>18. ShapeOK(c)'
  <2>1. HasName(c)'
    BY <1>11, <1>12, <1>15 DEF HasName, Added
  <2>2. HasDevice(c)' /\ HasParent(c)'
    BY <1>8, <1>10, <1>15 DEF HasDevice, HasParent, DeviceIs
  <2>3. HasRefs(c)'
    <3>1. PICK x \in live : x.kind = "surfaces" /\ x.id = s /\ s # Null
      BY HeldFacts
    <3>2. s \in AllIds("surfaces")'
      BY <1>2, <1>14, <3>1, NameInTable, KindFacts
    <3>3. "surfaces" \in Refers(k)
      BY DEF Refers
    <3>4. QED
      BY <1>15, <3>2, <3>3 DEF HasRefs
  <2>4. QED
    BY <2>1, <2>2, <2>3 DEF ShapeOK
<1>19. ShapeOK(m)'
  <2>1. m.parent # <<>>
    BY <1>16, Pairs
  <2>2. HasName(m)'
    <3>1. Len(tables["images"]) \in Nat /\ tables'["images"] = tables["images"]
      BY <1>2, <1>14, SlotFacts, KindFacts
    <3>2. QED
      BY <1>16, <2>1, <3>1, Consts DEF HasName
  <2>3. HasDevice(m)' /\ HasRefs(m)'
    BY <1>8, <1>10, <1>16 DEF HasDevice, HasRefs, DeviceIs
  <2>4. c \in live' /\ m.parent = <<c.kind, c.id>> /\ <<m.kind, c.kind>> \in Parentage /\ c.dev = m.dev
    BY <1>8, <1>15, <1>16 DEF Parentage
  <2>5. HasParent(m)'
    BY <1>16, <2>1, <2>4 DEF HasParent
  <2>6. QED
    BY <2>2, <2>3, <2>5 DEF ShapeOK
<1>20. Introduced({c, m})
  <2>1. tables'[k][id].h = h /\ tables'[k][id].owner = own
    BY <1>14
  <2>2. OwnerIs(c, tables[k][id].owner)'
    BY <1>8, <1>10, <1>15, <2>1 DEF OwnerIs, DeviceIs
  <2>3. \A n \in {c, m} : n.id # Null /\ n.kind # "queues" =>
          tables'[n.kind][n.id].h = n.h /\ OwnerIs(n, tables[n.kind][n.id].owner)'
    BY <1>15, <1>16, <2>1, <2>2
  <2>4. \A x \in Kinds \ {"queues"} : \A i \in AllIds(x)' \ AllIds(x) : x = k /\ i = id
    BY <1>14
  <2>5. \A x \in Kinds \ {"queues"} : \A i \in AllIds(x)' \ AllIds(x) : tables'[x][i].h # Null =>
          \E n \in {c, m} : /\ n.kind = x /\ n.id = i /\ n.h = tables'[x][i].h
                            /\ OwnerIs(n, tables[x][i].owner)'
    BY <1>15, <2>1, <2>2, <2>4
  <2>6. QED
    BY <1>14, <1>18, <1>19, <2>3, <2>5, KindFacts DEF Introduced
<1>21. Grows({c, m})
  BY <1>1, <1>2, <1>8, <1>14, <1>17, <1>20 DEF Grows
<1>22. /\ RegType /\ SetType /\ ChainType /\ DOMAIN command_buffer_devices \subseteq Handles
       /\ RegInv /\ SetInv /\ BufferInv /\ ChainInv /\ ImageInv
  BY <1>2 DEF TypeInv, MapInv
<1>23. \A x \in Kinds : AllIds(x) \subseteq AllIds(x)'
  BY <1>2, <1>14, KeptIds
<1>24. /\ DOMAIN swapchain_devices' = DOMAIN swapchain_devices \cup {h}
       /\ DOMAIN swapchain_surfaces' = DOMAIN swapchain_surfaces \cup {h}
       /\ swapchain_devices'[h] = own
       /\ \A x \in DOMAIN swapchain_devices : x # h => swapchain_devices'[x] = swapchain_devices[x]
  BY <1>8 DEF Put
<1>25. ChainInv'
  <2>1. ASSUME NEW o \in live', o.kind = k
        PROVE  o.h \in DOMAIN swapchain_devices' /\ DeviceIs(o.dev, swapchain_devices[o.h])'
    <3>1. CASE o = c
      BY <1>8, <1>10, <1>15, <1>24, <3>1 DEF DeviceIs
    <3>2. CASE o \in live
      <4>1. o.h \in DOMAIN swapchain_devices /\ DeviceIs(o.dev, swapchain_devices[o.h])
        BY <1>22, <2>1, <3>2 DEF ChainInv
      <4>2. swapchain_devices'[o.h] = swapchain_devices[o.h]
        BY <1>9, <1>24, <2>1, <3>2, <4>1
      <4>3. QED
        BY <1>8, <1>24, <4>1, <4>2 DEF DeviceIs
    <3>3. QED
      BY <1>8, <1>16, <2>1, <3>1, <3>2
  <2>2. \A x \in DOMAIN swapchain_devices' : \E o \in live' : o.kind = k /\ o.h = x
    BY <1>2, <1>8, <1>15, <1>22, <1>24 DEF ChainInv
  <2>3. DOMAIN swapchain_surfaces' = DOMAIN swapchain_devices'
    BY <1>22, <1>24 DEF ChainInv
  <2>4. QED
    BY <2>1, <2>2, <2>3 DEF ChainInv
<1>26. ImageInv'
  <2>1. \A x : ImageIdsOf(x)' = ImageIdsOf(x)
    BY <1>1 DEF ImageIdsOf
  <2>2. \A o \in live' : o.kind = "images" /\ o.id # Null /\ o.parent # <<>> =>
          o.id \in ImageIdsOf(o.parent[2])
    BY <1>8, <1>15, <1>16, <1>22 DEF ImageInv
  <2>3. \A x \in DOMAIN swapchain_image_ids : \A i \in ImageIdsOf(x) :
          /\ i \in AllIds("images")'
          /\ \A o \in live' : o.kind = "images" /\ o.id = i => o.parent = <<"swapchains", x>>
    <3>1. \A i \in AllIds("images") : i # Null /\ i \in AllIds("images")'
      BY <1>2, <1>23, SlotFacts, KindFacts, Consts
    <3>2. QED
      BY <1>8, <1>15, <1>16, <1>22, <3>1 DEF ImageInv
  <2>4. \A o \in live' : o.kind = "swapchains" =>
          \E x \in live' : x.kind = "images" /\ x.parent = <<"swapchains", o.id>>
    BY <1>8, <1>15, <1>16, <1>22 DEF ImageInv
  <2>5. QED
    BY <1>1, <2>1, <2>2, <2>3, <2>4 DEF ImageInv
<1>27. ChainType'
  BY <1>1, <1>9, <1>22, <1>23, <1>24, KindFacts DEF ChainType
<1>28. TypeInv'
  BY <1>1, <1>14, <1>22, <1>23, <1>27, MapTypes DEF TypeInv
<1>29. ObjectInv'
  BY <1>2, <1>14, <1>21, GrowsKeeps
<1>30. RegInv' /\ SetInv' /\ BufferInv'
  <2>1. RegInv'
    <3>1. \A y \in RegisteredKinds : tables'[y] = tables[y]
      BY <1>14, KindFacts DEF RegisteredKinds
    <3>2. QED
      BY <1>1, <1>2, <1>22, <3>1, RegKept
  <2>2. SetInv'
    BY <1>1, <1>15, <1>16, <1>21, <1>22, SetGrows
  <2>3. BufferInv'
    BY <1>1, <1>15, <1>16, <1>21, <1>22, BufferGrows
  <2>4. QED
    BY <2>1, <2>2, <2>3
<1>31. QED
  BY <1>1, <1>2, <1>25, <1>26, <1>28, <1>29, <1>30, ServingStep DEF MapInv

\* An image of a swapchain gets a name, and is the same image.
RenamedTo(img, m, id, own) ==
  /\ doing.h = Null /\ UNCHANGED <<doing, orphaned>>
  /\ img \in live /\ img.kind = "images" /\ img.id = Null
  /\ id = Len(tables["images"]) + 1 /\ m = Object("images", id, img.h, img.dev, img.parent, img.refs)
  /\ DeviceIs(img.dev, own)
  /\ live' = (live \ {img}) \cup {m}
  /\ Added(tables', tables, "images", img.h, own)

LEMMA RenameKeeps ==
  ASSUME StateType, ObjectInv, NEW img, NEW m, NEW id, NEW own, RenamedTo(img, m, id, own)
  PROVE  StateType' /\ ObjectInv'
<1>1. /\ doing.h = Null /\ UNCHANGED <<doing, orphaned>>
      /\ img \in live /\ img.kind = "images" /\ img.id = Null
      /\ id = Len(tables["images"]) + 1
      /\ m = Object("images", id, img.h, img.dev, img.parent, img.refs)
      /\ DeviceIs(img.dev, own) /\ live' = (live \ {img}) \cup {m}
      /\ Added(tables', tables, "images", img.h, own)
  BY DEF RenamedTo
<1>2. IsObject(img) /\ ShapeOK(img)
  BY <1>1 DEF StateType, ObjectInv, ShapeInv, ShapeOK
<1>3. /\ m.kind = "images" /\ m.id = id /\ m.h = img.h /\ m.dev = img.dev
      /\ m.parent = img.parent /\ m.refs = img.refs
  BY <1>1, ObjectFields
<1>4. Len(tables["images"]) \in Nat /\ id \in Nat /\ id # Null
  BY <1>1, Consts DEF Added
<1>5. \A o \in live' : IsObject(o)
  <2>1. IsObject(m)
    <3>1. img.h \in Handles /\ img.dev \in Nat
      BY <1>2 DEF IsObject
    <3>2. QED
      BY <1>1, <1>4, <3>1, ObjectIs, KindFacts
  <2>2. QED
    BY <1>1, <2>1 DEF StateType
<1>6. /\ StateType' /\ Kept
      /\ AllIds("images")' = AllIds("images") \cup {id} /\ id \notin AllIds("images")
      /\ tables'["images"][id] = [h |-> img.h, owner |-> own]
      /\ \A x \in Kinds : x # "images" => tables'[x] = tables[x] /\ AllIds(x)' = AllIds(x)
  BY <1>1, <1>5, AddedType, KindFacts
<1>7. /\ \A o \in live : o # img => o \in live'
      /\ \A o \in live' : o = m \/ (o \in live /\ o # img)
  BY <1>1
<1>8. \A d, h : DeviceIs(d, h) => DeviceIs(d, h)'
  BY <1>1, <1>7 DEF DeviceIs
<1>9. \A o \in live : o.kind = "images" => o.id <= Len(tables["images"]) /\ o.id \in Nat
  BY DEF StateType, IsObject, ObjectInv, ShapeInv, HasName
<1>10. UniqueInv'
  <2>1. \A o \in live : o.kind = "images" => o.id # id
    BY <1>1, <1>4, <1>9
  <2>2. \A o \in live : o.kind = "images" /\ o.h = img.h => o = img
    BY <1>1 DEF ObjectInv, UniqueInv
  <2>3. \A o, p \in live : (o.kind = p.kind /\ o.h = p.h) \/ (o.kind = p.kind /\ o.id = p.id /\ o.id # Null) => o = p
    BY DEF ObjectInv, UniqueInv
  <2>4. QED
    BY <1>3, <1>7, <2>1, <2>2, <2>3 DEF UniqueInv
<1>11. \A k \in Kinds : Len(tables[k]) <= Len(tables'[k]) /\ Len(tables[k]) \in Nat /\ Len(tables'[k]) \in Nat
  <2>1. \A k \in Kinds : tables'[k] \in Seq(Slot)
    BY <1>6 DEF StateType
  <2>2. QED
    BY <1>6, <2>1, SlotFacts DEF Kept
<1>12. ASSUME NEW o \in live, NEW n \in live', n = o \/ (o = img /\ n = m)
       PROVE  HasDevice(n)' /\ HasParent(n)' /\ HasRefs(n)'
  <2>1. ShapeOK(o) /\ IsObject(o)
    BY DEF StateType, ObjectInv, ShapeInv, ShapeOK
  <2>2. n.kind = o.kind /\ n.dev = o.dev /\ n.parent = o.parent /\ n.refs = o.refs
    BY <1>1, <1>3, <1>12
  <2>3. HasDevice(n)'
    BY <1>1, <1>7, <2>1, <2>2 DEF ShapeOK, HasDevice
  <2>4. HasParent(n)'
    <3>1. CASE o.parent = <<>>
      BY <2>1, <2>2, <3>1 DEF ShapeOK, HasParent
    <3>2. CASE o.parent # <<>>
      <4>1. PICK p \in live : /\ o.parent = <<p.kind, p.id>> /\ <<o.kind, p.kind>> \in Parentage
                              /\ IF o.kind = "queues" THEN p.id = o.dev ELSE p.dev = o.dev
        BY <2>1, <3>2 DEF ShapeOK, HasParent
      <4>2. p.kind # "images"
        BY <4>1, Pairs DEF Parentage
      <4>3. p \in live'
        BY <1>1, <1>7, <4>2
      <4>4. QED
        BY <2>2, <3>2, <4>1, <4>3 DEF HasParent
    <3>3. QED
      BY <3>1, <3>2
  <2>5. HasRefs(n)'
    <3>1. SUFFICES ASSUME NEW r \in o.refs
                   PROVE  \E k \in Refers(o.kind) : \E i \in AllIds(k)' :
                            /\ r = <<k, i>>
                            /\ \A p \in live' : p.kind = k /\ p.id = i => p.dev = o.dev \/ k = "surfaces"
      BY <2>2 DEF HasRefs
    <3>2. PICK k \in Refers(o.kind) : \E i \in AllIds(k) :
            /\ r = <<k, i>>
            /\ \A p \in live : p.kind = k /\ p.id = i => p.dev = o.dev \/ k = "surfaces"
      BY <2>1 DEF ShapeOK, HasRefs
    <3>3. PICK i \in AllIds(k) :
            /\ r = <<k, i>>
            /\ \A p \in live : p.kind = k /\ p.id = i => p.dev = o.dev \/ k = "surfaces"
      BY <3>2
    <3>4. k \in Kinds
      BY RefersKinds
    <3>5. i \in AllIds(k)'
      BY <1>6, <3>4, KeptIds
    <3>6. ~ (m.kind = k /\ m.id = i)
      BY <1>3, <1>6
    <3>7. QED
      BY <1>7, <3>3, <3>5, <3>6
  <2>6. QED
    BY <2>3, <2>4, <2>5
<1>13. ShapeInv'
  <2>1. ASSUME NEW o \in live, o # img PROVE HasName(o)'
    <3>1. HasName(o) /\ IsObject(o)
      BY DEF StateType, ObjectInv, ShapeInv
    <3>2. o.kind # "queues" => o.id <= Len(tables'[o.kind])
      BY <1>11, <3>1 DEF HasName, IsObject
    <3>3. QED
      BY <3>1, <3>2 DEF HasName
  <2>2. HasName(m)'
    BY <1>1, <1>3, <1>4 DEF HasName, Added
  <2>3. QED
    BY <1>1, <1>7, <1>12, <2>1, <2>2 DEF ShapeInv
<1>14. NameInv'
  <2>1. SUFFICES ASSUME NEW k \in Kinds \ {"queues"}, NEW i \in AllIds(k)', tables'[k][i].h # Null
                 PROVE  \/ Loose(k, i)'
                        \/ \E o \in live' : /\ o.kind = k /\ o.id = i /\ o.h = tables'[k][i].h
                                            /\ OwnerIs(o, tables[k][i].owner)'
    BY DEF NameInv
  <2>2. CASE i \in AllIds(k)
    <3>1. tables'[k][i] = tables[k][i] /\ i # Null
      BY <1>6, <2>2, SlotFacts, Consts DEF Kept
    <3>2. CASE Loose(k, i)
      BY <1>1, <3>2 DEF Loose
    <3>3. CASE ~ Loose(k, i)
      <4>1. PICK o \in live : /\ o.kind = k /\ o.id = i /\ o.h = tables[k][i].h
                              /\ OwnerIs(o, tables[k][i].owner)
        BY <2>1, <2>2, <3>1, <3>3 DEF ObjectInv, NameInv
      <4>2. o \in live'
        BY <1>1, <1>7, <3>1, <4>1
      <4>3. OwnerIs(o, tables[k][i].owner)'
        BY <1>8, <3>1, <4>1 DEF OwnerIs, DeviceIs
      <4>4. QED
        BY <3>1, <4>1, <4>2, <4>3
    <3>4. QED
      BY <3>2, <3>3
  <2>3. CASE i \notin AllIds(k)
    <3>1. k = "images" /\ i = id
      BY <1>6, <2>1, <2>3
    <3>2. tables'[k][i].h = m.h /\ tables'[k][i].owner = own /\ m \in live'
      BY <1>1, <1>3, <1>6, <3>1
    <3>3. OwnerIs(m, tables[k][i].owner)'
      BY <1>1, <1>3, <1>8, <3>2 DEF OwnerIs, DeviceIs
    <3>4. QED
      BY <1>3, <3>1, <3>2, <3>3
  <2>4. QED
    BY <2>2, <2>3
<1>15. NamedInv'
  <2>1. SUFFICES ASSUME NEW o \in live', o.id # Null, o.kind # "queues"
                 PROVE  tables'[o.kind][o.id].h = o.h /\ OwnerIs(o, tables[o.kind][o.id].owner)'
    BY DEF NamedInv
  <2>2. CASE o = m
    <3>1. tables'[o.kind][o.id].h = o.h /\ tables'[o.kind][o.id].owner = own
      BY <1>3, <1>6, <2>2
    <3>2. OwnerIs(o, tables[o.kind][o.id].owner)'
      <4>1. o.kind = "images" /\ o.dev = img.dev
        BY <1>3, <2>2
      <4>2. DeviceIs(img.dev, own)'
        BY <1>1, <1>8
      <4>3. QED
        BY <3>1, <4>1, <4>2 DEF OwnerIs, DeviceIs
    <3>3. QED
      BY <3>1, <3>2
  <2>3. CASE o \in live
    <3>1. /\ tables[o.kind][o.id].h = o.h /\ OwnerIs(o, tables[o.kind][o.id].owner)
          /\ o.kind \in Kinds /\ o.id \in AllIds(o.kind)
      BY <1>1, <2>1, <2>3, NameOf
    <3>2. tables'[o.kind][o.id] = tables[o.kind][o.id]
      BY <1>6, <3>1 DEF Kept
    <3>3. OwnerIs(o, tables[o.kind][o.id].owner)'
      BY <1>8, <3>1, <3>2 DEF OwnerIs, DeviceIs
    <3>4. QED
      BY <3>1, <3>2, <3>3
  <2>4. QED
    BY <1>7, <2>2, <2>3
<1>16. DoingInv'
  BY <1>1 DEF DoingInv
<1>17. QueueInv'
  <2>1. tables'["queues"] = tables["queues"] /\ AllIds("queues")' = AllIds("queues")
    BY <1>6, KindFacts
  <2>2. \A o \in live : o.kind = "queues" => o \in live'
    BY <1>1, <1>7
  <2>3. QED
    BY <1>8, <2>1, <2>2 DEF ObjectInv, QueueInv
<1>18. QED
  BY <1>6, <1>10, <1>13, <1>14, <1>15, <1>16, <1>17 DEF ObjectInv

LEMMA OnlyImages ==
  ASSUME SetInv, BufferInv, ChainInv,
         UNCHANGED <<descriptor_set_owners, command_buffer_devices, swapchain_devices,
                     swapchain_surfaces, doing>>,
         \A o \in live : o.kind # "images" => o \in live',
         \A o \in live' : o.kind # "images" => o \in live
  PROVE  SetInv' /\ BufferInv' /\ ChainInv'
<1>1. \A d, h : DeviceIs(d, h) => DeviceIs(d, h)'
  BY DEF DeviceIs
<1>2. /\ descriptor_set_owners' = descriptor_set_owners
      /\ command_buffer_devices' = command_buffer_devices
      /\ swapchain_devices' = swapchain_devices /\ swapchain_surfaces' = swapchain_surfaces
      /\ doing' = doing
  OBVIOUS
<1>3. SetInv'
  <2>1. ASSUME NEW o \in live', o.kind = "descriptor_sets"
        PROVE  /\ o.id \in DOMAIN descriptor_set_owners
               /\ DeviceIs(o.dev, descriptor_set_owners[o.id].device)'
               /\ \E p \in live' : /\ p.kind = "descriptor_pools" /\ o.parent = <<p.kind, p.id>>
                                   /\ p.h = descriptor_set_owners[o.id].pool
    <3>1. /\ o.id \in DOMAIN descriptor_set_owners
          /\ DeviceIs(o.dev, descriptor_set_owners[o.id].device)
          /\ \E p \in live : /\ p.kind = "descriptor_pools" /\ o.parent = <<p.kind, p.id>>
                             /\ p.h = descriptor_set_owners[o.id].pool
      BY <2>1 DEF SetInv
    <3>2. DeviceIs(o.dev, descriptor_set_owners[o.id].device)'
      BY <1>1, <1>2, <3>1 DEF DeviceIs
    <3>3. QED
      BY <3>1, <3>2
  <2>2. \A i \in DOMAIN descriptor_set_owners :
          /\ descriptor_set_owners[i] = [device |-> descriptor_set_owners[i].device,
                                         pool |-> descriptor_set_owners[i].pool]
          /\ \/ \E o \in live' : o.kind = "descriptor_sets" /\ o.id = i
             \/ doing.h # Null /\ descriptor_set_owners[i].device = doing.h
    BY DEF SetInv
  <2>3. QED
    BY <1>2, <2>1, <2>2 DEF SetInv
<1>4. BufferInv'
  <2>1. ASSUME NEW o \in live', o.kind = "command_buffers"
        PROVE  /\ o.h \in DOMAIN command_buffer_devices
               /\ DeviceIs(o.dev, command_buffer_devices[o.h])'
    BY <1>1, <1>2, <2>1 DEF BufferInv, DeviceIs
  <2>2. QED
    BY <1>2, <2>1 DEF BufferInv
<1>5. ChainInv'
  <2>1. ASSUME NEW o \in live', o.kind = "swapchains"
        PROVE  /\ o.h \in DOMAIN swapchain_devices
               /\ DeviceIs(o.dev, swapchain_devices[o.h])'
    BY <1>1, <1>2, <2>1 DEF ChainInv, DeviceIs
  <2>2. \A c \in DOMAIN swapchain_devices :
          \/ \E o \in live' : o.kind = "swapchains" /\ o.h = c
          \/ doing.h # Null /\ swapchain_devices[c] = doing.h
    BY DEF ChainInv
  <2>3. QED
    BY <1>2, <2>1, <2>2 DEF ChainInv
<1>6. QED
  BY <1>3, <1>4, <1>5

\* handle_GetSwapchainImagesKHR, when the driver hands the images over and when
\* that fails.
LEMMA GetSwapchainImagesStep ==
  ASSUME ObjectsInv, GetSwapchainImages
  PROVE  ObjectsInv'
<1>1. /\ Serving /\ UNCHANGED <<doing, orphaned>> /\ faults' = faults /\ doing' = doing
      /\ registered' = registered /\ descriptor_set_owners' = descriptor_set_owners
      /\ command_buffer_devices' = command_buffer_devices
      /\ swapchain_devices' = swapchain_devices /\ swapchain_surfaces' = swapchain_surfaces
  BY DEF GetSwapchainImages, watched
<1>2. /\ TypeInv /\ StateType /\ ObjectInv /\ MapInv /\ faults = {}
      /\ doing.h = Null /\ doing.at = "serving"
  BY <1>1, ServingInv
<1>. DEFINE Img(s) == CHOOSE o \in Objects("images") : o.parent = <<"swapchains", s>>
            Does(d, s, failed) ==
              /\ ImageIdsOf(s) = {}
              /\ tables' = Add(tables, "images", IF failed THEN Null ELSE Img(s).h, Native(d))
              /\ live' = IF failed THEN live
                         ELSE (live \ {Img(s)}) \cup {[Img(s) EXCEPT !.id = NewId("images")]}
              /\ swapchain_image_ids' = Put(swapchain_image_ids, s, <<NewId("images")>>)
<1>3. PICK d \in LiveDevices : \E s \in Held("swapchains", d), failed \in BOOLEAN : Does(d, s, failed)
  BY DEF GetSwapchainImages
<1>4. PICK s \in Held("swapchains", d), failed \in BOOLEAN : Does(d, s, failed)
  BY <1>3
<1>5. PICK img : img = Img(s)
  OBVIOUS
<1>6. PICK x \in live : x.kind = "swapchains" /\ x.id = s /\ x.dev = d /\ s # Null
  BY HeldFacts
<1>7. /\ RegType /\ SetType /\ ChainType /\ DOMAIN command_buffer_devices \subseteq Handles
      /\ RegInv /\ SetInv /\ BufferInv /\ ChainInv /\ ImageInv
  BY <1>2 DEF TypeInv, MapInv
<1>8. img \in live /\ img.kind = "images" /\ img.parent = <<"swapchains", s>>
  <2>1. \E c \in Objects("images") : c.parent = <<"swapchains", s>>
    BY <1>6, <1>7 DEF ImageInv, Objects
  <2>2. QED
    BY <1>5, <2>1 DEF Objects
<1>9. IsObject(img) /\ ShapeOK(img)
  BY <1>2, <1>8 DEF StateType, ObjectInv, ShapeInv, ShapeOK
<1>10. img.parent # <<>> /\ img.parent[2] = s
  BY <1>8, Pairs
<1>11. ImageIdsOf(s) = {}
  BY <1>4
<1>12. img.id = Null
  BY <1>7, <1>8, <1>10, <1>11 DEF ImageInv
<1>13. img.dev = d
  <2>1. PICK p \in live : /\ img.parent = <<p.kind, p.id>>
                          /\ IF img.kind = "queues" THEN p.id = img.dev ELSE p.dev = img.dev
    BY <1>9, <1>10 DEF ShapeOK, HasParent
  <2>2. p.kind = "swapchains" /\ p.id = s
    BY <1>8, <2>1, Pairs
  <2>3. p = x
    BY <1>2, <1>6, <2>2 DEF ObjectInv, UniqueInv
  <2>4. QED
    BY <1>6, <1>8, <2>1, <2>3
<1>14. PICK id, own, m : /\ id = NewId("images") /\ own = Native(d)
                         /\ m = Object("images", id, img.h, img.dev, img.parent, img.refs)
  OBVIOUS
<1>15. DeviceIs(d, own) /\ own \in Handles
  BY <1>2, <1>14, LiveDevice
<1>16. [img EXCEPT !.id = id] = m
  BY <1>8, <1>9, <1>14 DEF IsObject, Object
<1>17. swapchain_image_ids' = Put(swapchain_image_ids, s, <<id>>)
  BY <1>4, <1>14
<1>18. id = Len(tables["images"]) + 1
  BY <1>14 DEF NewId
<1>. HIDE DEF Img
<1>19. /\ StateType' /\ ObjectInv'
       /\ \E e \in Handles \cup {Null} : Added(tables', tables, "images", e, own)
       /\ \A o \in live' : o \in live \/ (~ failed /\ o = m)
       /\ \A o \in live : o \in live' \/ (~ failed /\ o = img /\ m \in live')
  <2>1. CASE failed
    <3>1. tables' = Add(tables, "images", Null, own) /\ live' = live
      BY <1>4, <1>14, <2>1
    <3>2. Added(tables', tables, "images", Null, own)
      BY <1>2, <1>15, <3>1, AddFacts, KindFacts DEF StateType
    <3>3. \A o \in live' : IsObject(o)
      BY <1>2, <3>1 DEF StateType
    <3>4. /\ StateType' /\ Kept
          /\ AllIds("images")' = AllIds("images") \cup {id} /\ id \notin AllIds("images")
          /\ tables'["images"][id] = [h |-> Null, owner |-> own]
          /\ \A y \in Kinds : y # "images" => tables'[y] = tables[y] /\ AllIds(y)' = AllIds(y)
      BY <1>1, <1>2, <1>18, <3>2, <3>3, AddedType, KindFacts
    <3>5. Grows({})
      <4>1. tables'["images"][id].h = Null
        BY <3>4
      <4>2. \A k \in Kinds \ {"queues"} : \A i \in AllIds(k)' \ AllIds(k) : tables'[k][i].h = Null
        BY <3>4, <4>1
      <4>3. Introduced({})
        BY <3>4, <4>2, KindFacts DEF Introduced
      <4>4. QED
        BY <1>1, <1>2, <3>1, <3>4, <4>3 DEF Grows, Fresh
    <3>6. ObjectInv'
      BY <1>2, <3>4, <3>5, GrowsKeeps
    <3>7. QED
      BY <3>1, <3>2, <3>4, <3>6
  <2>2. CASE ~ failed
    <3>1. tables' = Add(tables, "images", img.h, own) /\ live' = (live \ {img}) \cup {m}
      BY <1>4, <1>5, <1>14, <1>16, <2>2
    <3>2. img.h \in Handles
      BY <1>9 DEF IsObject
    <3>3. Added(tables', tables, "images", img.h, own)
      BY <1>2, <1>15, <3>1, <3>2, AddFacts, KindFacts DEF StateType
    <3>4. RenamedTo(img, m, id, own)
      BY <1>1, <1>2, <1>8, <1>12, <1>13, <1>14, <1>15, <1>18, <3>1, <3>3 DEF RenamedTo
    <3>5. StateType' /\ ObjectInv'
      BY <1>2, <3>4, RenameKeeps
    <3>6. QED
      BY <2>2, <3>1, <3>2, <3>3, <3>5
  <2>3. QED
    BY <2>1, <2>2
<1>. HIDE DEF Does
<1>20. PICK e \in Handles \cup {Null} : Added(tables', tables, "images", e, own)
  BY <1>19
<1>21. \A o \in live' : IsObject(o)
  BY <1>19 DEF StateType
<1>22. /\ Kept /\ Len(tables["images"]) \in Nat
       /\ AllIds("images")' = AllIds("images") \cup {id} /\ id \notin AllIds("images")
       /\ \A y \in Kinds : y # "images" => tables'[y] = tables[y] /\ AllIds(y)' = AllIds(y)
  BY <1>1, <1>2, <1>18, <1>20, <1>21, AddedType, KindFacts
<1>23. \A y \in Kinds : AllIds(y) \subseteq AllIds(y)'
  BY <1>2, <1>19, <1>22, KeptIds
<1>24. m.kind = "images" /\ m.id = id /\ m.parent = <<"swapchains", s>>
  BY <1>8, <1>14, ObjectFields
<1>25. /\ \A o \in live : o.kind # "images" => o \in live'
       /\ \A o \in live' : o.kind # "images" => o \in live
  BY <1>8, <1>19, <1>24
<1>26. SetInv' /\ BufferInv' /\ ChainInv'
  BY <1>1, <1>7, <1>25, OnlyImages
<1>27. RegInv'
  <2>1. \A y \in RegisteredKinds : tables'[y] = tables[y]
    BY <1>22, KindFacts DEF RegisteredKinds
  <2>2. QED
    BY <1>1, <1>7, <2>1, RegKept
<1>28. /\ DOMAIN swapchain_image_ids' = DOMAIN swapchain_image_ids \cup {s}
       /\ ImageIdsOf(s)' = {id}
       /\ \A y : y # s => ImageIdsOf(y)' = ImageIdsOf(y)
  <2>1. Range(<<id>>) = {id}
    <3>1. DOMAIN <<id>> = {1} /\ <<id>>[1] = id
      OBVIOUS
    <3>2. QED
      BY <3>1 DEF Range
  <2>2. PICK f : f = swapchain_image_ids'
    OBVIOUS
  <2>3. f = [y \in DOMAIN swapchain_image_ids \cup {s} |->
               IF y = s THEN <<id>> ELSE swapchain_image_ids[y]]
    BY <1>17, <2>2 DEF Put
  <2>4. DOMAIN f = DOMAIN swapchain_image_ids \cup {s} /\ f[s] = <<id>>
    BY <2>3
  <2>5. \A y : y # s /\ y \in DOMAIN swapchain_image_ids => f[y] = swapchain_image_ids[y]
    BY <2>3
  <2>6. ImageIdsOf(s)' = {id}
    BY <2>1, <2>2, <2>4 DEF ImageIdsOf
  <2>7. ASSUME NEW y, y # s PROVE ImageIdsOf(y)' = ImageIdsOf(y)
    <3>1. CASE y \in DOMAIN swapchain_image_ids
      BY <2>2, <2>4, <2>5, <2>7, <3>1 DEF ImageIdsOf
    <3>2. CASE y \notin DOMAIN swapchain_image_ids
      BY <2>2, <2>4, <2>7, <3>2 DEF ImageIdsOf
    <3>3. QED
      BY <3>1, <3>2
  <2>8. QED
    BY <2>2, <2>4, <2>6, <2>7
<1>29. TypeInv'
  <2>1. s \in AllIds("swapchains")
    BY <1>2, <1>6, NameInTable
  <2>2. ChainType'
    BY <1>1, <1>7, <1>23, <1>28, <2>1, KindFacts DEF ChainType
  <2>3. QED
    BY <1>1, <1>7, <1>19, <1>23, <2>2, MapTypes DEF TypeInv
<1>30. ImageInv'
  <2>1. ASSUME NEW o \in live', o.kind = "images", o.id # Null, o.parent # <<>>
        PROVE  o.id \in ImageIdsOf(o.parent[2])'
    <3>1. CASE o = m
      BY <1>24, <1>28, <3>1, Pairs
    <3>2. CASE o \in live
      <4>1. o.id \in ImageIdsOf(o.parent[2])
        BY <1>7, <2>1, <3>2 DEF ImageInv
      <4>2. o.parent[2] # s
        BY <1>11, <4>1
      <4>3. QED
        BY <1>28, <4>1, <4>2
    <3>3. QED
      BY <1>19, <3>1, <3>2
  <2>2. ASSUME NEW y \in DOMAIN swapchain_image_ids', NEW i \in ImageIdsOf(y)'
        PROVE  /\ i \in AllIds("images")'
               /\ \A o \in live' : o.kind = "images" /\ o.id = i => o.parent = <<"swapchains", y>>
    <3>1. CASE y = s
      <4>1. i = id
        BY <1>28, <2>2, <3>1
      <4>2. \A o \in live : o.kind = "images" => o.id # id
        <5>1. \A o \in live : o.kind = "images" /\ o.id # Null => o.id \in AllIds("images")
          BY <1>2, NameInTable
        <5>2. id # Null
          BY <1>18, <1>22, Consts
        <5>3. QED
          BY <1>22, <5>1, <5>2
      <4>3. QED
        BY <1>19, <1>22, <1>24, <3>1, <4>1, <4>2
    <3>2. CASE y # s
      <4>1. /\ i \in AllIds("images")
            /\ \A o \in live : o.kind = "images" /\ o.id = i => o.parent = <<"swapchains", y>>
        BY <1>7, <1>28, <2>2, <3>2 DEF ImageInv
      <4>2. QED
        BY <1>19, <1>22, <1>24, <4>1
    <3>3. QED
      BY <3>1, <3>2
  <2>3. \A o \in live' : o.kind = "swapchains" =>
          \E c \in live' : c.kind = "images" /\ c.parent = <<"swapchains", o.id>>
    <3>1. \A o \in live : o.kind = "swapchains" =>
            \E c \in live : c.kind = "images" /\ c.parent = <<"swapchains", o.id>>
      BY <1>7 DEF ImageInv
    <3>2. ASSUME NEW o \in live', o.kind = "swapchains"
          PROVE  \E c \in live' : c.kind = "images" /\ c.parent = <<"swapchains", o.id>>
      <4>1. o \in live
        BY <1>25, <3>2
      <4>2. PICK c \in live : c.kind = "images" /\ c.parent = <<"swapchains", o.id>>
        BY <3>1, <3>2, <4>1
      <4>3. CASE c \in live'
        BY <4>2, <4>3
      <4>4. CASE c = img /\ m \in live'
        BY <1>8, <1>24, <4>2, <4>4
      <4>5. QED
        BY <1>19, <4>3, <4>4
    <3>3. QED
      BY <3>2
  <2>4. QED
    BY <2>1, <2>2, <2>3 DEF ImageInv
<1>31. QED
  BY <1>1, <1>2, <1>19, <1>26, <1>27, <1>29, <1>30, ServingStep DEF MapInv

------------------------------------------------------------------------------
(* The handlers that destroy. *)

\* u is t with some names taken.
TakenFrom(u, t) ==
  /\ u \in [Kinds -> Seq(Slot)]
  /\ \A k \in Kinds : /\ Len(u[k]) = Len(t[k])
                      /\ \A i \in 1 .. Len(t[k]) : u[k][i] \in {t[k][i], Gone}

LEMMA TookTaken ==
  ASSUME NEW u, NEW t \in [Kinds -> Seq(Slot)], NEW k \in Kinds, NEW ids, Took(u, t, k, ids)
  PROVE  TakenFrom(u, t)
<1>1. u \in [Kinds -> Seq(Slot)]
  BY DEF Took
<1>2. ASSUME NEW x \in Kinds
      PROVE  Len(u[x]) = Len(t[x]) /\ \A i \in 1 .. Len(t[x]) : u[x][i] \in {t[x][i], Gone}
  BY DEF Took
<1>3. QED
  BY <1>1, <1>2 DEF TakenFrom

LEMMA TakenTwice ==
  ASSUME NEW u, NEW v, NEW t, TakenFrom(u, t), TakenFrom(v, u)
  PROVE  TakenFrom(v, t)
<1>1. ASSUME NEW k \in Kinds
      PROVE  Len(v[k]) = Len(t[k]) /\ \A i \in 1 .. Len(t[k]) : v[k][i] \in {t[k][i], Gone}
  BY DEF TakenFrom
<1>2. QED
  BY <1>1 DEF TakenFrom

\* What a step that only takes names does to the types.
LEMMA TakenType ==
  ASSUME StateType, TakenFrom(tables', tables), live' \subseteq live,
         doing' \in [at : {"serving", "ending", "ended"}, h : Handles \cup {Null},
                     id : 0 .. Len(tables["devices"])],
         doing'.h = Null => doing'.id = Null, doing'.at = "ended" => doing'.h = Null,
         orphaned' \subseteq AllIds("command_buffers")
  PROVE  /\ StateType' /\ Taken
         /\ \A k \in Kinds : AllIds(k)' = AllIds(k)
         /\ \A k \in Kinds : AllIds(k) \subseteq AllIds(k)'
<1>1. Taken
  BY DEF TakenFrom, Taken, AllIds, Ids
<1>2. \A k \in Kinds : AllIds(k)' = AllIds(k)
  BY <1>1, TakenIds
<1>3. tables' \in [Kinds -> Seq(Slot)] /\ Len(tables'["devices"]) = Len(tables["devices"])
  BY KindFacts DEF TakenFrom
<1>4. \A o \in live' : IsObject(o)
  BY DEF StateType
<1>5. orphaned' \subseteq AllIds("command_buffers")'
  BY <1>2, KindFacts
<1>6. StateType'
  BY <1>3, <1>4, <1>5 DEF StateType
<1>7. QED
  BY <1>1, <1>2, <1>6

\* What goes with another object is of one of four kinds.
LEMMA ChildKinds ==
  ASSUME ObjectInv, NEW o \in live, NEW x, NEW i, o.parent = <<x, i>>
  PROVE  <<o.kind, x>> \in Parentage
<1>1. o.parent # <<>> /\ HasParent(o)
  BY Pairs DEF ObjectInv, ShapeInv
<1>2. PICK p \in live : o.parent = <<p.kind, p.id>> /\ <<o.kind, p.kind>> \in Parentage
  BY <1>1 DEF HasParent
<1>3. p.kind = x
  BY <1>2, Pairs
<1>4. QED
  BY <1>2, <1>3

LEMMA ParentageFacts ==
  \A a, b : <<a, b>> \in Parentage =>
    \/ a = "queues" /\ b = "devices"
    \/ a = "command_buffers" /\ b = "command_pools"
    \/ a = "descriptor_sets" /\ b = "descriptor_pools"
    \/ a = "images" /\ b = "swapchains"
  BY Pairs DEF Parentage

\* The object x goes with its children, or its children alone do; the names of
\* what goes are taken or become loose, and no other name changes.
Removes(x) ==
  /\ doing.h = Null /\ doing' = doing /\ orphaned \subseteq orphaned'
  /\ x \in live /\ x.id # Null /\ x.kind \notin {"devices", "queues"}
  /\ live' \subseteq live
  /\ \A o \in live : o.parent = <<x.kind, x.id>> => o \notin live'
  /\ \A o \in live \ live' : o = x \/ o.parent = <<x.kind, x.id>>
  /\ \A o \in live \ live' : o.id # Null =>
       tables'[o.kind][o.id].h = Null \/ (o.kind = "command_buffers" /\ o.id \in orphaned')
  /\ \A o \in live' : o.id # Null /\ o.kind # "queues" =>
       tables'[o.kind][o.id] = tables[o.kind][o.id]

\* Which kinds of objects go.
LEMMA RemovedKinds ==
  ASSUME ObjectInv, NEW x, Removes(x)
  PROVE  \A o \in live \ live' :
           \/ o = x
           \/ /\ o.parent = <<x.kind, x.id>>
              /\ \/ o.kind = "command_buffers" /\ x.kind = "command_pools"
                 \/ o.kind = "descriptor_sets" /\ x.kind = "descriptor_pools"
                 \/ o.kind = "images" /\ x.kind = "swapchains"
<1>1. SUFFICES ASSUME NEW o \in live \ live', o # x
               PROVE  /\ o.parent = <<x.kind, x.id>>
                      /\ \/ o.kind = "command_buffers" /\ x.kind = "command_pools"
                         \/ o.kind = "descriptor_sets" /\ x.kind = "descriptor_pools"
                         \/ o.kind = "images" /\ x.kind = "swapchains"
  OBVIOUS
<1>2. o.parent = <<x.kind, x.id>> /\ x.kind # "devices"
  BY <1>1 DEF Removes
<1>3. <<o.kind, x.kind>> \in Parentage
  BY <1>2, ChildKinds
<1>4. QED
  BY <1>2, <1>3, ParentageFacts

LEMMA RemovesShrinks ==
  ASSUME StateType, ObjectInv, Taken, NEW x, Removes(x)
  PROVE  Shrinks
<1>1. /\ doing.h = Null /\ doing' = doing /\ orphaned \subseteq orphaned'
      /\ x \in live /\ x.id # Null /\ x.kind \notin {"devices", "queues"}
      /\ live' \subseteq live
      /\ \A o \in live : o.parent = <<x.kind, x.id>> => o \notin live'
  BY DEF Removes
<1>2. \A o \in live \ live' : o.kind \notin {"devices", "queues"}
  BY <1>1, RemovedKinds
<1>3. Closed
  <2>1. ASSUME NEW o \in live', NEW p \in live, o.parent = <<p.kind, p.id>>, p \notin live'
        PROVE  FALSE
    <3>1. <<o.kind, p.kind>> \in Parentage
      BY <1>1, <2>1, ChildKinds
    <3>2. p = x
      BY <2>1, <3>1, RemovedKinds, ParentageFacts
    <3>3. QED
      BY <1>1, <2>1, <3>2
  <2>2. QED
    BY <1>1, <1>2, <2>1 DEF Closed
<1>4. NamesKept
  <2>1. \A k \in Kinds \ {"queues"} : \A i \in AllIds(k) : Loose(k, i) => Loose(k, i)'
    BY <1>1 DEF Loose
  <2>2. \A o \in live \ live' : o.id # Null /\ tables'[o.kind][o.id].h # Null => Loose(o.kind, o.id)'
    BY DEF Removes, Loose
  <2>3. QED
    BY <1>2, <2>1, <2>2 DEF NamesKept
<1>5. ObjectsKept
  BY <1>1 DEF Removes, ObjectsKept, Excused
<1>6. DoingInv'
  BY <1>1 DEF DoingInv
<1>7. QED
  BY <1>3, <1>4, <1>5, <1>6 DEF Shrinks

\* A held name has its object, and what the driver destroys under the handle
\* that the name resolves to is that object with its children.
IsHeld(x, k, id, d) ==
  /\ x \in live /\ x.kind = k /\ x.id = id /\ x.dev = d /\ id # Null /\ id \in AllIds(k)
  /\ Get(tables, k, id) = x.h /\ tables[k][id].h = x.h /\ OwnerIs(x, tables[k][id].owner)
  /\ NativeDestroy(k, {Get(tables, k, id)}) = {x} \cup {o \in live : o.parent = <<k, id>>}

LEMMA HeldObject ==
  ASSUME StateType, ObjectInv, doing.h = Null,
         NEW k \in Kinds \ {"queues"}, NEW d, NEW id \in Held(k, d)
  PROVE  \E x \in live : IsHeld(x, k, id, d)
<1>1. PICK x \in live : x.kind = k /\ x.id = id /\ x.dev = d /\ id # Null
  BY HeldFacts
<1>2. /\ Get(tables, k, id) = x.h /\ id \in AllIds(k)
      /\ tables[k][id].h = x.h /\ OwnerIs(x, tables[k][id].owner)
  BY <1>1, NameOf
<1>3. {o \in Objects(k) : o.h \in {x.h}} = {x}
  BY <1>1 DEF Objects, ObjectInv, UniqueInv
<1>4. NativeDestroy(k, {Get(tables, k, id)}) = {x} \cup {o \in live : o.parent = <<k, id>>}
  BY <1>1, <1>2, <1>3 DEF NativeDestroy, WithChildren
<1>5. QED
  BY <1>1, <1>2, <1>4 DEF IsHeld

\* Taking the names of objects that go leaves the other objects theirs.
LEMMA TookNames ==
  ASSUME StateType, ObjectInv, live' \subseteq live,
         NEW k \in Kinds, NEW ids, Took(tables', tables, k, ids),
         \A o \in live' : o.kind = k => o.id \notin ids
  PROVE  /\ \A i \in AllIds(k) : i \in ids => tables'[k][i].h = Null
         /\ \A o \in live' : o.id # Null /\ o.kind # "queues" =>
              tables'[o.kind][o.id] = tables[o.kind][o.id]
         /\ \A y \in Kinds : y # k => tables'[y] = tables[y]
         /\ TakenFrom(tables', tables)
<1>1. \A i \in AllIds(k) : i \in ids => tables'[k][i].h = Null
  BY DEF Took, AllIds, Ids, Gone
<1>2. ASSUME NEW o \in live', o.id # Null, o.kind # "queues"
      PROVE  tables'[o.kind][o.id] = tables[o.kind][o.id]
  <2>1. o.kind \in Kinds /\ o.id \in AllIds(o.kind)
    BY <1>2, NameInTable
  <2>2. QED
    BY <2>1 DEF Took, AllIds, Ids
<1>3. TakenFrom(tables', tables)
  BY TookTaken DEF StateType
<1>4. QED
  BY <1>1, <1>2, <1>3 DEF Took

\* A destruction that involves no map.
LEMMA PlainRemoves ==
  ASSUME TypeInv, StateType', ObjectInv, MapInv, Taken, NEW x, Removes(x), UNCHANGED maps,
         \A k \in RegisteredKinds : tables'[k] = tables[k],
         x.kind \notin {"descriptor_sets", "descriptor_pools", "swapchains"},
         x.kind = "images" => x.parent = <<>>
  PROVE  TypeInv' /\ ObjectInv' /\ MapInv'
<1>1. /\ StateType /\ RegType /\ SetType /\ ChainType /\ DOMAIN command_buffer_devices \subseteq Handles
      /\ RegInv /\ SetInv /\ BufferInv /\ ChainInv /\ ImageInv
  BY DEF TypeInv, MapInv
<1>2. /\ registered' = registered /\ descriptor_set_owners' = descriptor_set_owners
      /\ command_buffer_devices' = command_buffer_devices
      /\ UNCHANGED <<swapchain_devices, swapchain_surfaces>> /\ swapchain_devices' = swapchain_devices
      /\ swapchain_image_ids' = swapchain_image_ids
  BY DEF maps
<1>3. Shrinks /\ Closed /\ doing' = doing /\ doing.h = Null
  BY <1>1, RemovesShrinks DEF Shrinks, Removes
<1>4. ObjectInv'
  BY <1>1, <1>3, ShrinksKeeps
<1>5. \A k \in Kinds : AllIds(k) \subseteq AllIds(k)'
  BY TakenIds
<1>6. TypeInv'
  BY <1>1, <1>2, <1>5, MapTypes DEF TypeInv
<1>7. \A o \in live \ live' :
        /\ o.kind \notin {"descriptor_sets", "swapchains"}
        /\ o.kind = "images" => o.parent = <<>>
  BY RemovedKinds
<1>8. RegInv'
  BY <1>1, <1>2, <1>3, RegKept
<1>9. SetInv'
  BY <1>1, <1>2, <1>3, <1>7, SetShrinks
<1>10. BufferInv'
  BY <1>1, <1>2, <1>3, BufferShrinks
<1>11. ChainInv'
  BY <1>1, <1>2, <1>3, <1>7, ChainShrinks
<1>12. ImageInv'
  BY <1>1, <1>2, <1>3, <1>7, Pairs, ImageShrinks
<1>13. QED
  BY <1>4, <1>6, <1>8, <1>9, <1>10, <1>11, <1>12 DEF MapInv

\* One object, found by its name, goes and its name is taken.
FreesOne(x, k, id, d) ==
  /\ doing.h = Null /\ doing' = doing /\ orphaned \subseteq orphaned'
  /\ orphaned' \subseteq AllIds("command_buffers")
  /\ k \in Kinds \ {"queues", "devices"} /\ IsHeld(x, k, id, d)
  /\ tables' = Take(tables, k, {id})
  /\ live' = live \ NativeDestroy(k, {Get(tables, k, id)})
  /\ \A o \in live : o.parent = <<k, id>> => o.kind = "command_buffers" /\ o.id \in orphaned'

FreedOne(x, k, id) ==
  /\ StateType' /\ Taken /\ Removes(x) /\ x.kind = k /\ tables'[k][id].h = Null
  /\ \A i \in AllIds(k) : i # id => tables'[k][i] = tables[k][i]
  /\ \A y \in Kinds : y # k => tables'[y] = tables[y]
  /\ \A y \in Kinds : AllIds(y)' = AllIds(y)
  /\ \A y \in Kinds : AllIds(y) \subseteq AllIds(y)'
  /\ live \ live' = {x} \cup {o \in live : o.parent = <<k, id>>}

LEMMA HeldRemoves ==
  ASSUME StateType, ObjectInv, NEW x, NEW k, NEW id, NEW d, FreesOne(x, k, id, d)
  PROVE  FreedOne(x, k, id)
<1>0. /\ doing.h = Null /\ doing' = doing /\ orphaned \subseteq orphaned'
      /\ orphaned' \subseteq AllIds("command_buffers")
      /\ k \in Kinds \ {"queues", "devices"} /\ IsHeld(x, k, id, d)
      /\ tables' = Take(tables, k, {id})
      /\ live' = live \ NativeDestroy(k, {Get(tables, k, id)})
      /\ \A o \in live : o.parent = <<k, id>> => o.kind = "command_buffers" /\ o.id \in orphaned'
  BY DEF FreesOne
<1>1. /\ x \in live /\ x.kind = k /\ x.id = id /\ id # Null /\ id \in AllIds(k)
      /\ NativeDestroy(k, {Get(tables, k, id)}) = {x} \cup {o \in live : o.parent = <<k, id>>}
  BY <1>0 DEF IsHeld
<1>2. Took(tables', tables, k, {id})
  BY <1>0, TakeFacts DEF StateType
<1>3. \A o \in live' : o \in live /\ o # x /\ o.parent # <<k, id>>
  BY <1>0, <1>1
<1>4. \A o \in live' : o.kind = k => o.id \notin {id}
  BY <1>0, <1>1, <1>3 DEF ObjectInv, UniqueInv
<1>5. /\ tables'[k][id].h = Null
      /\ \A o \in live' : o.id # Null /\ o.kind # "queues" =>
           tables'[o.kind][o.id] = tables[o.kind][o.id]
      /\ \A y \in Kinds : y # k => tables'[y] = tables[y]
      /\ TakenFrom(tables', tables)
  <2>1. live' \subseteq live
    BY <1>0, <1>3
  <2>2. PICK ids : ids = {id}
    OBVIOUS
  <2>3. /\ \A i \in AllIds(k) : i \in ids => tables'[k][i].h = Null
        /\ \A o \in live' : o.id # Null /\ o.kind # "queues" =>
             tables'[o.kind][o.id] = tables[o.kind][o.id]
        /\ \A y \in Kinds : y # k => tables'[y] = tables[y]
        /\ TakenFrom(tables', tables)
    <3>1. Took(tables', tables, k, ids) /\ \A o \in live' : o.kind = k => o.id \notin ids
      BY <1>0, <1>2, <1>4, <2>2
    <3>2. QED
      BY <1>0, <2>1, <3>1, TookNames
  <2>4. QED
    BY <1>0, <1>1, <2>2, <2>3
<1>6. /\ StateType' /\ Taken /\ \A y \in Kinds : AllIds(y)' = AllIds(y)
      /\ \A y \in Kinds : AllIds(y) \subseteq AllIds(y)'
  <2>1. doing' \in [at : {"serving", "ending", "ended"}, h : Handles \cup {Null},
                    id : 0 .. Len(tables["devices"])]
    BY <1>0 DEF StateType
  <2>2. (doing'.h = Null => doing'.id = Null) /\ (doing'.at = "ended" => doing'.h = Null)
    BY <1>0 DEF StateType
  <2>3. QED
    BY <1>0, <1>3, <1>5, <2>1, <2>2, TakenType
<1>7. Removes(x)
  <2>1. \A o \in live \ live' : o = x \/ o.parent = <<x.kind, x.id>>
    BY <1>0, <1>1
  <2>2. \A o \in live : o.parent = <<x.kind, x.id>> => o \notin live'
    BY <1>0, <1>1
  <2>3. \A o \in live \ live' : o.id # Null =>
          tables'[o.kind][o.id].h = Null \/ (o.kind = "command_buffers" /\ o.id \in orphaned')
    BY <1>0, <1>1, <1>5, <2>1
  <2>4. QED
    BY <1>0, <1>1, <1>3, <1>5, <2>1, <2>2, <2>3 DEF Removes
<1>8. \A i \in AllIds(k) : i # id => tables'[k][i] = tables[k][i]
  BY <1>0, <1>2 DEF Took, AllIds, Ids
<1>9. QED
  BY <1>0, <1>1, <1>5, <1>6, <1>7, <1>8 DEF FreedOne

\* SERVER_DESTROY; a command pool leaves the names of its command buffers behind.
LEMMA DestroyStep ==
  ASSUME ObjectsInv, NEW k \in PlainKinds \cup {"pipelines"}, Destroy(k)
  PROVE  ObjectsInv'
<1>1. Serving /\ doing' = doing /\ faults' = faults /\ UNCHANGED maps
  BY DEF Destroy
<1>2. /\ TypeInv /\ StateType /\ ObjectInv /\ MapInv /\ faults = {}
      /\ doing.h = Null /\ doing.at = "serving"
  BY <1>1, ServingInv
<1>. DEFINE Does(id) ==
       /\ \A o \in Objects(k) : o.id = id => o.parent = <<>>
       /\ live' = live \ NativeDestroy(k, {Get(tables, k, id)})
       /\ orphaned' = orphaned \cup {o.id : o \in NativeDestroy(k, {Get(tables, k, id)})
                                                    \cap Objects("command_buffers")}
       /\ tables' = Take(tables, k, {id})
<1>3. PICK d \in LiveDevices : \E id \in Held(k, d) : Does(id)
  BY DEF Destroy
<1>4. PICK id \in Held(k, d) : Does(id)
  BY <1>3
<1>5. /\ k \in Kinds \ {"queues", "devices"} /\ k \notin RegisteredKinds
      /\ k \notin {"command_buffers", "descriptor_sets", "descriptor_pools", "swapchains"}
  BY KindFacts DEF PlainKinds, RegisteredKinds
<1>6. PICK x \in live : IsHeld(x, k, id, d)
  BY <1>2, <1>5, HeldObject
<1>7. /\ x.kind = k /\ x.id = id
      /\ NativeDestroy(k, {Get(tables, k, id)}) = {x} \cup {o \in live : o.parent = <<k, id>>}
  BY <1>6 DEF IsHeld
<1>8. \A o \in live : o.parent = <<k, id>> => o.kind = "command_buffers"
  <2>1. ASSUME NEW o \in live, o.parent = <<k, id>> PROVE o.kind = "command_buffers"
    <3>1. <<o.kind, k>> \in Parentage
      BY <1>2, <2>1, ChildKinds
    <3>2. QED
      BY <1>5, <3>1, ParentageFacts
  <2>2. QED
    BY <2>1
<1>9. orphaned' = orphaned \cup {o.id : o \in {c \in live : c.parent = <<k, id>>}}
  <2>1. NativeDestroy(k, {Get(tables, k, id)}) \cap Objects("command_buffers")
          = {c \in live : c.parent = <<k, id>>}
    BY <1>5, <1>7, <1>8 DEF Objects
  <2>2. QED
    BY <1>4, <2>1
<1>10. orphaned' \subseteq AllIds("command_buffers")
  <2>1. ASSUME NEW o \in live, o.parent = <<k, id>> PROVE o.id \in AllIds("command_buffers")
    <3>1. o.kind = "command_buffers"
      BY <1>8, <2>1
    <3>2. o.id # Null
      BY <1>2, <3>1 DEF ObjectInv, ShapeInv, HasName
    <3>3. QED
      BY <1>2, <3>1, <3>2, NameInTable
  <2>2. QED
    BY <1>2, <1>9, <2>1 DEF StateType
<1>11. /\ StateType' /\ Taken /\ Removes(x)
       /\ \A y \in Kinds : y # k => tables'[y] = tables[y]
  <2>1. \A o \in live : o.parent = <<k, id>> => o.kind = "command_buffers" /\ o.id \in orphaned'
    BY <1>8, <1>9
  <2>2. tables' = Take(tables, k, {id}) /\ live' = live \ NativeDestroy(k, {Get(tables, k, id)})
    BY <1>4
  <2>3. orphaned \subseteq orphaned'
    BY <1>9
  <2>4. QED
    <3>1. FreesOne(x, k, id, d)
      BY <1>1, <1>2, <1>5, <1>6, <1>10, <2>1, <2>2, <2>3 DEF FreesOne
    <3>2. FreedOne(x, k, id)
      BY <1>2, <3>1, HeldRemoves
    <3>3. QED
      BY <3>2 DEF FreedOne
<1>12. x.kind = "images" => x.parent = <<>>
  BY <1>4, <1>6, <1>7 DEF Objects
<1>13. \A y \in RegisteredKinds : tables'[y] = tables[y]
  BY <1>5, <1>11, KindFacts
<1>14. TypeInv' /\ ObjectInv' /\ MapInv'
  BY <1>1, <1>2, <1>5, <1>7, <1>11, <1>12, <1>13, PlainRemoves
<1>15. QED
  BY <1>1, <1>2, <1>14, ServingStep

\* handle_DestroyFence, handle_DestroySemaphore and handle_DestroySurfaceKHR.
LEMMA DestroyAlone ==
  ASSUME ObjectsInv, Serving, doing' = doing, faults' = faults, orphaned' = orphaned,
         UNCHANGED maps, NEW k \in {"fences", "semaphores", "surfaces"}, NEW d,
         NEW id \in Held(k, d), tables' = Take(tables, k, {id}),
         live' = live \ NativeDestroy(k, {Get(tables, k, id)})
  PROVE  ObjectsInv'
<1>1. /\ TypeInv /\ StateType /\ ObjectInv /\ MapInv /\ faults = {}
      /\ doing.h = Null /\ doing.at = "serving"
  BY ServingInv
<1>2. /\ k \in Kinds \ {"queues", "devices"} /\ k \notin RegisteredKinds
      /\ k \notin {"command_buffers", "descriptor_sets", "descriptor_pools", "swapchains",
                   "command_pools", "images"}
  BY KindFacts DEF RegisteredKinds
<1>3. PICK x \in live : IsHeld(x, k, id, d)
  BY <1>1, <1>2, HeldObject
<1>4. ASSUME NEW o \in live PROVE o.parent # <<k, id>>
  <2>1. <<o.kind, k>> \notin Parentage
    BY <1>2, ParentageFacts
  <2>2. QED
    BY <1>1, <2>1, ChildKinds
<1>5. /\ StateType' /\ Taken /\ Removes(x) /\ x.kind = k
      /\ \A y \in Kinds : y # k => tables'[y] = tables[y]
  <2>1. orphaned \subseteq orphaned' /\ orphaned' \subseteq AllIds("command_buffers")
    BY <1>1 DEF StateType
  <2>2. \A o \in live : o.parent = <<k, id>> => o.kind = "command_buffers" /\ o.id \in orphaned'
    BY <1>4
  <2>3. QED
    <3>1. FreesOne(x, k, id, d)
      BY <1>1, <1>2, <1>3, <2>1, <2>2 DEF FreesOne
    <3>2. FreedOne(x, k, id)
      BY <1>1, <3>1, HeldRemoves
    <3>3. QED
      BY <3>2 DEF FreedOne
<1>6. \A y \in RegisteredKinds : tables'[y] = tables[y]
  BY <1>2, <1>5, KindFacts
<1>7. TypeInv' /\ ObjectInv' /\ MapInv'
  BY <1>1, <1>2, <1>5, <1>6, PlainRemoves
<1>8. QED
  BY <1>1, <1>7, ServingStep

LEMMA DestroySyncStep ==
  ASSUME ObjectsInv, NEW k \in {"fences", "semaphores"}, DestroySync(k)
  PROVE  ObjectsInv'
<1>1. /\ Serving /\ doing' = doing /\ faults' = faults /\ orphaned' = orphaned /\ UNCHANGED maps
  BY DEF DestroySync, watched
<1>2. PICK d \in LiveDevices : \E id \in Held(k, d) :
         /\ live' = live \ NativeDestroy(k, {Get(tables, k, id)})
         /\ tables' = Take(tables, k, {id})
  BY DEF DestroySync
<1>3. QED
  BY <1>1, <1>2, DestroyAlone

LEMMA DestroySurfaceStep ==
  ASSUME ObjectsInv, DestroySurface
  PROVE  ObjectsInv'
<1>1. /\ Serving /\ doing' = doing /\ faults' = faults /\ orphaned' = orphaned /\ UNCHANGED maps
  BY DEF DestroySurface, watched
<1>2. PICK id \in Held("surfaces", Null) :
         /\ live' = live \ NativeDestroy("surfaces", {Get(tables, "surfaces", id)})
         /\ tables' = Take(tables, "surfaces", {id})
  BY DEF DestroySurface
<1>3. QED
  BY <1>1, <1>2, DestroyAlone

LEMMA EraseFacts ==
  ASSUME NEW f, NEW gone
  PROVE  /\ DOMAIN Erase(f, gone) = DOMAIN f \ gone /\ IsFn(Erase(f, gone))
         /\ \A y \in DOMAIN f \ gone : Erase(f, gone)[y] = f[y]
  BY DEF Erase, IsFn

\* One object without children goes, and its name is taken.
LEMMA FreeAlone ==
  ASSUME ObjectsInv, Serving, doing' = doing, orphaned' = orphaned,
         NEW k \in RegisteredKinds \cup {"descriptor_sets", "command_buffers"}, NEW d,
         NEW id \in Held(k, d), tables' = Take(tables, k, {id}),
         live' = live \ NativeDestroy(k, {Get(tables, k, id)})
  PROVE  \E x \in live : /\ FreedOne(x, k, id) /\ IsHeld(x, k, id, d) /\ live' = live \ {x}
                         /\ Shrinks /\ Closed /\ Taken
<1>1. StateType /\ ObjectInv /\ doing.h = Null
  BY ServingInv
<1>2. /\ k \in Kinds \ {"queues", "devices"}
      /\ k \notin {"descriptor_pools", "swapchains", "command_pools"}
  BY KindFacts DEF RegisteredKinds
<1>3. PICK x \in live : IsHeld(x, k, id, d)
  BY <1>1, <1>2, HeldObject
<1>4. \A o \in live : o.parent # <<k, id>>
  BY <1>1, <1>2, ChildKinds, ParentageFacts
<1>5. orphaned \subseteq orphaned' /\ orphaned' \subseteq AllIds("command_buffers")
  BY <1>1 DEF StateType
<1>6. FreesOne(x, k, id, d)
  BY <1>1, <1>2, <1>3, <1>4, <1>5 DEF FreesOne
<1>7. FreedOne(x, k, id)
  BY <1>1, <1>6, HeldRemoves
<1>8. live' = live \ {x}
  BY <1>3, <1>4 DEF IsHeld
<1>9. Removes(x) /\ Taken
  BY <1>7 DEF FreedOne
<1>10. Shrinks /\ Closed
  BY <1>1, <1>9, RemovesShrinks DEF Shrinks
<1>11. QED
  BY <1>3, <1>7, <1>8, <1>9, <1>10

\* handle_FreeMemory and the like: the entry in the map goes with the name.
LEMMA DestroyRegisteredStep ==
  ASSUME ObjectsInv, NEW k \in RegisteredKinds, DestroyRegistered(k)
  PROVE  ObjectsInv'
<1>1. /\ Serving /\ doing' = doing /\ faults' = faults /\ orphaned' = orphaned
      /\ descriptor_set_owners' = descriptor_set_owners
      /\ command_buffer_devices' = command_buffer_devices
      /\ UNCHANGED <<swapchain_devices, swapchain_surfaces>> /\ swapchain_devices' = swapchain_devices
      /\ swapchain_image_ids' = swapchain_image_ids
  BY DEF DestroyRegistered, watched
<1>2. /\ TypeInv /\ StateType /\ ObjectInv /\ MapInv /\ faults = {}
      /\ doing.h = Null /\ doing.at = "serving"
  BY <1>1, ServingInv
<1>. DEFINE Does(id) ==
       /\ live' = live \ NativeDestroy(k, {Get(tables, k, id)})
       /\ tables' = Take(tables, k, {id})
       /\ registered' = [registered EXCEPT ![k] = Erase(registered[k], {id})]
<1>3. PICK d \in LiveDevices : \E id \in Held(k, d) : Does(id)
  BY DEF DestroyRegistered
<1>4. PICK id \in Held(k, d) : Does(id)
  BY <1>3
<1>5. PICK x \in live : /\ FreedOne(x, k, id) /\ IsHeld(x, k, id, d) /\ live' = live \ {x}
                        /\ Shrinks /\ Closed /\ Taken
  BY <1>1, <1>4, FreeAlone
<1>. HIDE DEF Does
<1>6. /\ RegType /\ SetType /\ ChainType /\ DOMAIN command_buffer_devices \subseteq Handles
      /\ RegInv /\ SetInv /\ BufferInv /\ ChainInv /\ ImageInv
  BY <1>2 DEF TypeInv, MapInv
<1>7. /\ StateType' /\ x.kind = k /\ tables'[k][id].h = Null
      /\ \A i \in AllIds(k) : i # id => tables'[k][i] = tables[k][i]
      /\ \A y \in Kinds : y # k => tables'[y] = tables[y]
      /\ \A y \in Kinds : AllIds(y)' = AllIds(y)
      /\ \A y \in Kinds : AllIds(y) \subseteq AllIds(y)'
  BY <1>5 DEF FreedOne
<1>8. \A o \in live \ live' : o.kind \notin {"descriptor_sets", "swapchains", "images"}
  BY <1>5, <1>7 DEF RegisteredKinds
<1>9. /\ DOMAIN registered' = RegisteredKinds /\ IsFn(registered')
      /\ registered'[k] = Erase(registered[k], {id})
      /\ \A y \in RegisteredKinds : y # k => registered'[y] = registered[y]
  BY <1>4, <1>6 DEF RegType, IsFn, Does
<1>10. /\ DOMAIN registered'[k] = DOMAIN registered[k] \ {id} /\ IsFn(registered'[k])
       /\ \A i \in DOMAIN registered[k] : i # id => registered'[k][i] = registered[k][i]
  <2>1. PICK f, g : f = registered[k] /\ g = registered'[k]
    OBVIOUS
  <2>2. g = Erase(f, {id})
    BY <1>9, <2>1
  <2>3. /\ DOMAIN g = DOMAIN f \ {id} /\ IsFn(g)
        /\ \A i \in DOMAIN f \ {id} : g[i] = f[i]
    BY <2>2, EraseFacts
  <2>4. QED
    BY <2>1, <2>3
<1>11. RegType'
  <2>1. \A y \in RegisteredKinds : IsFn(registered'[y]) /\ DOMAIN registered'[y] \subseteq AllIds(y)'
    BY <1>6, <1>7, <1>9, <1>10, KindFacts DEF RegType
  <2>2. QED
    BY <1>9, <2>1 DEF RegType, IsFn
<1>12. RegInv'
  <2>1. SUFFICES ASSUME NEW y \in RegisteredKinds
                 PROVE  /\ \A i \in AllIds(y)' : tables'[y][i].h # Null =>
                             /\ i \in DOMAIN registered'[y]
                             /\ registered'[y][i] = [owner |-> tables'[y][i].owner, h |-> tables'[y][i].h]
                        /\ \A i \in DOMAIN registered'[y] : tables'[y][i].h # Null
    BY DEF RegInv
  <2>2. /\ \A i \in AllIds(y) : tables[y][i].h # Null =>
             /\ i \in DOMAIN registered[y]
             /\ registered[y][i] = [owner |-> tables[y][i].owner, h |-> tables[y][i].h]
        /\ \A i \in DOMAIN registered[y] : tables[y][i].h # Null
        /\ DOMAIN registered[y] \subseteq AllIds(y)
    BY <1>2, <1>6 DEF RegInv, RegType
  <2>3. CASE y # k
    <3>1. tables'[y] = tables[y] /\ registered'[y] = registered[y] /\ AllIds(y)' = AllIds(y)
      BY <1>7, <1>9, <2>3, KindFacts
    <3>2. QED
      BY <2>2, <3>1
  <2>4. CASE y = k
    <3>1. AllIds(k)' = AllIds(k)
      BY <1>7, KindFacts
    <3>2. QED
      BY <1>7, <1>10, <2>2, <2>4, <3>1
  <2>5. QED
    BY <2>3, <2>4
<1>13. TypeInv'
  BY <1>1, <1>6, <1>7, <1>11, MapTypes DEF TypeInv
<1>14. ObjectInv'
  BY <1>2, <1>5, ShrinksKeeps
<1>15. SetInv' /\ BufferInv' /\ ChainInv' /\ ImageInv'
  BY <1>1, <1>5, <1>6, <1>8, SetShrinks, BufferShrinks, ChainShrinks, ImageShrinks
<1>16. QED
  BY <1>1, <1>2, <1>12, <1>13, <1>14, <1>15, ServingStep DEF MapInv

\* handle_FreeDescriptorSets.
LEMMA FreeDescriptorSetStep ==
  ASSUME ObjectsInv, FreeDescriptorSet
  PROVE  ObjectsInv'
<1>1. /\ Serving /\ doing' = doing /\ faults' = faults /\ orphaned' = orphaned
      /\ registered' = registered /\ command_buffer_devices' = command_buffer_devices
      /\ UNCHANGED <<swapchain_devices, swapchain_surfaces>> /\ swapchain_devices' = swapchain_devices
      /\ swapchain_image_ids' = swapchain_image_ids
  BY DEF FreeDescriptorSet, watched
<1>2. /\ TypeInv /\ StateType /\ ObjectInv /\ MapInv /\ faults = {}
      /\ doing.h = Null /\ doing.at = "serving"
  BY <1>1, ServingInv
<1>. DEFINE Does(id) ==
       /\ live' = live \ NativeDestroy("descriptor_sets", {Get(tables, "descriptor_sets", id)})
       /\ tables' = Take(tables, "descriptor_sets", {id})
       /\ descriptor_set_owners' = Erase(descriptor_set_owners, {id})
<1>3. PICK d \in LiveDevices : \E id \in Held("descriptor_sets", d) : Does(id)
  BY DEF FreeDescriptorSet
<1>4. PICK id \in Held("descriptor_sets", d) : Does(id)
  BY <1>3
<1>5. PICK x \in live : /\ FreedOne(x, "descriptor_sets", id) /\ IsHeld(x, "descriptor_sets", id, d)
                        /\ live' = live \ {x} /\ Shrinks /\ Closed /\ Taken
  BY <1>1, <1>4, FreeAlone
<1>6. /\ RegType /\ SetType /\ ChainType /\ DOMAIN command_buffer_devices \subseteq Handles
      /\ RegInv /\ SetInv /\ BufferInv /\ ChainInv /\ ImageInv
  BY <1>2 DEF TypeInv, MapInv
<1>7. /\ StateType' /\ x.kind = "descriptor_sets"
      /\ \A y \in Kinds : y # "descriptor_sets" => tables'[y] = tables[y]
      /\ \A y \in Kinds : AllIds(y) \subseteq AllIds(y)'
  BY <1>5 DEF FreedOne
<1>8. x.id = id /\ id # Null
  BY <1>5 DEF IsHeld
<1>9. PICK f : f = descriptor_set_owners'
  OBVIOUS
<1>10. /\ DOMAIN f = DOMAIN descriptor_set_owners \ {id} /\ IsFn(f)
       /\ \A i \in DOMAIN descriptor_set_owners \ {id} : f[i] = descriptor_set_owners[i]
  <2>1. f = Erase(descriptor_set_owners, {id})
    BY <1>4, <1>9
  <2>2. QED
    BY <2>1, EraseFacts
<1>. HIDE DEF Does
<1>11. SetType'
  BY <1>6, <1>7, <1>9, <1>10, KindFacts DEF SetType, IsFn
<1>12. SetInv'
  <2>1. ASSUME NEW o \in live', o.kind = "descriptor_sets"
        PROVE  /\ o.id \in DOMAIN f /\ DeviceIs(o.dev, f[o.id].device)'
               /\ \E p \in live' : /\ p.kind = "descriptor_pools" /\ o.parent = <<p.kind, p.id>>
                                   /\ p.h = f[o.id].pool
    <3>1. o \in live /\ o # x
      BY <1>5
    <3>2. o.id # id
      BY <1>2, <1>7, <1>8, <2>1, <3>1 DEF ObjectInv, UniqueInv
    <3>3. /\ o.id \in DOMAIN descriptor_set_owners
          /\ DeviceIs(o.dev, descriptor_set_owners[o.id].device)
          /\ \E p \in live : /\ p.kind = "descriptor_pools" /\ o.parent = <<p.kind, p.id>>
                             /\ p.h = descriptor_set_owners[o.id].pool
      BY <1>6, <2>1, <3>1 DEF SetInv
    <3>4. f[o.id] = descriptor_set_owners[o.id] /\ o.id \in DOMAIN f
      BY <1>10, <3>2, <3>3
    <3>5. DeviceIs(o.dev, f[o.id].device)'
      BY <1>5, <3>3, <3>4 DEF Closed, DeviceIs
    <3>6. QED
      BY <1>5, <1>7, <3>3, <3>4, <3>5
  <2>2. ASSUME NEW i \in DOMAIN f
        PROVE  /\ f[i] = [device |-> f[i].device, pool |-> f[i].pool]
               /\ \E o \in live' : o.kind = "descriptor_sets" /\ o.id = i
    <3>1. i \in DOMAIN descriptor_set_owners /\ i # id /\ f[i] = descriptor_set_owners[i]
      BY <1>10
    <3>2. PICK o \in live : o.kind = "descriptor_sets" /\ o.id = i
      BY <1>2, <1>6, <3>1 DEF SetInv
    <3>3. o \in live'
      BY <1>5, <1>8, <3>1, <3>2
    <3>4. f[i] = [device |-> f[i].device, pool |-> f[i].pool]
      BY <1>6, <3>1 DEF SetInv
    <3>5. QED
      BY <3>2, <3>3, <3>4
  <2>3. QED
    BY <1>9, <2>1, <2>2 DEF SetInv
<1>13. TypeInv'
  BY <1>1, <1>6, <1>7, <1>11, MapTypes DEF TypeInv
<1>14. ObjectInv'
  BY <1>2, <1>5, ShrinksKeeps
<1>15. \A y \in RegisteredKinds : tables'[y] = tables[y]
  BY <1>7, KindFacts DEF RegisteredKinds
<1>16. RegInv' /\ BufferInv' /\ ChainInv' /\ ImageInv'
  BY <1>1, <1>5, <1>6, <1>7, <1>15, RegKept, BufferShrinks, ChainShrinks, ImageShrinks
<1>17. QED
  BY <1>1, <1>2, <1>12, <1>13, <1>14, <1>16, ServingStep DEF MapInv

\* handle_FreeCommandBuffers.
LEMMA FreeCommandBufferStep ==
  ASSUME ObjectsInv, FreeCommandBuffer
  PROVE  ObjectsInv'
<1>1. /\ Serving /\ doing' = doing /\ faults' = faults /\ orphaned' = orphaned
      /\ registered' = registered /\ descriptor_set_owners' = descriptor_set_owners
      /\ UNCHANGED <<swapchain_devices, swapchain_surfaces>> /\ swapchain_devices' = swapchain_devices
      /\ swapchain_image_ids' = swapchain_image_ids
  BY DEF FreeCommandBuffer, watched
<1>2. /\ TypeInv /\ StateType /\ ObjectInv /\ MapInv /\ faults = {}
      /\ doing.h = Null /\ doing.at = "serving"
  BY <1>1, ServingInv
<1>. DEFINE Does(id) ==
       /\ live' = live \ NativeDestroy("command_buffers", {Get(tables, "command_buffers", id)})
       /\ tables' = Take(tables, "command_buffers", {id})
       /\ command_buffer_devices' =
            Erase(command_buffer_devices, {Get(tables, "command_buffers", id)})
<1>3. PICK d \in LiveDevices : \E id \in Held("command_buffers", d) : Does(id)
  BY DEF FreeCommandBuffer
<1>4. PICK id \in Held("command_buffers", d) : Does(id)
  BY <1>3
<1>5. PICK x \in live : /\ FreedOne(x, "command_buffers", id) /\ IsHeld(x, "command_buffers", id, d)
                        /\ live' = live \ {x} /\ Shrinks /\ Closed /\ Taken
  BY <1>1, <1>4, FreeAlone
<1>6. /\ RegType /\ SetType /\ ChainType /\ DOMAIN command_buffer_devices \subseteq Handles
      /\ RegInv /\ SetInv /\ BufferInv /\ ChainInv /\ ImageInv
  BY <1>2 DEF TypeInv, MapInv
<1>7. /\ StateType' /\ x.kind = "command_buffers"
      /\ \A y \in Kinds : y # "command_buffers" => tables'[y] = tables[y]
      /\ \A y \in Kinds : AllIds(y) \subseteq AllIds(y)'
  BY <1>5 DEF FreedOne
<1>8. PICK f : f = command_buffer_devices'
  OBVIOUS
<1>9. /\ DOMAIN f = DOMAIN command_buffer_devices \ {x.h}
      /\ \A c \in DOMAIN command_buffer_devices \ {x.h} : f[c] = command_buffer_devices[c]
  <2>1. f = Erase(command_buffer_devices, {x.h})
    BY <1>4, <1>5, <1>8 DEF IsHeld
  <2>2. QED
    BY <2>1, EraseFacts
<1>. HIDE DEF Does
<1>10. BufferInv'
  <2>1. ASSUME NEW o \in live', o.kind = "command_buffers"
        PROVE  o.h \in DOMAIN f /\ DeviceIs(o.dev, f[o.h])'
    <3>1. o \in live /\ o # x
      BY <1>5
    <3>2. o.h # x.h
      BY <1>2, <1>7, <2>1, <3>1 DEF ObjectInv, UniqueInv
    <3>3. o.h \in DOMAIN command_buffer_devices /\ DeviceIs(o.dev, command_buffer_devices[o.h])
      BY <1>6, <2>1, <3>1 DEF BufferInv
    <3>4. f[o.h] = command_buffer_devices[o.h] /\ o.h \in DOMAIN f
      BY <1>9, <3>2, <3>3
    <3>5. QED
      BY <1>5, <3>3, <3>4 DEF Closed, DeviceIs
  <2>2. QED
    BY <1>8, <2>1 DEF BufferInv
<1>11. TypeInv'
  BY <1>1, <1>6, <1>7, <1>8, <1>9, MapTypes DEF TypeInv
<1>12. ObjectInv'
  BY <1>2, <1>5, ShrinksKeeps
<1>13. \A y \in RegisteredKinds : tables'[y] = tables[y]
  BY <1>7, KindFacts DEF RegisteredKinds
<1>14. RegInv' /\ SetInv' /\ ChainInv' /\ ImageInv'
  BY <1>1, <1>5, <1>6, <1>7, <1>13, RegKept, SetShrinks, ChainShrinks, ImageShrinks
<1>15. QED
  BY <1>1, <1>2, <1>10, <1>11, <1>12, <1>14, ServingStep DEF MapInv

\* The sets the tables believe to come from a pool are those that do.
LEMMA SetsOfPool ==
  ASSUME StateType, ObjectInv, SetInv, doing.h = Null, NEW x \in live, x.kind = "descriptor_pools"
  PROVE  /\ SetsOf(x.h) \subseteq DOMAIN descriptor_set_owners
         /\ \A o \in live : o.kind = "descriptor_sets" =>
              (o.id \in SetsOf(x.h) <=> o.parent = <<"descriptor_pools", x.id>>)
<1>1. ASSUME NEW o \in live, o.kind = "descriptor_sets"
      PROVE  o.id \in SetsOf(x.h) <=> o.parent = <<"descriptor_pools", x.id>>
  <2>1. PICK p \in live : /\ p.kind = "descriptor_pools" /\ o.parent = <<p.kind, p.id>>
                          /\ p.h = descriptor_set_owners[o.id].pool
    BY <1>1 DEF SetInv
  <2>2. o.id \in DOMAIN descriptor_set_owners
    BY <1>1 DEF SetInv
  <2>3. o.id \in SetsOf(x.h) <=> p.h = x.h
    BY <2>1, <2>2 DEF SetsOf
  <2>4. p.h = x.h <=> p = x
    BY <2>1 DEF ObjectInv, UniqueInv
  <2>5. x.id # Null /\ p.id # Null
    BY <2>1 DEF ObjectInv, ShapeInv, HasName
  <2>6. p = x <=> p.id = x.id
    BY <2>1, <2>5 DEF ObjectInv, UniqueInv
  <2>7. p.id = x.id <=> o.parent = <<"descriptor_pools", x.id>>
    BY <2>1, Pairs
  <2>8. QED
    BY <2>3, <2>4, <2>6, <2>7
<1>2. QED
  BY <1>1 DEF SetsOf

\* Two tables that are changed one after the other.
TookBoth(k, ids, m, jds) ==
  /\ TakenFrom(tables', tables)
  /\ \A i \in AllIds(k) : tables'[k][i] = IF i \in ids THEN Gone ELSE tables[k][i]
  /\ \A i \in AllIds(m) : tables'[m][i] = IF i \in jds THEN Gone ELSE tables[m][i]
  /\ \A y \in Kinds : y # k /\ y # m => tables'[y] = tables[y]

LEMMA TookTwo ==
  ASSUME StateType, NEW k \in Kinds, NEW ids, NEW m \in Kinds, NEW jds, k # m,
         tables' = Take(Take(tables, k, ids), m, jds)
  PROVE  TookBoth(k, ids, m, jds)
<1>1. PICK u : u = Take(tables, k, ids)
  OBVIOUS
<1>2. tables \in [Kinds -> Seq(Slot)]
  BY DEF StateType
<1>3. Took(u, tables, k, ids)
  BY <1>1, <1>2, TakeFacts
<1>4. u \in [Kinds -> Seq(Slot)]
  BY <1>3 DEF Took
<1>5. Took(tables', u, m, jds)
  BY <1>1, <1>4, TakeFacts
<1>6. TakenFrom(tables', tables)
  BY <1>2, <1>3, <1>4, <1>5, TookTaken, TakenTwice
<1>7. tables'[k] = u[k] /\ u[m] = tables[m]
  BY <1>3, <1>5 DEF Took
<1>8. \A i \in AllIds(k) : tables'[k][i] = IF i \in ids THEN Gone ELSE tables[k][i]
  BY <1>3, <1>7 DEF Took, AllIds, Ids
<1>9. \A i \in AllIds(m) : tables'[m][i] = IF i \in jds THEN Gone ELSE tables[m][i]
  BY <1>5, <1>7 DEF Took, AllIds, Ids
<1>10. \A y \in Kinds : y # k /\ y # m => tables'[y] = tables[y]
  BY <1>3, <1>5 DEF Took
<1>11. QED
  BY <1>6, <1>8, <1>9, <1>10 DEF TookBoth

\* handle_DestroyDescriptorPool and handle_ResetDescriptorPool.
LEMMA EmptyDescriptorPoolStep ==
  ASSUME ObjectsInv, NEW destroy \in BOOLEAN, EmptyDescriptorPool(destroy)
  PROVE  ObjectsInv'
<1>1. /\ Serving /\ doing' = doing /\ faults' = faults /\ orphaned' = orphaned
      /\ registered' = registered /\ command_buffer_devices' = command_buffer_devices
      /\ UNCHANGED <<swapchain_devices, swapchain_surfaces>> /\ swapchain_devices' = swapchain_devices
      /\ swapchain_image_ids' = swapchain_image_ids
  BY DEF EmptyDescriptorPool, watched
<1>2. /\ TypeInv /\ StateType /\ ObjectInv /\ MapInv /\ faults = {}
      /\ doing.h = Null /\ doing.at = "serving"
  BY <1>1, ServingInv
<1>. DEFINE Dp == "descriptor_pools"
            Ds == "descriptor_sets"
            Pool(p) == Get(tables, Dp, p)
            Without(p) == Take(tables, Ds, SetsOf(Pool(p)))
            All(p) == NativeDestroy(Dp, {Pool(p)})
            Does(p) ==
              /\ tables' = IF destroy THEN Take(Without(p), Dp, {p}) ELSE Without(p)
              /\ live' = live \ (IF destroy THEN All(p) ELSE All(p) \ Objects(Dp))
              /\ descriptor_set_owners' = Erase(descriptor_set_owners, SetsOf(Pool(p)))
<1>3. PICK d \in LiveDevices : \E p \in Held(Dp, d) : Does(p)
  BY DEF EmptyDescriptorPool
<1>4. PICK p \in Held(Dp, d) : Does(p)
  BY <1>3
<1>5. PICK x \in live : IsHeld(x, Dp, p, d)
  BY <1>2, HeldObject, KindFacts
<1>6. /\ x.kind = Dp /\ x.id = p /\ p # Null /\ p \in AllIds(Dp) /\ Pool(p) = x.h
      /\ All(p) = {x} \cup {o \in live : o.parent = <<Dp, p>>}
  BY <1>5 DEF IsHeld
<1>7. PICK S : S = SetsOf(x.h)
  OBVIOUS
<1>8. /\ RegType /\ SetType /\ ChainType /\ DOMAIN command_buffer_devices \subseteq Handles
      /\ RegInv /\ SetInv /\ BufferInv /\ ChainInv /\ ImageInv
  BY <1>2 DEF TypeInv, MapInv
<1>9. /\ S \subseteq DOMAIN descriptor_set_owners
      /\ \A o \in live : o.kind = Ds => (o.id \in S <=> o.parent = <<Dp, p>>)
  BY <1>2, <1>6, <1>7, <1>8, SetsOfPool
<1>10. \A o \in live : o.parent = <<Dp, p>> => o.kind = Ds /\ o.id \in S
  <2>1. ASSUME NEW o \in live, o.parent = <<Dp, p>> PROVE o.kind = Ds /\ o.id \in S
    <3>1. <<o.kind, Dp>> \in Parentage
      BY <1>2, <2>1, ChildKinds
    <3>2. o.kind = Ds
      BY <3>1, ParentageFacts
    <3>3. QED
      BY <1>9, <2>1, <3>2
  <2>2. QED
    BY <2>1
<1>11. live' = live \ ({o \in live : o.parent = <<Dp, p>>} \cup (IF destroy THEN {x} ELSE {}))
  <2>1. All(p) \ Objects(Dp) = {o \in live : o.parent = <<Dp, p>>}
    BY <1>6, <1>10 DEF Objects
  <2>2. QED
    BY <1>4, <1>6, <2>1
<1>12. tables' = IF destroy THEN Take(Take(tables, Ds, S), Dp, {p}) ELSE Take(tables, Ds, S)
  BY <1>4, <1>6, <1>7
<1>13. PICK f : f = descriptor_set_owners'
  OBVIOUS
<1>14. /\ DOMAIN f = DOMAIN descriptor_set_owners \ S /\ IsFn(f)
       /\ \A i \in DOMAIN descriptor_set_owners \ S : f[i] = descriptor_set_owners[i]
  <2>1. f = Erase(descriptor_set_owners, S)
    BY <1>4, <1>6, <1>7, <1>13
  <2>2. QED
    BY <2>1, EraseFacts
<1>. HIDE DEF Does, All, Pool, Without
<1>15. /\ TakenFrom(tables', tables)
       /\ \A i \in AllIds(Ds) : tables'[Ds][i] = IF i \in S THEN Gone ELSE tables[Ds][i]
       /\ \A i \in AllIds(Dp) : tables'[Dp][i] = IF destroy /\ i = p THEN Gone ELSE tables[Dp][i]
       /\ \A y \in Kinds : y # Ds /\ y # Dp => tables'[y] = tables[y]
  <2>1. CASE destroy
    <3>1. PICK ids : ids = {p}
      OBVIOUS
    <3>2. /\ TakenFrom(tables', tables)
          /\ \A i \in AllIds(Ds) : tables'[Ds][i] = IF i \in S THEN Gone ELSE tables[Ds][i]
          /\ \A i \in AllIds(Dp) : tables'[Dp][i] = IF i \in ids THEN Gone ELSE tables[Dp][i]
          /\ \A y \in Kinds : y # Ds /\ y # Dp => tables'[y] = tables[y]
      <4>1. tables' = Take(Take(tables, Ds, S), Dp, ids)
        BY <1>12, <2>1, <3>1
      <4>2. Ds \in Kinds /\ Dp \in Kinds /\ Ds # Dp
        BY KindFacts
      <4>3. TookBoth(Ds, S, Dp, ids)
        BY <1>2, <4>1, <4>2, TookTwo
      <4>4. QED
        BY <4>3 DEF TookBoth
    <3>3. QED
      BY <2>1, <3>1, <3>2
  <2>2. CASE ~ destroy
    <3>1. Took(tables', tables, Ds, S)
      BY <1>2, <1>12, <2>2, TakeFacts, KindFacts DEF StateType
    <3>2. TakenFrom(tables', tables)
      BY <1>2, <3>1, TookTaken, KindFacts DEF StateType
    <3>3. QED
      BY <2>2, <3>1, <3>2, KindFacts DEF Took, AllIds, Ids
  <2>3. QED
    BY <2>1, <2>2
<1>16. /\ live' \subseteq live
       /\ \A o \in live \ live' : o.parent = <<Dp, p>> \/ (o = x /\ destroy)
       /\ \A o \in live' : o.parent # <<Dp, p>> /\ (destroy => o # x)
  BY <1>11
<1>17. /\ StateType' /\ Taken /\ \A y \in Kinds : AllIds(y)' = AllIds(y)
       /\ \A y \in Kinds : AllIds(y) \subseteq AllIds(y)'
  <2>1. doing' \in [at : {"serving", "ending", "ended"}, h : Handles \cup {Null},
                    id : 0 .. Len(tables["devices"])]
    BY <1>1, <1>2 DEF StateType
  <2>2. (doing'.h = Null => doing'.id = Null) /\ (doing'.at = "ended" => doing'.h = Null)
    BY <1>1, <1>2 DEF StateType
  <2>3. orphaned' \subseteq AllIds("command_buffers")
    BY <1>1, <1>2 DEF StateType
  <2>4. QED
    BY <1>2, <1>15, <1>16, <2>1, <2>2, <2>3, TakenType
<1>18. Removes(x)
  <2>1. \A o \in live \ live' : o = x \/ o.parent = <<x.kind, x.id>>
    BY <1>6, <1>16
  <2>2. \A o \in live : o.parent = <<x.kind, x.id>> => o \notin live'
    BY <1>6, <1>16
  <2>3. ASSUME NEW o \in live \ live', o.id # Null PROVE tables'[o.kind][o.id].h = Null
    <3>1. CASE o.parent = <<Dp, p>>
      <4>1. o.kind = Ds /\ o.id \in S
        BY <1>10, <3>1
      <4>2. o.id \in AllIds(Ds)
        BY <1>2, <2>3, <4>1, NameInTable
      <4>3. QED
        BY <1>15, <4>1, <4>2 DEF Gone
    <3>2. CASE o = x /\ destroy
      BY <1>6, <1>15, <3>2 DEF Gone
    <3>3. QED
      BY <1>16, <2>3, <3>1, <3>2
  <2>4. ASSUME NEW o \in live', o.id # Null, o.kind # "queues"
        PROVE  tables'[o.kind][o.id] = tables[o.kind][o.id]
    <3>1. o \in live /\ o.kind \in Kinds /\ o.id \in AllIds(o.kind)
      BY <1>2, <1>16, <2>4, NameInTable
    <3>2. CASE o.kind = Ds
      BY <1>9, <1>15, <1>16, <3>1, <3>2
    <3>3. CASE o.kind = Dp
      <4>1. o.id = p => o = x
        BY <1>2, <1>6, <3>1, <3>3 DEF ObjectInv, UniqueInv
      <4>2. QED
        BY <1>15, <1>16, <3>1, <3>3, <4>1
    <3>4. CASE o.kind # Ds /\ o.kind # Dp
      BY <1>15, <3>1, <3>4
    <3>5. QED
      BY <3>2, <3>3, <3>4
  <2>5. QED
    BY <1>1, <1>2, <1>6, <1>16, <2>1, <2>2, <2>3, <2>4 DEF Removes
<1>19. Shrinks /\ Closed
  BY <1>2, <1>17, <1>18, RemovesShrinks DEF Shrinks
<1>20. ObjectInv'
  BY <1>2, <1>19, ShrinksKeeps
<1>21. SetType'
  BY <1>8, <1>13, <1>14, <1>17, KindFacts DEF SetType, IsFn
<1>22. TypeInv'
  BY <1>1, <1>8, <1>17, <1>21, MapTypes DEF TypeInv
<1>23. SetInv'
  <2>1. ASSUME NEW o \in live', o.kind = Ds
        PROVE  /\ o.id \in DOMAIN f /\ DeviceIs(o.dev, f[o.id].device)'
               /\ \E q \in live' : q.kind = Dp /\ o.parent = <<q.kind, q.id>> /\ q.h = f[o.id].pool
    <3>1. o \in live /\ o.id \notin S
      BY <1>9, <1>16, <2>1
    <3>2. /\ o.id \in DOMAIN descriptor_set_owners
          /\ DeviceIs(o.dev, descriptor_set_owners[o.id].device)
      BY <1>8, <2>1, <3>1 DEF SetInv
    <3>3. PICK q \in live : /\ q.kind = Dp /\ o.parent = <<q.kind, q.id>>
                            /\ q.h = descriptor_set_owners[o.id].pool
      BY <1>8, <2>1, <3>1 DEF SetInv
    <3>4. f[o.id] = descriptor_set_owners[o.id] /\ o.id \in DOMAIN f
      BY <1>14, <3>1, <3>2
    <3>5. DeviceIs(o.dev, f[o.id].device)'
      BY <1>19, <3>2, <3>4 DEF Closed, DeviceIs
    <3>6. q \in live'
      BY <1>19, <3>3 DEF Closed
    <3>7. QED
      BY <3>3, <3>4, <3>5, <3>6
  <2>2. ASSUME NEW i \in DOMAIN f
        PROVE  /\ f[i] = [device |-> f[i].device, pool |-> f[i].pool]
               /\ \E o \in live' : o.kind = Ds /\ o.id = i
    <3>1. i \in DOMAIN descriptor_set_owners /\ i \notin S /\ f[i] = descriptor_set_owners[i]
      BY <1>14
    <3>2. PICK o \in live : o.kind = Ds /\ o.id = i
      BY <1>2, <1>8, <3>1 DEF SetInv
    <3>3. o \in live'
      BY <1>6, <1>10, <1>16, <3>1, <3>2
    <3>4. f[i] = [device |-> f[i].device, pool |-> f[i].pool]
      BY <1>8, <3>1 DEF SetInv
    <3>5. QED
      BY <3>2, <3>3, <3>4
  <2>3. QED
    BY <1>13, <2>1, <2>2 DEF SetInv
<1>24. \A y \in RegisteredKinds : tables'[y] = tables[y]
  BY <1>15, KindFacts DEF RegisteredKinds
<1>25. \A o \in live \ live' : o.kind \notin {"swapchains", "images"}
  BY <1>6, <1>10, <1>16
<1>26. RegInv' /\ BufferInv' /\ ChainInv' /\ ImageInv'
  BY <1>1, <1>8, <1>17, <1>19, <1>24, <1>25, RegKept, BufferShrinks, ChainShrinks, ImageShrinks
<1>27. QED
  BY <1>1, <1>2, <1>20, <1>22, <1>23, <1>26, ServingStep DEF MapInv

\* handle_DestroySwapchainKHR: the swapchain, its images and their names go.
LEMMA DestroySwapchainStep ==
  ASSUME ObjectsInv, DestroySwapchain
  PROVE  ObjectsInv'
<1>1. /\ Serving /\ doing' = doing /\ faults' = faults /\ orphaned' = orphaned
      /\ registered' = registered /\ descriptor_set_owners' = descriptor_set_owners
      /\ command_buffer_devices' = command_buffer_devices
  BY DEF DestroySwapchain, watched
<1>2. /\ TypeInv /\ StateType /\ ObjectInv /\ MapInv /\ faults = {}
      /\ doing.h = Null /\ doing.at = "serving"
  BY <1>1, ServingInv
<1>. DEFINE Sc == "swapchains"
            Im == "images"
            Chain(id) == Get(tables, Sc, id)
            Does(id) ==
              /\ live' = live \ NativeDestroy(Sc, {Chain(id)})
              /\ tables' = Take(Take(tables, Sc, {id}), Im, ImageIdsOf(id))
              /\ swapchain_devices' = Erase(swapchain_devices, {Chain(id)})
              /\ swapchain_surfaces' = Erase(swapchain_surfaces, {Chain(id)})
              /\ swapchain_image_ids' = Erase(swapchain_image_ids, {id})
<1>3. PICK d \in LiveDevices : \E id \in Held(Sc, d) : Does(id)
  BY DEF DestroySwapchain
<1>4. PICK id \in Held(Sc, d) : Does(id)
  BY <1>3
<1>5. PICK x \in live : IsHeld(x, Sc, id, d)
  BY <1>2, HeldObject, KindFacts
<1>6. /\ x.kind = Sc /\ x.id = id /\ id # Null /\ id \in AllIds(Sc) /\ Chain(id) = x.h
      /\ NativeDestroy(Sc, {Chain(id)}) = {x} \cup {o \in live : o.parent = <<Sc, id>>}
  BY <1>5 DEF IsHeld
<1>7. PICK I : I = ImageIdsOf(id)
  OBVIOUS
<1>8. /\ RegType /\ SetType /\ ChainType /\ DOMAIN command_buffer_devices \subseteq Handles
      /\ RegInv /\ SetInv /\ BufferInv /\ ChainInv /\ ImageInv
  BY <1>2 DEF TypeInv, MapInv
<1>9. \A o \in live : o.parent = <<Sc, id>> => o.kind = Im
  <2>1. ASSUME NEW o \in live, o.parent = <<Sc, id>> PROVE o.kind = Im
    <3>1. <<o.kind, Sc>> \in Parentage
      BY <1>2, <2>1, ChildKinds
    <3>2. QED
      BY <3>1, ParentageFacts
  <2>2. QED
    BY <2>1
<1>10. \A o \in live : o.kind = Im /\ o.id # Null => (o.id \in I <=> o.parent = <<Sc, id>>)
  <2>1. ASSUME NEW o \in live, o.kind = Im, o.id # Null, o.id \in I PROVE o.parent = <<Sc, id>>
    <3>1. id \in DOMAIN swapchain_image_ids
      BY <1>7, <2>1 DEF ImageIdsOf
    <3>2. QED
      BY <1>7, <1>8, <2>1, <3>1 DEF ImageInv
  <2>2. ASSUME NEW o \in live, o.kind = Im, o.id # Null, o.parent = <<Sc, id>> PROVE o.id \in I
    <3>1. o.parent # <<>> /\ o.parent[2] = id
      BY <2>2, Pairs
    <3>2. QED
      BY <1>7, <1>8, <2>2, <3>1 DEF ImageInv
  <2>3. QED
    BY <2>1, <2>2
<1>11. live' = live \ ({x} \cup {o \in live : o.parent = <<Sc, id>>})
  BY <1>4, <1>6
<1>12. PICK ids, F, G, L : /\ ids = {id} /\ F = swapchain_devices' /\ G = swapchain_surfaces'
                           /\ L = swapchain_image_ids'
  OBVIOUS
<1>13. TookBoth(Sc, ids, Im, I)
  <2>1. tables' = Take(Take(tables, Sc, ids), Im, I)
    BY <1>4, <1>7, <1>12
  <2>2. Sc \in Kinds /\ Im \in Kinds /\ Sc # Im
    BY KindFacts
  <2>3. QED
    BY <1>2, <2>1, <2>2, TookTwo
<1>14. /\ DOMAIN F = DOMAIN swapchain_devices \ {x.h} /\ DOMAIN G = DOMAIN swapchain_surfaces \ {x.h}
       /\ \A c \in DOMAIN swapchain_devices \ {x.h} : F[c] = swapchain_devices[c]
       /\ DOMAIN L = DOMAIN swapchain_image_ids \ {id}
       /\ \A s \in DOMAIN swapchain_image_ids \ {id} : L[s] = swapchain_image_ids[s]
  <2>1. /\ F = Erase(swapchain_devices, {x.h}) /\ G = Erase(swapchain_surfaces, {x.h})
        /\ L = Erase(swapchain_image_ids, {id})
    BY <1>4, <1>6, <1>12
  <2>2. QED
    BY <2>1, EraseFacts
<1>. HIDE DEF Does, Chain
<1>15. /\ TakenFrom(tables', tables)
       /\ \A i \in AllIds(Sc) : tables'[Sc][i] = IF i = id THEN Gone ELSE tables[Sc][i]
       /\ \A i \in AllIds(Im) : tables'[Im][i] = IF i \in I THEN Gone ELSE tables[Im][i]
       /\ \A y \in Kinds : y # Sc /\ y # Im => tables'[y] = tables[y]
  BY <1>12, <1>13 DEF TookBoth
<1>16. /\ live' \subseteq live
       /\ \A o \in live \ live' : o.parent = <<Sc, id>> \/ o = x
       /\ \A o \in live' : o.parent # <<Sc, id>> /\ o # x
  BY <1>11
<1>17. /\ StateType' /\ Taken /\ \A y \in Kinds : AllIds(y)' = AllIds(y)
       /\ \A y \in Kinds : AllIds(y) \subseteq AllIds(y)'
  <2>1. doing' \in [at : {"serving", "ending", "ended"}, h : Handles \cup {Null},
                    id : 0 .. Len(tables["devices"])]
    BY <1>1, <1>2 DEF StateType
  <2>2. (doing'.h = Null => doing'.id = Null) /\ (doing'.at = "ended" => doing'.h = Null)
    BY <1>1, <1>2 DEF StateType
  <2>3. orphaned' \subseteq AllIds("command_buffers")
    BY <1>1, <1>2 DEF StateType
  <2>4. QED
    BY <1>2, <1>15, <1>16, <2>1, <2>2, <2>3, TakenType
<1>18. \A o \in live' : o.kind = Sc => o.id # id
  BY <1>2, <1>6, <1>16 DEF ObjectInv, UniqueInv
<1>19. Removes(x)
  <2>1. \A o \in live \ live' : o = x \/ o.parent = <<x.kind, x.id>>
    BY <1>6, <1>16
  <2>2. \A o \in live : o.parent = <<x.kind, x.id>> => o \notin live'
    BY <1>6, <1>16
  <2>3. ASSUME NEW o \in live \ live', o.id # Null PROVE tables'[o.kind][o.id].h = Null
    <3>1. CASE o.parent = <<Sc, id>>
      <4>1. o.kind = Im /\ o.id \in I
        BY <1>9, <1>10, <2>3, <3>1
      <4>2. o.id \in AllIds(Im)
        BY <1>2, <2>3, <4>1, NameInTable
      <4>3. QED
        BY <1>15, <4>1, <4>2 DEF Gone
    <3>2. CASE o = x
      BY <1>6, <1>15, <3>2 DEF Gone
    <3>3. QED
      BY <1>16, <2>3, <3>1, <3>2
  <2>4. ASSUME NEW o \in live', o.id # Null, o.kind # "queues"
        PROVE  tables'[o.kind][o.id] = tables[o.kind][o.id]
    <3>1. o \in live /\ o.kind \in Kinds /\ o.id \in AllIds(o.kind)
      BY <1>2, <1>16, <2>4, NameInTable
    <3>2. CASE o.kind = Im
      BY <1>10, <1>15, <1>16, <2>4, <3>1, <3>2
    <3>3. CASE o.kind = Sc
      BY <1>15, <1>18, <3>1, <3>3
    <3>4. CASE o.kind # Sc /\ o.kind # Im
      BY <1>15, <3>1, <3>4
    <3>5. QED
      BY <3>2, <3>3, <3>4
  <2>5. QED
    BY <1>1, <1>2, <1>6, <1>16, <2>1, <2>2, <2>3, <2>4 DEF Removes
<1>20. Shrinks /\ Closed
  BY <1>2, <1>17, <1>19, RemovesShrinks DEF Shrinks
<1>21. ObjectInv'
  BY <1>2, <1>20, ShrinksKeeps
<1>22. ChainType'
  BY <1>8, <1>12, <1>14, <1>17, KindFacts DEF ChainType
<1>23. TypeInv'
  BY <1>1, <1>8, <1>17, <1>22, MapTypes DEF TypeInv
<1>24. ChainInv'
  <2>1. ASSUME NEW o \in live', o.kind = Sc PROVE o.h \in DOMAIN F /\ DeviceIs(o.dev, F[o.h])'
    <3>1. o \in live /\ o # x
      BY <1>16
    <3>2. o.h # x.h
      BY <1>2, <1>6, <2>1, <3>1 DEF ObjectInv, UniqueInv
    <3>3. o.h \in DOMAIN swapchain_devices /\ DeviceIs(o.dev, swapchain_devices[o.h])
      BY <1>8, <2>1, <3>1 DEF ChainInv
    <3>4. F[o.h] = swapchain_devices[o.h] /\ o.h \in DOMAIN F
      BY <1>14, <3>2, <3>3
    <3>5. QED
      BY <1>20, <3>3, <3>4 DEF Closed, DeviceIs
  <2>2. ASSUME NEW c \in DOMAIN F PROVE \E o \in live' : o.kind = Sc /\ o.h = c
    <3>1. c \in DOMAIN swapchain_devices /\ c # x.h
      BY <1>14
    <3>2. PICK o \in live : o.kind = Sc /\ o.h = c
      BY <1>2, <1>8, <3>1 DEF ChainInv
    <3>3. QED
      BY <1>9, <1>16, <3>1, <3>2
  <2>3. DOMAIN F = DOMAIN G
    BY <1>8, <1>14 DEF ChainInv
  <2>4. QED
    BY <1>12, <2>1, <2>2, <2>3 DEF ChainInv
<1>25. ImageInv'
  <2>1. DOMAIN L = DOMAIN swapchain_image_ids' /\ \A s : s # id => ImageIdsOf(s)' = ImageIdsOf(s)
    BY <1>12, <1>14 DEF ImageIdsOf
  <2>2. ASSUME NEW o \in live', o.kind = Im, o.id # Null, o.parent # <<>>
        PROVE  o.id \in ImageIdsOf(o.parent[2])'
    <3>1. o \in live /\ o.id \in ImageIdsOf(o.parent[2])
      BY <1>8, <1>16, <2>2 DEF ImageInv
    <3>2. PICK p \in live : o.parent = <<p.kind, p.id>> /\ <<o.kind, p.kind>> \in Parentage
      BY <1>2, <2>2, <3>1 DEF ObjectInv, ShapeInv, HasParent
    <3>3. p.kind = Sc /\ o.parent[2] = p.id
      BY <2>2, <3>2, ParentageFacts, Pairs
    <3>4. p.id # id
      BY <1>16, <3>2, <3>3
    <3>5. QED
      BY <2>1, <3>1, <3>3, <3>4
  <2>3. ASSUME NEW s \in DOMAIN L, NEW i \in ImageIdsOf(s)'
        PROVE  /\ i \in AllIds(Im)'
               /\ \A o \in live' : o.kind = Im /\ o.id = i => o.parent = <<Sc, s>>
    <3>1. s \in DOMAIN swapchain_image_ids /\ i \in ImageIdsOf(s)
      BY <1>14, <2>1, <2>3
    <3>2. i \in AllIds(Im) /\ \A o \in live : o.kind = Im /\ o.id = i => o.parent = <<Sc, s>>
      BY <1>8, <3>1 DEF ImageInv
    <3>3. AllIds(Im)' = AllIds(Im)
      BY <1>17, KindFacts
    <3>4. QED
      BY <1>16, <3>2, <3>3
  <2>4. ASSUME NEW o \in live', o.kind = Sc
        PROVE  \E c \in live' : c.kind = Im /\ c.parent = <<Sc, o.id>>
    <3>1. PICK c \in live : c.kind = Im /\ c.parent = <<Sc, o.id>>
      BY <1>8, <1>16, <2>4 DEF ImageInv
    <3>2. c.parent # <<Sc, id>> /\ c # x
      BY <1>6, <1>18, <2>4, <3>1, Pairs
    <3>3. QED
      BY <1>16, <3>1, <3>2
  <2>5. QED
    BY <1>12, <2>1, <2>2, <2>3, <2>4 DEF ImageInv
<1>26. \A y \in RegisteredKinds : tables'[y] = tables[y]
  BY <1>15, KindFacts DEF RegisteredKinds
<1>27. \A o \in live \ live' : o.kind # "descriptor_sets"
  BY <1>6, <1>9, <1>16
<1>28. RegInv' /\ SetInv' /\ BufferInv'
  BY <1>1, <1>8, <1>20, <1>26, <1>27, RegKept, SetShrinks, BufferShrinks
<1>29. QED
  BY <1>1, <1>2, <1>21, <1>23, <1>24, <1>25, <1>28, ServingStep DEF MapInv

------------------------------------------------------------------------------
(* Calls that change nothing here, and the beginning of a teardown. *)

\* Steps that leave objects, names and the content of the maps alone.
LEMMA QuietImages ==
  ASSUME TypeInv, ObjectInv, MapInv, StateType',
         tables' = tables, live' = live, orphaned' = orphaned,
         doing'.h = doing.h, doing'.id = doing.id,
         UNCHANGED <<registered, descriptor_set_owners, command_buffer_devices,
                     swapchain_devices, swapchain_surfaces>>,
         DOMAIN swapchain_image_ids' \subseteq AllIds("swapchains"),
         \A s : ImageIdsOf(s)' = ImageIdsOf(s)
  PROVE  TypeInv' /\ ObjectInv' /\ MapInv'
<1>1. /\ registered' = registered /\ descriptor_set_owners' = descriptor_set_owners
      /\ command_buffer_devices' = command_buffer_devices
      /\ swapchain_devices' = swapchain_devices /\ swapchain_surfaces' = swapchain_surfaces
  OBVIOUS
<1>2. TypeInv'
  BY <1>1 DEF TypeInv, RegType, SetType, ChainType, IsFn, AllIds, Ids
<1>3. \A d, h : DeviceIs(d, h)' <=> DeviceIs(d, h)
  BY DEF DeviceIs
<1>4. UniqueInv' /\ ShapeInv'
  BY DEF ObjectInv, UniqueInv, ShapeInv, HasName, HasDevice, HasParent, HasRefs, AllIds, Ids
<1>5. NameInv' /\ NamedInv'
  BY DEF ObjectInv, NameInv, NamedInv, Loose, Excused, OwnerIs, DeviceIs, AllIds, Ids
<1>6. DoingInv' /\ QueueInv'
  BY DEF ObjectInv, DoingInv, QueueInv, DeviceIs, AllIds, Ids
<1>7. RegInv' /\ SetInv'
  BY <1>1 DEF MapInv, RegInv, SetInv, DeviceIs, AllIds, Ids
<1>8. BufferInv' /\ ChainInv' /\ ImageInv'
  <2>1. BufferInv' /\ ChainInv'
    BY <1>1 DEF MapInv, BufferInv, ChainInv, DeviceIs
  <2>2. AllIds("images")' = AllIds("images")
    BY DEF AllIds, Ids
  <2>3. \A s : \A i \in ImageIdsOf(s) : s \in DOMAIN swapchain_image_ids
    BY DEF ImageIdsOf
  <2>4. ImageInv'
    BY <2>2, <2>3 DEF MapInv, ImageInv
  <2>5. QED
    BY <2>1, <2>4
<1>9. QED
  BY <1>2, <1>4, <1>5, <1>6, <1>7, <1>8 DEF ObjectInv, MapInv

LEMMA QuietStep ==
  ASSUME TypeInv, ObjectInv, MapInv, StateType',
         tables' = tables, UNCHANGED maps, live' = live, orphaned' = orphaned,
         doing'.h = doing.h, doing'.id = doing.id
  PROVE  TypeInv' /\ ObjectInv' /\ MapInv'
<1>1. /\ UNCHANGED <<registered, descriptor_set_owners, command_buffer_devices,
                     swapchain_devices, swapchain_surfaces>>
      /\ swapchain_image_ids' = swapchain_image_ids
  BY DEF maps
<1>2. /\ DOMAIN swapchain_image_ids' \subseteq AllIds("swapchains")
      /\ \A s : ImageIdsOf(s)' = ImageIdsOf(s)
  BY <1>1 DEF TypeInv, ChainType, ImageIdsOf
<1>3. QED
  BY <1>1, <1>2, QuietImages

\* handle_GetSwapchainImagesKHR, when the driver does not say how many images
\* there are.
LEMMA CountFailsStep ==
  ASSUME ObjectsInv, CountSwapchainImagesFails
  PROVE  ObjectsInv'
<1>1. /\ Serving /\ tables' = tables /\ live' = live /\ doing' = doing
      /\ orphaned' = orphaned /\ faults' = faults
      /\ UNCHANGED <<registered, descriptor_set_owners, command_buffer_devices,
                     swapchain_devices, swapchain_surfaces>>
  BY DEF CountSwapchainImagesFails, watched
<1>2. /\ TypeInv /\ StateType /\ ObjectInv /\ MapInv /\ faults = {}
      /\ doing.h = Null /\ doing.at = "serving"
  BY <1>1, ServingInv
<1>3. StateType'
  BY <1>1, <1>2 DEF StateType, AllIds, Ids
<1>4. PICK d \in LiveDevices : \E s \in Held("swapchains", d) :
         /\ ImageIdsOf(s) = {}
         /\ swapchain_image_ids' = Put(swapchain_image_ids, s, <<>>)
  BY DEF CountSwapchainImagesFails
<1>5. PICK s \in Held("swapchains", d) :
         /\ ImageIdsOf(s) = {}
         /\ swapchain_image_ids' = Put(swapchain_image_ids, s, <<>>)
  BY <1>4
<1>6. PICK f : f = swapchain_image_ids'
  OBVIOUS
<1>7. f = [y \in DOMAIN swapchain_image_ids \cup {s} |->
             IF y = s THEN <<>> ELSE swapchain_image_ids[y]]
  BY <1>5, <1>6 DEF Put
<1>8. /\ DOMAIN f = DOMAIN swapchain_image_ids \cup {s} /\ f[s] = <<>>
      /\ \A y \in DOMAIN swapchain_image_ids \ {s} : f[y] = swapchain_image_ids[y]
  BY <1>7
<1>9. DOMAIN f \subseteq AllIds("swapchains")
  <2>1. s \in AllIds("swapchains")
    BY <1>2, HeldFacts, NameInTable
  <2>2. QED
    BY <1>2, <1>8, <2>1 DEF TypeInv, ChainType
<1>10. ASSUME NEW y  PROVE ImageIdsOf(y)' = ImageIdsOf(y)
  <2>1. CASE y = s
    <3>1. Range(<<>>) = {}
      BY DEF Range
    <3>2. ImageIdsOf(s)' = {}
      BY <1>6, <1>8, <3>1 DEF ImageIdsOf
    <3>3. QED
      BY <1>5, <2>1, <3>2
  <2>2. CASE y # s
    BY <1>6, <1>8, <2>2 DEF ImageIdsOf
  <2>3. QED
    BY <2>1, <2>2
<1>11. TypeInv' /\ ObjectInv' /\ MapInv'
  BY <1>1, <1>2, <1>3, <1>6, <1>9, <1>10, QuietImages
<1>12. QED
  BY <1>1, <1>2, <1>11, ServingStep

LEMMA UseStep ==
  ASSUME ObjectsInv, UNCHANGED <<tables, maps, doing, live, watched>>
  PROVE  ObjectsInv'
<1>1. /\ tables' = tables /\ UNCHANGED maps /\ live' = live /\ orphaned' = orphaned
      /\ doing' = doing /\ faults' = faults
  BY DEF watched
<1>2. StateType'
  BY <1>1 DEF ObjectsInv, TypeInv, StateType, AllIds, Ids
<1>3. CASE doing.at = "ended"
  <2>1. TypeInv'
    BY <1>1, <1>2 DEF ObjectsInv, TypeInv, RegType, SetType, ChainType, IsFn, AllIds, Ids, maps
  <2>2. QED
    BY <1>1, <1>3, <2>1 DEF ObjectsInv
<1>4. CASE doing.at # "ended"
  <2>1. TypeInv' /\ ObjectInv' /\ MapInv'
    BY <1>1, <1>2, <1>4, QuietStep DEF ObjectsInv
  <2>2. QED
    BY <1>1, <1>4, <2>1 DEF ObjectsInv
<1>5. QED
  BY <1>3, <1>4

\* The connection is gone.
LEMMA EndSessionStep ==
  ASSUME ObjectsInv, EndSession
  PROVE  ObjectsInv'
<1>1. /\ Serving /\ tables' = tables /\ UNCHANGED maps /\ live' = live /\ orphaned' = orphaned
      /\ faults' = faults /\ doing' = [doing EXCEPT !.at = "ending"]
  BY DEF EndSession, watched
<1>2. /\ TypeInv /\ StateType /\ ObjectInv /\ MapInv /\ faults = {}
      /\ doing.h = Null /\ doing.at = "serving"
  BY <1>1, ServingInv
<1>3. /\ doing'.h = doing.h /\ doing'.id = doing.id /\ doing'.at = "ending"
      /\ doing' \in [at : {"serving", "ending", "ended"}, h : Handles \cup {Null},
                     id : 0 .. Len(tables["devices"])]
  BY <1>1, <1>2 DEF StateType
<1>4. StateType'
  BY <1>1, <1>2, <1>3 DEF StateType, AllIds, Ids
<1>5. TypeInv' /\ ObjectInv' /\ MapInv'
  BY <1>1, <1>2, <1>3, <1>4, QuietStep
<1>6. QED
  BY <1>1, <1>2, <1>3, <1>5, ServingStep

\* handle_DestroyDevice, and destroy_session_objects where it comes to a device.
LEMMA StartTeardown ==
  ASSUME ObjectsInv, doing.at # "ended", doing.h = Null, NEW d \in LiveDevices,
         doing' = [doing EXCEPT !.h = Native(d), !.id = d],
         tables' = Take(tables, "devices", {d}),
         UNCHANGED maps, live' = live, orphaned' = orphaned, faults' = faults
  PROVE  ObjectsInv'
<1>1. TypeInv /\ StateType /\ ObjectInv /\ MapInv /\ faults = {}
  BY DEF ObjectsInv, TypeInv
<1>2. /\ d \in Nat /\ d # Null /\ Native(d) \in Handles /\ Native(d) # Null
      /\ d \in AllIds("devices") /\ DeviceIs(d, Native(d))
  BY <1>1, LiveDevice
<1>3. PICK h : h = Native(d)
  OBVIOUS
<1>4. doing'.h = h /\ doing'.id = d /\ doing'.at = doing.at
  BY <1>1, <1>3 DEF StateType
<1>5. doing' \in [at : {"serving", "ending", "ended"}, h : Handles \cup {Null},
                  id : 0 .. Len(tables["devices"])]
  <2>1. d \in 0 .. Len(tables["devices"])
    BY <1>2 DEF AllIds, Ids
  <2>2. QED
    BY <1>1, <1>2, <2>1 DEF StateType
<1>6. Took(tables', tables, "devices", {d})
  BY <1>1, TakeFacts, KindFacts DEF StateType
<1>7. TakenFrom(tables', tables)
  BY <1>1, <1>6, TookTaken, KindFacts DEF StateType
<1>8. /\ StateType' /\ Taken /\ \A k \in Kinds : AllIds(k) \subseteq AllIds(k)'
  <2>1. orphaned' \subseteq AllIds("command_buffers")
    BY <1>1 DEF StateType
  <2>2. (doing'.h = Null => doing'.id = Null) /\ (doing'.at = "ended" => doing'.h = Null)
    BY <1>2, <1>3, <1>4
  <2>3. QED
    BY <1>1, <1>5, <1>7, <2>1, <2>2, TakenType
<1>9. tables'["devices"][d].h = Null
  <2>1. d \in 1 .. Len(tables["devices"])
    BY <1>2 DEF AllIds, Ids
  <2>2. tables'["devices"][d] = Gone
    BY <1>6, <2>1 DEF Took
  <2>3. QED
    BY <2>2 DEF Gone
<1>10. Shrinks
  <2>1. Closed
    BY DEF Closed
  <2>2. NamesKept
    <3>1. \A k \in Kinds \ {"queues"} : \A i \in AllIds(k) : Loose(k, i) => Loose(k, i)'
      BY DEF Loose
    <3>2. QED
      BY <3>1 DEF NamesKept
  <2>3. ObjectsKept
    <3>1. ASSUME NEW o \in live, o.kind # "queues", o.id # Null, ~ Excused(o)'
          PROVE  tables'[o.kind][o.id] = tables[o.kind][o.id]
      <4>1. o.kind \in Kinds /\ o.id \in AllIds(o.kind)
        BY <1>1, <3>1, NameInTable
      <4>2. o.kind # "devices" \/ o.id # d
        BY <1>2, <1>3, <1>4, <3>1 DEF Excused
      <4>3. QED
        BY <1>6, <4>1, <4>2 DEF Took, AllIds, Ids
    <3>2. \A o : ~ Excused(o)
      BY DEF Excused
    <3>3. QED
      BY <3>1, <3>2 DEF ObjectsKept
  <2>4. DoingInv'
    <3>1. DeviceIs(d, h)'
      BY <1>2, <1>3 DEF DeviceIs
    <3>2. DeviceIs(doing.id, doing.h)'
      BY <1>4, <3>1 DEF DeviceIs
    <3>3. QED
      BY <1>2, <1>4, <1>9, <3>2 DEF DoingInv
  <2>5. QED
    BY <1>8, <2>1, <2>2, <2>3, <2>4 DEF Shrinks
<1>11. ObjectInv'
  BY <1>1, <1>10, ShrinksKeeps
<1>12. /\ RegType /\ SetType /\ ChainType /\ DOMAIN command_buffer_devices \subseteq Handles
       /\ RegInv /\ SetInv /\ BufferInv /\ ChainInv /\ ImageInv
  BY <1>1 DEF TypeInv, MapInv
<1>13. /\ registered' = registered /\ descriptor_set_owners' = descriptor_set_owners
       /\ command_buffer_devices' = command_buffer_devices
       /\ UNCHANGED <<swapchain_devices, swapchain_surfaces>> /\ swapchain_devices' = swapchain_devices
       /\ swapchain_image_ids' = swapchain_image_ids
  BY DEF maps
<1>14. TypeInv'
  BY <1>8, <1>12, <1>13, MapTypes DEF TypeInv
<1>15. \A y \in RegisteredKinds : tables'[y] = tables[y]
  BY <1>6, KindFacts DEF Took, RegisteredKinds
<1>16. RegInv'
  BY <1>12, <1>13, <1>15, RegKept
<1>17. SetInv' /\ BufferInv' /\ ChainInv' /\ ImageInv'
  BY <1>8, <1>10, <1>12, <1>13, SetShrinks, BufferShrinks, ChainShrinks, ImageShrinks DEF Shrinks
<1>18. QED
  BY <1>1, <1>4, <1>11, <1>14, <1>16, <1>17, ServingStep DEF MapInv

LEMMA DestroyDeviceStep ==
  ASSUME ObjectsInv, DestroyDevice
  PROVE  ObjectsInv'
<1>1. /\ Serving /\ UNCHANGED maps /\ live' = live /\ orphaned' = orphaned /\ faults' = faults
  BY DEF DestroyDevice, watched
<1>2. PICK d \in LiveDevices : /\ doing' = [doing EXCEPT !.h = Native(d), !.id = d]
                               /\ tables' = Take(tables, "devices", {d})
  BY DEF DestroyDevice
<1>3. QED
  BY <1>1, <1>2, StartTeardown DEF Serving

LEMMA EndDeviceStep ==
  ASSUME ObjectsInv, EndDevice
  PROVE  ObjectsInv'
<1>1. /\ doing.at = "ending" /\ doing.h = Null /\ LiveDevices # {}
      /\ UNCHANGED maps /\ live' = live /\ orphaned' = orphaned /\ faults' = faults
  BY DEF EndDevice, watched
<1>2. PICK d : d = Min(LiveDevices)
  OBVIOUS
<1>3. LiveDevices \in SUBSET Nat
  <2>1. AllIds("devices") \subseteq Nat
    BY SlotFacts, KindFacts DEF ObjectsInv, TypeInv
  <2>2. QED
    BY <2>1 DEF LiveDevices
<1>4. d \in LiveDevices
  BY <1>1, <1>2, <1>3, LeastOf
<1>5. doing' = [doing EXCEPT !.h = Native(d), !.id = d] /\ tables' = Take(tables, "devices", {d})
  BY <1>2 DEF EndDevice
<1>6. QED
  BY <1>1, <1>4, <1>5, StartTeardown

------------------------------------------------------------------------------
(* destroy_device_objects. *)

LEMMA OrderIndex == \A i \in 1 .. 23 :
  \/ i = 1 \/ i = 2 \/ i = 3 \/ i = 4 \/ i = 5 \/ i = 6 \/ i = 7 \/ i = 8 \/ i = 9 \/ i = 10
  \/ i = 11 \/ i = 12 \/ i = 13 \/ i = 14 \/ i = 15 \/ i = 16 \/ i = 17 \/ i = 18 \/ i = 19
  \/ i = 20 \/ i = 21 \/ i = 22 \/ i = 23
  OBVIOUS

LEMMA OrderLines ==
  /\ DOMAIN TeardownOrder = 1 .. 23
  /\ TeardownOrder[1] = "framebuffers" /\ TeardownOrder[2] = "pipelines"
  /\ TeardownOrder[3] = "descriptor_pools" /\ TeardownOrder[4] = "descriptor_update_templates"
  /\ TeardownOrder[5] = "image_views" /\ TeardownOrder[6] = "buffer_views"
  /\ TeardownOrder[7] = "samplers" /\ TeardownOrder[8] = "shader_modules"
  /\ TeardownOrder[9] = "pipeline_layouts" /\ TeardownOrder[10] = "descriptor_set_layouts"
  /\ TeardownOrder[11] = "render_passes" /\ TeardownOrder[12] = "pipeline_caches"
  /\ TeardownOrder[13] = "query_pools" /\ TeardownOrder[14] = "events"
  /\ TeardownOrder[15] = "fences" /\ TeardownOrder[16] = "semaphores"
  /\ TeardownOrder[17] = "sampler_ycbcr_conversions" /\ TeardownOrder[18] = "command_pools"
  /\ TeardownOrder[19] = "buffers" /\ TeardownOrder[20] = "borrowed"
  /\ TeardownOrder[21] = "images" /\ TeardownOrder[22] = "swapchains"
  /\ TeardownOrder[23] = "memories"
  BY DEF TeardownOrder

\* What never stands in the list: what goes with something else, and surfaces.
Elsewhere == {"devices", "queues", "command_buffers", "descriptor_sets", "surfaces"}

LEMMA OrderKinds ==
  /\ \A i \in 1 .. 23 : TeardownOrder[i] \in (Kinds \ Elsewhere) \cup {"borrowed"}
  /\ \A k \in Kinds \ Elsewhere : \E i \in 1 .. 23 : TeardownOrder[i] = k
  /\ \A i \in 1 .. 23 : TeardownOrder[i] = "images" => i = 21
  /\ \A i \in 1 .. 23 : TeardownOrder[i] = "swapchains" => i = 22
  /\ "borrowed" \notin Kinds
<1>1. \A i \in 1 .. 23 : TeardownOrder[i] \in (Kinds \ Elsewhere) \cup {"borrowed"}
  BY OrderIndex, OrderLines DEF Kinds, PlainKinds, RegisteredKinds, Elsewhere
<1>2. \A k \in Kinds \ Elsewhere : \E i \in 1 .. 23 : TeardownOrder[i] = k
  BY OrderLines DEF Kinds, PlainKinds, RegisteredKinds, Elsewhere
<1>3. \A i \in 1 .. 23 : TeardownOrder[i] = "images" => i = 21
  BY OrderIndex, OrderLines
<1>4. \A i \in 1 .. 23 : TeardownOrder[i] = "swapchains" => i = 22
  BY OrderIndex, OrderLines
<1>5. "borrowed" \notin Kinds
  BY DEF Kinds, PlainKinds, RegisteredKinds
<1>6. QED
  BY <1>1, <1>2, <1>3, <1>4, <1>5

\* What refers to an object stands before it.
LEMMA OrderRefs ==
  ASSUME NEW i \in 1 .. 23, NEW x, TeardownOrder[i] \in Refers(x)
  PROVE  x # "images" /\ \E j \in 1 .. 23 : j < i /\ TeardownOrder[j] = x
<1>1. PICK k : k = TeardownOrder[i]
  OBVIOUS
<1>2. \/ x = "framebuffers" /\ k \in {"image_views", "render_passes"}
      \/ x = "image_views" /\ k = "images"
      \/ x = "buffer_views" /\ k = "buffers"
      \/ x = "pipelines" /\ k = "pipeline_layouts"
      \/ x = "pipeline_layouts" /\ k = "descriptor_set_layouts"
      \/ x = "descriptor_update_templates" /\ k = "descriptor_set_layouts"
      \/ x = "samplers" /\ k = "sampler_ycbcr_conversions"
      \/ x = "swapchains" /\ k = "surfaces"
  BY <1>1 DEF Refers
<1>3. CASE x = "framebuffers" /\ k \in {"image_views", "render_passes"}
  BY <1>1, <1>3, OrderIndex, OrderLines
<1>4. CASE x = "image_views" /\ k = "images"
  <2>1. i = 21
    BY <1>1, <1>4, OrderIndex, OrderLines
  <2>2. 5 \in 1 .. 23 /\ 5 < i /\ TeardownOrder[5] = x
    BY <1>4, <2>1, OrderLines
  <2>3. QED
    BY <1>4, <2>2
<1>5. CASE x = "buffer_views" /\ k = "buffers"
  <2>1. i = 19
    BY <1>1, <1>5, OrderIndex, OrderLines
  <2>2. 6 \in 1 .. 23 /\ 6 < i /\ TeardownOrder[6] = x
    BY <1>5, <2>1, OrderLines
  <2>3. QED
    BY <1>5, <2>2
<1>6. CASE x = "pipelines" /\ k = "pipeline_layouts"
  <2>1. i = 9
    BY <1>1, <1>6, OrderIndex, OrderLines
  <2>2. 2 \in 1 .. 23 /\ 2 < i /\ TeardownOrder[2] = x
    BY <1>6, <2>1, OrderLines
  <2>3. QED
    BY <1>6, <2>2
<1>7. CASE x = "pipeline_layouts" /\ k = "descriptor_set_layouts"
  <2>1. i = 10
    BY <1>1, <1>7, OrderIndex, OrderLines
  <2>2. 9 \in 1 .. 23 /\ 9 < i /\ TeardownOrder[9] = x
    BY <1>7, <2>1, OrderLines
  <2>3. QED
    BY <1>7, <2>2
<1>8. CASE x = "descriptor_update_templates" /\ k = "descriptor_set_layouts"
  <2>1. i = 10
    BY <1>1, <1>8, OrderIndex, OrderLines
  <2>2. 4 \in 1 .. 23 /\ 4 < i /\ TeardownOrder[4] = x
    BY <1>8, <2>1, OrderLines
  <2>3. QED
    BY <1>8, <2>2
<1>9. CASE x = "samplers" /\ k = "sampler_ycbcr_conversions"
  <2>1. i = 17
    BY <1>1, <1>9, OrderIndex, OrderLines
  <2>2. 7 \in 1 .. 23 /\ 7 < i /\ TeardownOrder[7] = x
    BY <1>9, <2>1, OrderLines
  <2>3. QED
    BY <1>9, <2>2
<1>10. CASE x = "swapchains" /\ k = "surfaces"
  BY <1>1, <1>10, OrderKinds DEF Elsewhere
<1>11. QED
  BY <1>2, <1>3, <1>4, <1>5, <1>6, <1>7, <1>8, <1>9, <1>10

\* The device in a teardown, by its name and by its handle.
LEMMA TeardownDevice ==
  ASSUME StateType, ObjectInv, doing.h # Null
  PROVE  /\ doing.id # Null /\ DeviceIs(doing.id, doing.h) /\ doing.at # "ended"
         /\ \A e : DeviceIs(doing.id, e) => e = doing.h
         /\ \A e : DeviceIs(e, doing.h) => e = doing.id
<1>1. doing.id # Null /\ DeviceIs(doing.id, doing.h) /\ doing.at # "ended"
  BY DEF ObjectInv, DoingInv, StateType
<1>2. \A e : DeviceIs(doing.id, e) => e = doing.h
  BY <1>1 DEF DeviceIs, ObjectInv, UniqueInv
<1>3. \A e : DeviceIs(e, doing.h) => e = doing.id
  BY <1>1 DEF DeviceIs, ObjectInv, UniqueInv
<1>4. QED
  BY <1>1, <1>2, <1>3

\* A name under this device has its object, and the object is the device's.
LEMMA OwnedObject ==
  ASSUME StateType, ObjectInv, doing.h # Null, NEW k \in Kinds \ Elsewhere, NEW i \in AllIds(k),
         OwnedBy(tables, k, i, doing.h)
  PROVE  \E o \in live : /\ o.kind = k /\ o.id = i /\ o.h = tables[k][i].h
                         /\ o.h = Get(tables, k, i) /\ o.dev = doing.id /\ o.id # Null
<1>1. /\ tables[k][i].h = Get(tables, k, i) /\ tables[k][i].h # Null
      /\ tables[k][i].owner = doing.h
  BY DEF OwnedBy, Get, Owner, AllIds
<1>2. ~ Loose(k, i)
  BY DEF Loose, Elsewhere
<1>3. PICK o \in live : /\ o.kind = k /\ o.id = i /\ o.h = tables[k][i].h
                        /\ OwnerIs(o, tables[k][i].owner)
  BY <1>1, <1>2 DEF ObjectInv, NameInv, Elsewhere
<1>4. DeviceIs(o.dev, doing.h)
  BY <1>1, <1>3 DEF OwnerIs, Elsewhere
<1>5. o.dev = doing.id
  BY <1>4, TeardownDevice
<1>6. i # Null
  BY SlotFacts, Consts
<1>7. QED
  BY <1>1, <1>3, <1>5, <1>6

\* An object of this device has its name under it, but for a swapchain's images.
LEMMA ObjectOwned ==
  ASSUME StateType, ObjectInv, doing.h # Null, NEW o \in live, o.dev = doing.id,
         o.id # Null, o.kind # "queues", o.kind = "images" => o.parent = <<>>
  PROVE  /\ o.kind \in Kinds /\ o.id \in AllIds(o.kind) /\ OwnedBy(tables, o.kind, o.id, doing.h)
         /\ tables[o.kind][o.id].h = o.h /\ tables[o.kind][o.id].owner = doing.h
         /\ Get(tables, o.kind, o.id) = o.h /\ Owner(tables, o.kind, o.id) = doing.h
         /\ o.kind \notin {"devices", "surfaces"}
<1>1. o.kind \in Kinds /\ o.id \in AllIds(o.kind)
  BY NameInTable
<1>2. doing.id # Null
  BY TeardownDevice
<1>3. o.kind \notin {"devices", "surfaces"}
  BY <1>2 DEF ObjectInv, ShapeInv, HasDevice
<1>4. ~ Excused(o)
  BY <1>3 DEF Excused
<1>5. tables[o.kind][o.id].h = o.h /\ OwnerIs(o, tables[o.kind][o.id].owner)
  BY <1>4 DEF ObjectInv, NamedInv
<1>6. DeviceIs(doing.id, tables[o.kind][o.id].owner)
  BY <1>3, <1>5 DEF OwnerIs
<1>7. tables[o.kind][o.id].owner = doing.h
  BY <1>6, TeardownDevice
<1>8. o.h # Null
  BY Consts DEF StateType, IsObject
<1>9. /\ Get(tables, o.kind, o.id) = o.h /\ Owner(tables, o.kind, o.id) = doing.h
  BY <1>1, <1>5, <1>7 DEF Get, Owner, AllIds
<1>10. QED
  BY <1>1, <1>3, <1>5, <1>7, <1>8, <1>9 DEF OwnedBy

\* An object has the device of its parent.
LEMMA ParentDevice ==
  ASSUME ObjectInv, NEW o \in live, NEW p \in live, p.id # Null, o.parent = <<p.kind, p.id>>,
         p.kind # "devices"
  PROVE  p.dev = o.dev /\ <<o.kind, p.kind>> \in Parentage
<1>1. o.parent # <<>>
  BY Pairs
<1>2. PICK q \in live : /\ o.parent = <<q.kind, q.id>> /\ <<o.kind, q.kind>> \in Parentage
                        /\ IF o.kind = "queues" THEN q.id = o.dev ELSE q.dev = o.dev
  BY <1>1 DEF ObjectInv, ShapeInv, HasParent
<1>3. q.kind = p.kind /\ q.id = p.id
  BY <1>2, Pairs
<1>4. q = p
  BY <1>3 DEF ObjectInv, UniqueInv
<1>5. QED
  BY <1>2, <1>4, ParentageFacts

\* A line that comes before the next one with something to do has nothing to do.
LEMMA NextLine ==
  ASSUME Pending # {}
  PROVE  /\ Min(Pending) \in 1 .. 23 /\ Min(Pending) \in Pending
         /\ \A i \in 1 .. 23 : i < Min(Pending) => ToDestroy(TeardownOrder[i]) = {}
<1>1. Pending \in SUBSET Nat /\ Pending \subseteq 1 .. 23
  BY OrderLines DEF Pending
<1>2. PICK m : m = Min(Pending)
  OBVIOUS
<1>3. m \in Pending /\ \A i \in Pending : m <= i
  BY <1>1, <1>2, LeastOf
<1>4. \A i \in 1 .. 23 : i < m => i \notin Pending
  BY <1>1, <1>3
<1>5. QED
  BY <1>1, <1>2, <1>3, <1>4, OrderLines DEF Pending

\* The names of the images of this device's swapchains, once the line for them is
\* done: they resolve to nothing.
LEMMA BorrowedDone ==
  ASSUME StateType, ObjectInv, ImageInv, doing.h # Null, ToDestroy("borrowed") = {},
         NEW o \in live, o.kind = "images", o.id # Null, o.parent # <<>>, o.dev = doing.id
  PROVE  tables["images"][o.id].h = Null /\ tables["images"][o.id].owner = Null
<1>1. PICK p \in live : /\ o.parent = <<p.kind, p.id>> /\ <<o.kind, p.kind>> \in Parentage
                        /\ p.dev = o.dev
  BY DEF ObjectInv, ShapeInv, HasParent
<1>2. p.kind = "swapchains" /\ o.parent[2] = p.id
  BY <1>1, ParentageFacts, Pairs
<1>3. p.id # Null
  BY <1>2 DEF ObjectInv, ShapeInv, HasName
<1>4. Owner(tables, "swapchains", p.id) = doing.h
  BY <1>1, <1>2, <1>3, ObjectOwned
<1>5. o.id \in ImageIdsOf(p.id)
  BY <1>2 DEF ImageInv
<1>6. p.id \in DOMAIN swapchain_image_ids
  BY <1>5 DEF ImageIdsOf
<1>7. o.id \in UNION {ImageIdsOf(s) : s \in {x \in DOMAIN swapchain_image_ids :
                                               Owner(tables, "swapchains", x) = doing.h}}
  BY <1>4, <1>5, <1>6
<1>8. tables["images"][o.id].owner = Null
  BY <1>7 DEF ToDestroy
<1>9. ASSUME tables["images"][o.id].h # Null PROVE FALSE
  <2>1. o.id \in AllIds("images")
    BY NameInTable
  <2>2. ~ Loose("images", o.id)
    BY DEF Loose
  <2>3. PICK q \in live : q.kind = "images" /\ OwnerIs(q, tables["images"][o.id].owner)
    BY <1>9, <2>1, <2>2, KindFacts DEF ObjectInv, NameInv
  <2>4. DeviceIs(q.dev, Null)
    BY <1>8, <2>3 DEF OwnerIs
  <2>5. QED
    BY <2>4, Consts DEF DeviceIs, StateType, IsObject
<1>10. QED
  BY <1>8, <1>9

\* What a line of destroy_device_objects destroys.
Destroys(k, ids, hs, gone) ==
  /\ doing.h # Null /\ k \in Kinds \ Elsewhere
  /\ ids = {id \in AllIds(k) : OwnedBy(tables, k, id, doing.h)}
  /\ hs = {Get(tables, k, id) : id \in ids}
  /\ gone = {o \in Objects(k) : o.h \in hs}

LEMMA DestroyedObjects ==
  ASSUME StateType, ObjectInv, NEW k, NEW ids, NEW hs, NEW gone, Destroys(k, ids, hs, gone)
  PROVE  /\ \A o \in gone : /\ o \in live /\ o.kind = k /\ o.id \in ids /\ o.id # Null
                            /\ o.dev = doing.id
         /\ \A i \in ids : \E o \in gone : o.id = i /\ o.h = Get(tables, k, i)
         /\ hs = {o.h : o \in gone}
<1>0. /\ doing.h # Null /\ k \in Kinds \ Elsewhere
      /\ ids = {id \in AllIds(k) : OwnedBy(tables, k, id, doing.h)}
      /\ hs = {Get(tables, k, id) : id \in ids}
      /\ gone = {o \in Objects(k) : o.h \in hs}
  BY DEF Destroys
<1>1. ASSUME NEW i \in ids
      PROVE  \E o \in gone : /\ o \in live /\ o.kind = k /\ o.id = i /\ o.h = Get(tables, k, i)
                             /\ o.dev = doing.id /\ o.id # Null
  <2>1. PICK o \in live : /\ o.kind = k /\ o.id = i /\ o.h = Get(tables, k, i)
                          /\ o.dev = doing.id /\ o.id # Null
    BY <1>0, OwnedObject
  <2>2. o \in gone
    BY <1>0, <2>1 DEF Objects
  <2>3. QED
    BY <2>1, <2>2
<1>2. ASSUME NEW o \in gone
      PROVE  o \in live /\ o.kind = k /\ o.id \in ids /\ o.id # Null /\ o.dev = doing.id
  <2>1. o \in live /\ o.kind = k /\ o.h \in hs
    BY <1>0 DEF Objects
  <2>2. PICK i \in ids : o.h = Get(tables, k, i)
    BY <1>0, <2>1
  <2>3. PICK p \in live : /\ p.kind = k /\ p.id = i /\ p.h = Get(tables, k, i)
                          /\ p.dev = doing.id /\ p.id # Null
    BY <1>1
  <2>4. p = o
    BY <2>1, <2>2, <2>3 DEF ObjectInv, UniqueInv
  <2>5. QED
    BY <2>1, <2>3, <2>4
<1>3. hs = {o.h : o \in gone}
  <2>1. \A e \in hs : \E o \in gone : o.h = e
    BY <1>0, <1>1
  <2>2. \A o \in gone : o.h \in hs
    BY <1>0
  <2>3. QED
    BY <2>1, <2>2
<1>4. QED
  BY <1>1, <1>2, <1>3

\* Nothing is wrong with what a line destroys: it is there and the device's own, it
\* is no swapchain's image, and what refers to it went before.
LEMMA NothingWrong ==
  ASSUME StateType, ObjectInv, ImageInv, NEW m \in 1 .. 23, NEW ids, NEW hs, NEW gone,
         Destroys(TeardownOrder[m], ids, hs, gone),
         \A i \in 1 .. 23 : i < m => ToDestroy(TeardownOrder[i]) = {}
  PROVE  /\ Wrong(TeardownOrder[m], hs) = {}
         /\ TeardownOrder[m] = "images" => \A o \in gone : o.parent = <<>>
<1>1. PICK k : k = TeardownOrder[m]
  OBVIOUS
<1>2. /\ doing.h # Null /\ k \in Kinds \ Elsewhere
      /\ ids = {id \in AllIds(k) : OwnedBy(tables, k, id, doing.h)}
      /\ gone = {o \in Objects(k) : o.h \in hs}
  BY <1>1 DEF Destroys
<1>3. /\ \A o \in gone : /\ o \in live /\ o.kind = k /\ o.id \in ids /\ o.id # Null
                         /\ o.dev = doing.id
      /\ hs = {o.h : o \in gone}
  BY <1>1, DestroyedObjects
<1>4. ASSUME k = "images", NEW o \in gone, o.parent # <<>> PROVE FALSE
  <2>1. m = 21
    BY <1>1, <1>4, OrderKinds
  <2>2. ToDestroy("borrowed") = {}
    BY <2>1, OrderLines
  <2>3. tables["images"][o.id].h = Null
    BY <1>2, <1>3, <1>4, <2>2, BorrowedDone
  <2>4. o.id \in AllIds("images") /\ Get(tables, "images", o.id) # Null
    BY <1>2, <1>3, <1>4 DEF OwnedBy
  <2>5. QED
    BY <2>3, <2>4 DEF Get, AllIds
<1>5. ASSUME NEW o \in live, NEW g \in gone, <<g.kind, g.id>> \in o.refs PROVE FALSE
  <2>1. PICK x \in Refers(o.kind) : \E i \in AllIds(x) :
          /\ <<g.kind, g.id>> = <<x, i>>
          /\ \A p \in live : p.kind = x /\ p.id = i => p.dev = o.dev \/ x = "surfaces"
    BY <1>5 DEF ObjectInv, ShapeInv, HasRefs
  <2>2. PICK i \in AllIds(x) :
          /\ <<g.kind, g.id>> = <<x, i>>
          /\ \A p \in live : p.kind = x /\ p.id = i => p.dev = o.dev \/ x = "surfaces"
    BY <2>1
  <2>3. g.kind = x /\ g.id = i /\ g \in live /\ g.dev = doing.id /\ x = k
    BY <1>3, <2>2, Pairs
  <2>4. k # "surfaces"
    BY <1>2 DEF Elsewhere
  <2>5. o.dev = doing.id
    BY <2>2, <2>3, <2>4
  <2>6. o.kind # "images" /\ \E j \in 1 .. 23 : j < m /\ TeardownOrder[j] = o.kind
    BY <1>1, <2>3, OrderRefs
  <2>7. PICK j \in 1 .. 23 : j < m /\ TeardownOrder[j] = o.kind
    BY <2>6
  <2>8. o.kind \in Kinds /\ o.kind \notin Elsewhere
    <3>1. o.kind \in Kinds
      BY DEF StateType, IsObject
    <3>2. o.kind \in (Kinds \ Elsewhere) \cup {"borrowed"} /\ "borrowed" \notin Kinds
      BY <2>7, OrderKinds
    <3>3. QED
      BY <3>1, <3>2
  <2>9. o.id # Null
    BY <2>6 DEF ObjectInv, ShapeInv, HasName
  <2>10. o.id \in AllIds(o.kind) /\ OwnedBy(tables, o.kind, o.id, doing.h)
    BY <1>2, <2>5, <2>6, <2>8, <2>9, ObjectOwned DEF Elsewhere
  <2>11. o.id \in ToDestroy(o.kind)
    BY <2>8, <2>10, OrderKinds DEF ToDestroy
  <2>12. QED
    BY <2>7, <2>11
<1>6. Wrong(k, hs) = {}
  <2>1. ~ (hs # {o.h : o \in gone} \/ \E o \in gone : o.dev # doing.id)
    BY <1>3
  <2>2. ~ (k = "images" /\ \E o \in gone : o.parent # <<>>)
    BY <1>4
  <2>3. \A L : L \subseteq live => ~ \E o \in L, g \in gone : <<g.kind, g.id>> \in o.refs
    BY <1>5
  <2>4. live \ WithChildren(gone) \subseteq live
    OBVIOUS
  <2>5. QED
    BY <1>2, <2>1, <2>2, <2>3, <2>4 DEF Wrong
<1>7. QED
  BY <1>1, <1>4, <1>6

\* The registered maps forget nothing before the end of a teardown.
LEMMA RegShrinks ==
  ASSUME RegType, RegInv, registered' = registered, doing' = doing, doing.h # Null, Taken,
         \A k \in RegisteredKinds : \A i \in AllIds(k) :
           tables'[k][i] = tables[k][i] \/ tables[k][i].owner = doing.h
  PROVE  RegInv'
<1>1. SUFFICES ASSUME NEW k \in RegisteredKinds
               PROVE  /\ \A i \in AllIds(k)' : tables'[k][i].h # Null =>
                           /\ i \in DOMAIN registered[k]
                           /\ registered[k][i] = [owner |-> tables'[k][i].owner, h |-> tables'[k][i].h]
                      /\ \A i \in DOMAIN registered[k] :
                           tables'[k][i].h # Null \/ registered[k][i].owner = doing.h
  BY DEF RegInv
<1>2. k \in Kinds /\ AllIds(k)' = AllIds(k) /\ DOMAIN registered[k] \subseteq AllIds(k)
  BY TakenIds, KindFacts DEF RegType
<1>3. ASSUME NEW i \in AllIds(k), tables'[k][i].h # Null
      PROVE  /\ i \in DOMAIN registered[k]
             /\ registered[k][i] = [owner |-> tables'[k][i].owner, h |-> tables'[k][i].h]
  <2>1. tables'[k][i] = tables[k][i]
    BY <1>2, <1>3 DEF Taken, Gone
  <2>2. QED
    BY <1>3, <2>1 DEF RegInv
<1>4. ASSUME NEW i \in DOMAIN registered[k]
      PROVE  tables'[k][i].h # Null \/ registered[k][i].owner = doing.h
  <2>1. CASE tables[k][i].h = Null
    BY <1>4, <2>1 DEF RegInv
  <2>2. CASE tables[k][i].h # Null
    <3>1. registered[k][i] = [owner |-> tables[k][i].owner, h |-> tables[k][i].h]
      BY <1>2, <1>4, <2>2 DEF RegInv
    <3>2. registered[k][i].owner = tables[k][i].owner
      BY <3>1
    <3>3. QED
      BY <1>2, <1>4, <2>2, <3>2
  <2>3. QED
    BY <2>1, <2>2
<1>5. QED
  BY <1>2, <1>3, <1>4

\* The line that retires the names of swapchain images.
LEMMA BorrowedStep ==
  ASSUME ObjectsInv, doing.h # Null, tables' = Take(tables, "images", ToDestroy("borrowed")),
         live' = live, faults' = faults, UNCHANGED maps, doing' = doing, orphaned' = orphaned
  PROVE  ObjectsInv'
<1>1. TypeInv /\ StateType /\ ObjectInv /\ MapInv /\ faults = {} /\ doing.at # "ended"
  BY DEF ObjectsInv, TypeInv, StateType
<1>2. /\ RegType /\ SetType /\ ChainType /\ DOMAIN command_buffer_devices \subseteq Handles
      /\ RegInv /\ SetInv /\ BufferInv /\ ChainInv /\ ImageInv
  BY <1>1 DEF TypeInv, MapInv
<1>3. /\ registered' = registered /\ descriptor_set_owners' = descriptor_set_owners
      /\ command_buffer_devices' = command_buffer_devices
      /\ UNCHANGED <<swapchain_devices, swapchain_surfaces>> /\ swapchain_devices' = swapchain_devices
      /\ swapchain_image_ids' = swapchain_image_ids
  BY DEF maps
<1>4. PICK ids : ids = ToDestroy("borrowed")
  OBVIOUS
<1>5. Took(tables', tables, "images", ids)
  BY <1>1, <1>4, TakeFacts, KindFacts DEF StateType
<1>6. TakenFrom(tables', tables)
  BY <1>1, <1>5, TookTaken, KindFacts DEF StateType
<1>7. StateType' /\ Taken /\ \A k \in Kinds : AllIds(k) \subseteq AllIds(k)'
  <2>1. orphaned' \subseteq AllIds("command_buffers")
    BY <1>1 DEF StateType
  <2>2. doing' \in [at : {"serving", "ending", "ended"}, h : Handles \cup {Null},
                    id : 0 .. Len(tables["devices"])]
    BY <1>1 DEF StateType
  <2>3. (doing'.h = Null => doing'.id = Null) /\ (doing'.at = "ended" => doing'.h = Null)
    BY <1>1 DEF StateType
  <2>4. QED
    BY <1>1, <1>6, <2>1, <2>2, <2>3, TakenType
<1>8. \A k \in Kinds : k # "images" => tables'[k] = tables[k]
  BY <1>5 DEF Took
\* An image that loses its name is excused for it.
<1>9. ASSUME NEW o \in live, o.kind = "images", o.id \in ids
      PROVE  Excused(o)
  <2>1. PICK s \in DOMAIN swapchain_image_ids :
          Owner(tables, "swapchains", s) = doing.h /\ o.id \in ImageIdsOf(s)
    BY <1>4, <1>9 DEF ToDestroy
  <2>2. o.parent = <<"swapchains", s>> /\ o.parent # <<>>
    BY <1>2, <1>9, <2>1, Pairs DEF ImageInv
  <2>3. PICK p \in live : o.parent = <<p.kind, p.id>> /\ p.dev = o.dev
    BY <1>1, <1>9, <2>2 DEF ObjectInv, ShapeInv, HasParent
  <2>4. p.kind = "swapchains" /\ p.id = s
    BY <2>2, <2>3, Pairs
  <2>5. p.id # Null /\ ~ Excused(p)
    BY <1>1, <2>4 DEF ObjectInv, ShapeInv, HasName, Excused
  <2>6. OwnerIs(p, tables["swapchains"][s].owner)
    BY <1>1, <2>4, <2>5 DEF ObjectInv, NamedInv
  <2>7. tables["swapchains"][s].owner = doing.h
    BY <2>1 DEF Owner
  <2>8. DeviceIs(p.dev, doing.h)
    BY <2>4, <2>6, <2>7 DEF OwnerIs
  <2>9. o.dev = doing.id
    BY <1>1, <2>3, <2>8, TeardownDevice
  <2>10. QED
    BY <1>9, <2>2, <2>9 DEF Excused
<1>10. Shrinks
  <2>1. Closed
    BY DEF Closed
  <2>2. NamesKept
    <3>1. \A k \in Kinds \ {"queues"} : \A i \in AllIds(k) : Loose(k, i) => Loose(k, i)'
      BY <1>8, KindFacts DEF Loose
    <3>2. QED
      BY <3>1 DEF NamesKept
  <2>3. ObjectsKept
    <3>1. ASSUME NEW o \in live, o.kind # "queues", o.id # Null, ~ Excused(o)'
          PROVE  tables'[o.kind][o.id] = tables[o.kind][o.id] /\ ~ Excused(o)
      <4>1. o.kind \in Kinds /\ o.id \in AllIds(o.kind)
        BY <1>1, <3>1, NameInTable
      <4>2. ~ Excused(o)
        BY <3>1 DEF Excused
      <4>3. o.kind # "images" \/ o.id \notin ids
        BY <1>9, <4>2
      <4>4. QED
        BY <1>5, <4>1, <4>2, <4>3 DEF Took, AllIds, Ids
    <3>2. QED
      BY <3>1 DEF ObjectsKept
  <2>4. DoingInv'
    BY <1>1, <1>8, KindFacts DEF ObjectInv, DoingInv, DeviceIs
  <2>5. QED
    BY <1>7, <2>1, <2>2, <2>3, <2>4 DEF Shrinks
<1>11. ObjectInv'
  BY <1>1, <1>10, ShrinksKeeps
<1>12. TypeInv'
  BY <1>2, <1>3, <1>7, MapTypes DEF TypeInv
<1>13. RegInv'
  <2>1. \A y \in RegisteredKinds : tables'[y] = tables[y]
    BY <1>8, KindFacts DEF RegisteredKinds
  <2>2. QED
    BY <1>2, <1>3, <2>1, RegKept
<1>14. SetInv' /\ BufferInv' /\ ChainInv' /\ ImageInv'
  BY <1>2, <1>3, <1>7, <1>10, SetShrinks, BufferShrinks, ChainShrinks, ImageShrinks DEF Shrinks
<1>15. QED
  BY <1>1, <1>11, <1>12, <1>13, <1>14, ServingStep DEF MapInv

\* A DESTROY_OWNED line.
LEMMA OwnedStep ==
  ASSUME ObjectsInv, NEW m \in 1 .. 23, NEW ids, NEW hs, NEW gone,
         Destroys(TeardownOrder[m], ids, hs, gone),
         \A i \in 1 .. 23 : i < m => ToDestroy(TeardownOrder[i]) = {},
         tables' = Take(tables, TeardownOrder[m], ids),
         live' = live \ WithChildren(gone),
         faults' = faults \cup Wrong(TeardownOrder[m], hs),
         UNCHANGED maps, doing' = doing, orphaned' = orphaned
  PROVE  ObjectsInv'
<1>1. PICK k : k = TeardownOrder[m]
  OBVIOUS
<1>2. /\ doing.h # Null /\ k \in Kinds \ Elsewhere
      /\ ids = {id \in AllIds(k) : OwnedBy(tables, k, id, doing.h)}
  BY <1>1 DEF Destroys
<1>3. TypeInv /\ StateType /\ ObjectInv /\ MapInv /\ faults = {} /\ doing.at # "ended"
  BY <1>2 DEF ObjectsInv, TypeInv, StateType
<1>4. /\ RegType /\ SetType /\ ChainType /\ DOMAIN command_buffer_devices \subseteq Handles
      /\ RegInv /\ SetInv /\ BufferInv /\ ChainInv /\ ImageInv
  BY <1>3 DEF TypeInv, MapInv
<1>5. /\ registered' = registered /\ descriptor_set_owners' = descriptor_set_owners
      /\ command_buffer_devices' = command_buffer_devices
      /\ UNCHANGED <<swapchain_devices, swapchain_surfaces>> /\ swapchain_devices' = swapchain_devices
      /\ swapchain_image_ids' = swapchain_image_ids
  BY DEF maps
<1>6. /\ \A o \in gone : /\ o \in live /\ o.kind = k /\ o.id \in ids /\ o.id # Null
                         /\ o.dev = doing.id
      /\ \A i \in ids : \E o \in gone : o.id = i
  BY <1>1, <1>3, DestroyedObjects
<1>7. /\ Wrong(k, hs) = {}
      /\ k = "images" => \A o \in gone : o.parent = <<>>
  BY <1>1, <1>3, <1>4, NothingWrong
<1>8. faults' = {}
  BY <1>1, <1>3, <1>7
<1>9. live' = live \ (gone \cup {o \in live : \E g \in gone : o.parent = <<g.kind, g.id>>})
  BY DEF WithChildren
<1>10. /\ live' \subseteq live
       /\ \A o \in live' : o \notin gone /\ \A g \in gone : o.parent # <<g.kind, g.id>>
       /\ \A o \in live \ live' : o \in gone \/ \E g \in gone : o.parent = <<g.kind, g.id>>
  BY <1>9
<1>11. Took(tables', tables, k, ids)
  BY <1>1, <1>2, <1>3, TakeFacts DEF StateType
<1>12. TakenFrom(tables', tables)
  BY <1>2, <1>3, <1>11, TookTaken DEF StateType
<1>13. StateType' /\ Taken /\ \A y \in Kinds : AllIds(y) \subseteq AllIds(y)'
  <2>1. orphaned' \subseteq AllIds("command_buffers")
    BY <1>3 DEF StateType
  <2>2. doing' \in [at : {"serving", "ending", "ended"}, h : Handles \cup {Null},
                    id : 0 .. Len(tables["devices"])]
    BY <1>3 DEF StateType
  <2>3. (doing'.h = Null => doing'.id = Null) /\ (doing'.at = "ended" => doing'.h = Null)
    BY <1>3 DEF StateType
  <2>4. QED
    BY <1>3, <1>10, <1>12, <2>1, <2>2, <2>3, TakenType
<1>14. /\ \A y \in Kinds : y # k => tables'[y] = tables[y]
       /\ \A i \in AllIds(k) : i \in ids => tables'[k][i].h = Null
       /\ \A i \in AllIds(k) : i \notin ids => tables'[k][i] = tables[k][i]
  BY <1>11 DEF Took, AllIds, Ids, Gone
\* What goes, and of which kinds it is.
<1>15. ASSUME NEW o \in live \ live'
       PROVE  /\ o.dev = doing.id
              /\ \/ o \in gone
                 \/ \E g \in gone :
                      /\ o.parent = <<g.kind, g.id>>
                      /\ \/ o.kind = "command_buffers" /\ k = "command_pools"
                         \/ o.kind = "descriptor_sets" /\ k = "descriptor_pools"
                         \/ o.kind = "images" /\ k = "swapchains"
  <2>1. CASE o \in gone
    BY <1>6, <2>1
  <2>2. CASE \E g \in gone : o.parent = <<g.kind, g.id>>
    <3>1. PICK g \in gone : o.parent = <<g.kind, g.id>>
      BY <2>2
    <3>2. g \in live /\ g.kind = k /\ g.id # Null /\ g.dev = doing.id /\ k # "devices"
      BY <1>2, <1>6 DEF Elsewhere
    <3>3. g.dev = o.dev /\ <<o.kind, k>> \in Parentage
      BY <1>3, <3>1, <3>2, ParentDevice
    <3>4. QED
      BY <3>1, <3>2, <3>3, ParentageFacts
  <2>3. QED
    BY <1>10, <2>1, <2>2
<1>16. \A o \in live \ live' : o.kind \notin {"devices", "queues"}
  BY <1>2, <1>6, <1>15 DEF Elsewhere
<1>17. Closed
  <2>1. ASSUME NEW o \in live', NEW p \in live, o.parent = <<p.kind, p.id>>, p \notin live'
        PROVE  FALSE
    <3>1. <<o.kind, p.kind>> \in Parentage
      BY <1>3, <1>10, <2>1, ChildKinds
    <3>2. p \in gone
      BY <1>15, <2>1, <3>1, ParentageFacts
    <3>3. QED
      BY <1>10, <2>1, <3>2
  <2>2. QED
    BY <1>10, <1>16, <2>1 DEF Closed
<1>18. NamesKept
  <2>1. \A y \in Kinds \ {"queues"} : \A i \in AllIds(y) : Loose(y, i) => Loose(y, i)'
    BY <1>2, <1>14 DEF Loose, Elsewhere
  <2>2. ASSUME NEW o \in live \ live', o.id # Null, tables'[o.kind][o.id].h # Null
        PROVE  Loose(o.kind, o.id)'
    <3>1. CASE o \in gone
      BY <1>2, <1>6, <1>14, <2>2, <3>1
    <3>2. CASE o.kind \in {"command_buffers", "descriptor_sets"}
      <4>1. tables[o.kind][o.id].owner = doing.h
        BY <1>2, <1>3, <1>15, <2>2, <3>2, ObjectOwned
      <4>2. tables'[o.kind] = tables[o.kind]
        BY <1>2, <1>14, <3>2, KindFacts DEF Elsewhere
      <4>3. QED
        BY <1>2, <3>2, <4>1, <4>2 DEF Loose
    <3>3. CASE o.kind = "images" /\ k = "swapchains" /\ \E g \in gone : o.parent = <<g.kind, g.id>>
      <4>1. m = 22
        BY <1>1, <3>3, OrderKinds
      <4>2. ToDestroy("borrowed") = {}
        BY <4>1, OrderLines
      <4>3. o.parent # <<>> /\ o.dev = doing.id
        BY <1>15, <3>3, Pairs
      <4>4. tables["images"][o.id].h = Null
        BY <1>2, <1>3, <1>4, <2>2, <3>3, <4>2, <4>3, BorrowedDone
      <4>5. tables'["images"] = tables["images"]
        BY <1>14, <3>3, KindFacts
      <4>6. QED
        BY <2>2, <3>3, <4>4, <4>5
    <3>4. QED
      BY <1>15, <3>1, <3>2, <3>3
  <2>3. QED
    BY <1>16, <2>1, <2>2 DEF NamesKept
<1>19. ObjectsKept
  <2>1. ASSUME NEW o \in live', o.kind # "queues", o.id # Null, ~ Excused(o)'
        PROVE  tables'[o.kind][o.id] = tables[o.kind][o.id] /\ ~ Excused(o)
    <3>1. o \in live /\ o.kind \in Kinds /\ o.id \in AllIds(o.kind)
      BY <1>3, <1>10, <2>1, NameInTable
    <3>2. ~ Excused(o)
      BY <2>1 DEF Excused
    <3>3. ASSUME o.kind = k, o.id \in ids PROVE FALSE
      <4>1. PICK g \in gone : g.id = o.id
        BY <1>6, <3>3
      <4>2. g = o
        BY <1>3, <1>6, <2>1, <3>1, <3>3, <4>1 DEF ObjectInv, UniqueInv
      <4>3. QED
        BY <1>10, <4>1, <4>2
    <3>4. QED
      BY <1>14, <3>1, <3>2, <3>3
  <2>2. QED
    BY <2>1 DEF ObjectsKept
<1>20. DoingInv'
  <2>1. DeviceIs(doing.id, doing.h) /\ doing.id # Null /\ tables["devices"][doing.id].h = Null
    BY <1>2, <1>3 DEF ObjectInv, DoingInv
  <2>2. DeviceIs(doing.id, doing.h)'
    BY <1>16, <2>1 DEF DeviceIs
  <2>3. tables'["devices"] = tables["devices"]
    BY <1>2, <1>14, KindFacts DEF Elsewhere
  <2>4. QED
    BY <2>1, <2>2, <2>3 DEF DoingInv
<1>21. Shrinks
  BY <1>13, <1>17, <1>18, <1>19, <1>20 DEF Shrinks
<1>22. ObjectInv'
  BY <1>3, <1>21, ShrinksKeeps
<1>23. TypeInv'
  BY <1>4, <1>5, <1>13, MapTypes DEF TypeInv
<1>24. RegInv'
  <2>1. ASSUME NEW y \in RegisteredKinds, NEW i \in AllIds(y)
        PROVE  tables'[y][i] = tables[y][i] \/ tables[y][i].owner = doing.h
    <3>1. CASE y # k
      BY <1>14, <3>1, KindFacts
    <3>2. CASE y = k /\ i \in ids
      <4>1. OwnedBy(tables, k, i, doing.h)
        BY <1>2, <3>2
      <4>2. QED
        BY <2>1, <3>2, <4>1 DEF OwnedBy, Owner, AllIds
    <3>3. QED
      BY <1>14, <3>1, <3>2
  <2>2. QED
    BY <1>2, <1>4, <1>5, <1>13, <2>1, RegShrinks
<1>25. SetInv'
  <2>1. ASSUME NEW o \in live \ live', o.kind = "descriptor_sets"
        PROVE  descriptor_set_owners[o.id].device = doing.h
    BY <1>2, <1>3, <1>4, <1>15, <2>1, TeardownDevice DEF SetInv
  <2>2. QED
    BY <1>2, <1>4, <1>5, <1>17, <2>1, SetShrinks
<1>26. BufferInv'
  BY <1>4, <1>5, <1>17, BufferShrinks
<1>27. ChainInv'
  <2>1. ASSUME NEW o \in live \ live', o.kind = "swapchains"
        PROVE  swapchain_devices[o.h] = doing.h
    BY <1>2, <1>3, <1>4, <1>15, <2>1, TeardownDevice DEF ChainInv
  <2>2. QED
    BY <1>2, <1>4, <1>5, <1>17, <2>1, ChainShrinks
<1>28. ImageInv'
  <2>1. ASSUME NEW o \in live \ live', NEW c \in live', o.kind = "images", c.kind = "swapchains",
               o.parent = <<"swapchains", c.id>>
        PROVE  FALSE
    <3>1. o.parent # <<>>
      BY <2>1, Pairs
    <3>2. o \notin gone
      BY <1>6, <1>7, <2>1, <3>1
    <3>3. PICK g \in gone : o.parent = <<g.kind, g.id>>
      BY <1>10, <3>2
    <3>4. g.kind = "swapchains" /\ g.id = c.id /\ g \in live /\ g.id # Null
      BY <1>6, <2>1, <3>3, Pairs
    <3>5. g = c
      BY <1>3, <1>10, <2>1, <3>4 DEF ObjectInv, UniqueInv
    <3>6. QED
      BY <1>10, <3>5
  <2>2. QED
    BY <1>4, <1>5, <1>13, <1>17, <2>1, ImageShrinks
<1>29. QED
  BY <1>3, <1>8, <1>22, <1>23, <1>24, <1>25, <1>26, <1>27, <1>28, ServingStep DEF MapInv

\* destroy_device_objects, line by line.
LEMMA DestroyOwnedStep ==
  ASSUME ObjectsInv, DestroyOwned
  PROVE  ObjectsInv'
<1>1. /\ doing.h # Null /\ Pending # {} /\ UNCHANGED maps /\ doing' = doing /\ orphaned' = orphaned
  BY DEF DestroyOwned
<1>2. PICK m : m = Min(Pending)
  OBVIOUS
<1>3. /\ m \in 1 .. 23
      /\ \A i \in 1 .. 23 : i < m => ToDestroy(TeardownOrder[i]) = {}
  BY <1>1, <1>2, NextLine
<1>4. PICK k, ids, hs : /\ k = TeardownOrder[m] /\ ids = ToDestroy(k)
                        /\ hs = {Get(tables, k, id) : id \in ids}
  OBVIOUS
<1>5. IF k = "borrowed"
      THEN tables' = Take(tables, "images", ids) /\ live' = live /\ faults' = faults
      ELSE /\ tables' = Take(tables, k, ids)
           /\ live' = live \ NativeDestroy(k, hs)
           /\ faults' = faults \cup Wrong(k, hs)
  BY <1>2, <1>4 DEF DestroyOwned
<1>6. CASE k = "borrowed"
  <2>1. tables' = Take(tables, "images", ToDestroy("borrowed")) /\ live' = live /\ faults' = faults
    BY <1>4, <1>5, <1>6
  <2>2. QED
    BY <1>1, <2>1, BorrowedStep
<1>7. CASE k # "borrowed"
  <2>1. PICK gone : gone = {o \in Objects(k) : o.h \in hs}
    OBVIOUS
  <2>2. ids = {id \in AllIds(k) : OwnedBy(tables, k, id, doing.h)}
    BY <1>4, <1>7 DEF ToDestroy
  <2>3. k \in Kinds \ Elsewhere
    BY <1>3, <1>4, <1>7, OrderKinds
  <2>4. Destroys(TeardownOrder[m], ids, hs, gone)
    BY <1>1, <1>4, <2>1, <2>2, <2>3 DEF Destroys
  <2>5. live' = live \ WithChildren(gone)
    BY <1>5, <1>7, <2>1 DEF NativeDestroy
  <2>6. tables' = Take(tables, TeardownOrder[m], ids) /\ faults' = faults \cup Wrong(TeardownOrder[m], hs)
    BY <1>4, <1>5, <1>7
  <2>7. QED
    BY <1>1, <1>3, <2>4, <2>5, <2>6, OwnedStep
<1>8. QED
  BY <1>6, <1>7

\* When no line has anything left to do, the device owns nothing but its queues.
LEMMA NothingOwned ==
  ASSUME StateType, Pending = {}, NEW k \in Kinds \ Elsewhere, NEW i \in AllIds(k)
  PROVE  ~ OwnedBy(tables, k, i, doing.h)
<1>1. PICK j \in 1 .. 23 : TeardownOrder[j] = k
  BY OrderKinds
<1>2. ToDestroy(k) = {}
  BY <1>1, OrderLines DEF Pending
<1>3. k # "borrowed"
  BY OrderKinds
<1>4. QED
  BY <1>2, <1>3 DEF ToDestroy

LEMMA OnlyQueues ==
  ASSUME StateType, ObjectInv, doing.h # Null, Pending = {}, NEW o \in live, o.dev = doing.id
  PROVE  o.kind = "queues"
<1>1. ASSUME NEW x \in live, x.dev = doing.id, x.kind \in Kinds \ Elsewhere, x.id # Null,
             x.kind = "images" => x.parent = <<>>
      PROVE  FALSE
  <2>1. x.id \in AllIds(x.kind) /\ OwnedBy(tables, x.kind, x.id, doing.h)
    BY <1>1, ObjectOwned DEF Elsewhere
  <2>2. QED
    BY <1>1, <2>1, NothingOwned
<1>2. SUFFICES ASSUME o.kind # "queues" PROVE FALSE
  OBVIOUS
<1>3. o.kind \in Kinds /\ o.kind \notin {"devices", "surfaces"}
  BY TeardownDevice DEF StateType, IsObject, ObjectInv, ShapeInv, HasDevice
<1>4. CASE o.parent # <<>>
  <2>1. PICK p \in live : /\ o.parent = <<p.kind, p.id>> /\ <<o.kind, p.kind>> \in Parentage
                          /\ p.dev = o.dev
    BY <1>2, <1>4 DEF ObjectInv, ShapeInv, HasParent
  <2>2. p.kind \in {"command_pools", "descriptor_pools", "swapchains"}
    BY <1>2, <2>1, ParentageFacts
  <2>3. p.id # Null
    BY <2>2 DEF ObjectInv, ShapeInv, HasName
  <2>4. QED
    BY <1>1, <2>1, <2>2, <2>3, KindFacts DEF Elsewhere
<1>5. CASE o.parent = <<>>
  <2>1. o.kind \notin {"queues", "command_buffers", "descriptor_sets"}
    BY <1>5 DEF ObjectInv, ShapeInv, HasParent
  <2>2. o.id # Null
    BY <1>5 DEF ObjectInv, ShapeInv, HasName
  <2>3. QED
    BY <1>1, <1>3, <1>5, <2>1, <2>2 DEF Elsewhere
<1>6. QED
  BY <1>4, <1>5

\* retire_owned, of the three tables of what went with something else.
RetiredKinds == {"command_buffers", "descriptor_sets", "queues"}

Retired(u, h) ==
  /\ TakenFrom(u, tables)
  /\ \A k \in Kinds \ RetiredKinds : u[k] = tables[k]
  /\ \A k \in RetiredKinds : \A i \in AllIds(k) :
       u[k][i] = IF tables[k][i].owner = h THEN Gone ELSE tables[k][i]

RetiredOne(u, t, k, h) ==
  /\ TakenFrom(u, t)
  /\ \A y \in Kinds : y # k => u[y] = t[y]
  /\ \A i \in 1 .. Len(t[k]) : u[k][i] = IF t[k][i].owner = h THEN Gone ELSE t[k][i]

LEMMA RetireOne ==
  ASSUME NEW t \in [Kinds -> Seq(Slot)], NEW k \in Kinds, NEW h
  PROVE  RetiredOne(RetireOwned(t, k, h), t, k, h)
<1>1. PICK ids, u : ids = {i \in Ids(t, k) : t[k][i].owner = h} /\ u = RetireOwned(t, k, h)
  OBVIOUS
<1>2. u = Take(t, k, ids)
  BY <1>1 DEF RetireOwned
<1>3. Took(u, t, k, ids)
  BY <1>2, TakeFacts
<1>4. TakenFrom(u, t)
  BY <1>3, TookTaken
<1>5. QED
  BY <1>1, <1>3, <1>4 DEF RetiredOne, Took, Ids

LEMMA RetireThree ==
  ASSUME StateType, NEW h
  PROVE  Retired(RetireOwned(RetireOwned(RetireOwned(tables, "command_buffers", h),
                                         "descriptor_sets", h), "queues", h), h)
<1>1. PICK a : a = RetireOwned(tables, "command_buffers", h)
  OBVIOUS
<1>2. PICK b : b = RetireOwned(a, "descriptor_sets", h)
  OBVIOUS
<1>3. PICK c : c = RetireOwned(b, "queues", h)
  OBVIOUS
<1>4. /\ TakenFrom(a, tables) /\ \A y \in Kinds : y # "command_buffers" => a[y] = tables[y]
      /\ \A i \in 1 .. Len(tables["command_buffers"]) :
           a["command_buffers"][i] = IF tables["command_buffers"][i].owner = h THEN Gone
                                     ELSE tables["command_buffers"][i]
  <2>1. RetiredOne(a, tables, "command_buffers", h)
    BY <1>1, RetireOne, KindFacts DEF StateType
  <2>2. QED
    BY <2>1 DEF RetiredOne
<1>5. /\ TakenFrom(b, a) /\ \A y \in Kinds : y # "descriptor_sets" => b[y] = a[y]
      /\ \A i \in 1 .. Len(a["descriptor_sets"]) :
           b["descriptor_sets"][i] = IF a["descriptor_sets"][i].owner = h THEN Gone
                                     ELSE a["descriptor_sets"][i]
  <2>1. a \in [Kinds -> Seq(Slot)]
    BY <1>4 DEF TakenFrom
  <2>2. RetiredOne(b, a, "descriptor_sets", h)
    BY <1>2, <2>1, RetireOne, KindFacts
  <2>3. QED
    BY <2>2 DEF RetiredOne
<1>6. /\ TakenFrom(c, b) /\ \A y \in Kinds : y # "queues" => c[y] = b[y]
      /\ \A i \in 1 .. Len(b["queues"]) :
           c["queues"][i] = IF b["queues"][i].owner = h THEN Gone ELSE b["queues"][i]
  <2>1. b \in [Kinds -> Seq(Slot)]
    BY <1>5 DEF TakenFrom
  <2>2. RetiredOne(c, b, "queues", h)
    BY <1>3, <2>1, RetireOne, KindFacts
  <2>3. QED
    BY <2>2 DEF RetiredOne
<1>7. TakenFrom(c, tables)
  BY <1>4, <1>5, <1>6, TakenTwice
<1>8. \A k \in Kinds \ RetiredKinds : c[k] = tables[k]
  BY <1>4, <1>5, <1>6 DEF RetiredKinds
<1>9. ASSUME NEW k \in RetiredKinds, NEW i \in AllIds(k)
      PROVE  c[k][i] = IF tables[k][i].owner = h THEN Gone ELSE tables[k][i]
  <2>1. CASE k = "command_buffers"
    BY <1>4, <1>5, <1>6, <1>9, <2>1, KindFacts DEF AllIds, Ids
  <2>2. CASE k = "descriptor_sets"
    BY <1>4, <1>5, <1>6, <1>9, <2>2, KindFacts DEF AllIds, Ids
  <2>3. CASE k = "queues"
    BY <1>4, <1>5, <1>6, <1>9, <2>3, KindFacts DEF AllIds, Ids
  <2>4. QED
    BY <2>1, <2>2, <2>3 DEF RetiredKinds
<1>10. Retired(c, h)
  BY <1>7, <1>8, <1>9 DEF Retired
<1>11. QED
  BY <1>1, <1>2, <1>3, <1>10

\* The end of a device's teardown: objects and names.
LEMMA RetireShrinks ==
  ASSUME StateType, ObjectInv, doing.h # Null, Pending = {}, Retired(tables', doing.h),
         live' = {o \in live : ~ (o.kind = "devices" /\ o.id = doing.id) /\ o.dev # doing.id},
         doing'.h = Null, orphaned' = orphaned
  PROVE  Shrinks
<1>1. /\ TakenFrom(tables', tables)
      /\ \A k \in Kinds \ RetiredKinds : tables'[k] = tables[k]
      /\ \A k \in RetiredKinds : \A i \in AllIds(k) :
           tables'[k][i] = IF tables[k][i].owner = doing.h THEN Gone ELSE tables[k][i]
  BY DEF Retired
<1>2. Taken
  BY <1>1 DEF TakenFrom, Taken, AllIds, Ids
<1>3. doing.id # Null /\ DeviceIs(doing.id, doing.h)
  BY TeardownDevice
<1>4. Closed
  <2>1. ASSUME NEW p \in live, p.kind = "devices", p.id # doing.id PROVE p \in live'
    <3>1. p.dev = Null
      BY <2>1 DEF ObjectInv, ShapeInv, HasDevice
    <3>2. QED
      BY <1>3, <2>1, <3>1
  <2>2. ASSUME NEW o \in live', NEW p \in live, o.parent = <<p.kind, p.id>> PROVE p \in live'
    <3>1. o \in live /\ o.dev # doing.id
      OBVIOUS
    <3>2. <<o.kind, p.kind>> \in Parentage
      BY <2>2, <3>1, ChildKinds
    <3>3. CASE o.kind = "queues" /\ p.kind = "devices"
      <4>1. o.parent # <<>>
        BY <2>2, Pairs
      <4>2. PICK q \in live : o.parent = <<q.kind, q.id>> /\ q.id = o.dev
        BY <3>1, <3>3, <4>1 DEF ObjectInv, ShapeInv, HasParent
      <4>3. p.id = o.dev
        BY <2>2, <4>2, Pairs
      <4>4. QED
        BY <2>1, <3>1, <3>3, <4>3
    <3>4. CASE p.kind \in {"command_pools", "descriptor_pools", "swapchains"}
      <4>1. p.id # Null
        BY <3>4 DEF ObjectInv, ShapeInv, HasName
      <4>2. p.dev = o.dev
        BY <2>2, <3>1, <3>4, <4>1, ParentDevice
      <4>3. QED
        BY <3>1, <3>4, <4>2
    <3>5. QED
      BY <3>2, <3>3, <3>4, ParentageFacts
  <2>3. QED
    BY <2>1, <2>2 DEF Closed
<1>5. NamesKept
  <2>1. ASSUME NEW k \in Kinds \ {"queues"}, NEW i \in AllIds(k), tables'[k][i].h # Null, Loose(k, i)
        PROVE  Loose(k, i)'
    <3>1. CASE k = "command_buffers" /\ i \in orphaned
      BY <3>1 DEF Loose
    <3>2. CASE k \in {"command_buffers", "descriptor_sets"} /\ tables[k][i].owner = doing.h
      BY <1>1, <2>1, <3>2 DEF RetiredKinds, Gone
    <3>3. QED
      BY <2>1, <3>1, <3>2 DEF Loose
  <2>2. ASSUME NEW o \in live \ live', o.kind # "queues", tables'[o.kind][o.id].h # Null
        PROVE  FALSE
    <3>1. o.dev # doing.id
      BY <2>2, OnlyQueues
    <3>2. o.kind = "devices" /\ o.id = doing.id
      BY <3>1
    <3>3. tables'["devices"] = tables["devices"] /\ tables["devices"][doing.id].h = Null
      BY <1>1, KindFacts DEF RetiredKinds, ObjectInv, DoingInv
    <3>4. QED
      BY <2>2, <3>2, <3>3
  <2>3. ASSUME NEW i \in AllIds("queues"), NEW o \in live, tables'["queues"][i].h # Null,
               o.kind = "queues", o.h = tables'["queues"][i].h
        PROVE  o \in live'
    <3>1. tables["queues"][i].owner # doing.h /\ tables'["queues"][i] = tables["queues"][i]
      BY <1>1, <2>3 DEF RetiredKinds, Gone
    <3>2. PICK q \in live : /\ q.kind = "queues" /\ q.h = tables["queues"][i].h
                            /\ DeviceIs(q.dev, tables["queues"][i].owner)
      BY <2>3, <3>1 DEF ObjectInv, QueueInv
    <3>3. q = o
      BY <2>3, <3>1, <3>2 DEF ObjectInv, UniqueInv
    <3>4. o.dev # doing.id
      BY <3>1, <3>2, <3>3, TeardownDevice
    <3>5. QED
      BY <2>3, <3>4
  <2>4. QED
    BY <2>1, <2>2, <2>3 DEF NamesKept
<1>6. ObjectsKept
  <2>1. ASSUME NEW o \in live', o.kind # "queues", o.id # Null
        PROVE  tables'[o.kind][o.id] = tables[o.kind][o.id] /\ ~ Excused(o)
    <3>1. o \in live /\ o.dev # doing.id /\ ~ Excused(o)
      BY DEF Excused
    <3>2. o.kind \in Kinds /\ o.id \in AllIds(o.kind)
      BY <2>1, <3>1, NameInTable
    <3>3. CASE o.kind \notin RetiredKinds
      BY <1>1, <3>1, <3>2, <3>3
    <3>4. CASE o.kind \in RetiredKinds
      <4>1. OwnerIs(o, tables[o.kind][o.id].owner)
        BY <2>1, <3>1 DEF ObjectInv, NamedInv
      <4>2. DeviceIs(o.dev, tables[o.kind][o.id].owner)
        BY <3>4, <4>1 DEF OwnerIs, RetiredKinds
      <4>3. tables[o.kind][o.id].owner # doing.h
        BY <3>1, <4>2, TeardownDevice
      <4>4. QED
        BY <1>1, <3>1, <3>2, <3>4, <4>3
    <3>5. QED
      BY <3>3, <3>4
  <2>2. QED
    BY <2>1 DEF ObjectsKept
<1>7. DoingInv'
  BY DEF DoingInv
<1>8. QED
  BY <1>2, <1>4, <1>5, <1>6, <1>7 DEF Shrinks

\* Erasing what the device owned from the registered maps.
LEMMA RetireReg ==
  ASSUME StateType, RegType, RegInv, doing.h # Null, Pending = {}, doing'.h = Null,
         \A k \in RegisteredKinds : tables'[k] = tables[k],
         registered' = [k \in RegisteredKinds |->
           Erase(registered[k], {i \in DOMAIN registered[k] : registered[k][i].owner = doing.h})]
  PROVE  RegType' /\ RegInv'
<1>1. DOMAIN registered' = RegisteredKinds /\ IsFn(registered')
  BY DEF IsFn
<1>2. ASSUME NEW k \in RegisteredKinds
      PROVE  /\ DOMAIN registered'[k] = {i \in DOMAIN registered[k] : registered[k][i].owner # doing.h}
             /\ IsFn(registered'[k])
             /\ \A i \in DOMAIN registered'[k] : registered'[k][i] = registered[k][i]
             /\ DOMAIN registered[k] \subseteq AllIds(k) /\ AllIds(k)' = AllIds(k)
  <2>1. PICK f, g, S : /\ f = registered[k] /\ g = registered'[k]
                       /\ S = {i \in DOMAIN f : f[i].owner = doing.h}
    OBVIOUS
  <2>2. g = Erase(f, S)
    BY <2>1
  <2>3. DOMAIN g = DOMAIN f \ S /\ IsFn(g) /\ \A i \in DOMAIN f \ S : g[i] = f[i]
    <3>1. /\ DOMAIN Erase(f, S) = DOMAIN f \ S /\ IsFn(Erase(f, S))
          /\ \A i \in DOMAIN f \ S : Erase(f, S)[i] = f[i]
      BY EraseFacts, Zenon
    <3>2. QED
      BY <2>2, <3>1, Zenon
  <2>4. DOMAIN g = {i \in DOMAIN f : f[i].owner # doing.h}
    BY <2>1, <2>3
  <2>5. AllIds(k)' = AllIds(k) /\ DOMAIN f \subseteq AllIds(k)
    BY <2>1 DEF AllIds, Ids, RegType
  <2>6. QED
    BY <2>1, <2>3, <2>4, <2>5
<1>3. RegType'
  <2>1. \A k \in RegisteredKinds : IsFn(registered'[k]) /\ DOMAIN registered'[k] \subseteq AllIds(k)'
    BY <1>2
  <2>2. QED
    BY <1>1, <2>1 DEF RegType, IsFn
<1>4. ASSUME NEW k \in RegisteredKinds, NEW i \in AllIds(k), tables[k][i].h # Null
      PROVE  /\ i \in DOMAIN registered'[k]
             /\ registered'[k][i] = [owner |-> tables[k][i].owner, h |-> tables[k][i].h]
  <2>1. /\ i \in DOMAIN registered[k]
        /\ registered[k][i] = [owner |-> tables[k][i].owner, h |-> tables[k][i].h]
    BY <1>4 DEF RegInv
  <2>2. k \in Kinds \ Elsewhere
    BY KindFacts DEF RegisteredKinds, Elsewhere
  <2>3. tables[k][i].owner # doing.h
    BY <1>4, <2>2, NothingOwned DEF OwnedBy, Get, Owner, AllIds
  <2>4. registered[k][i].owner # doing.h
    BY <2>1, <2>3
  <2>5. QED
    BY <1>2, <2>1, <2>4
<1>5. ASSUME NEW k \in RegisteredKinds, NEW i \in DOMAIN registered'[k]
      PROVE  tables[k][i].h # Null
  <2>1. i \in DOMAIN registered[k] /\ registered[k][i].owner # doing.h
    BY <1>2
  <2>2. QED
    BY <2>1 DEF RegInv
<1>6. RegInv'
  <2>1. \A k \in RegisteredKinds : AllIds(k)' = AllIds(k)
    BY <1>2
  <2>2. SUFFICES ASSUME NEW k \in RegisteredKinds
                 PROVE  /\ \A i \in AllIds(k)' : tables'[k][i].h # Null =>
                             /\ i \in DOMAIN registered'[k]
                             /\ registered'[k][i] = [owner |-> tables'[k][i].owner, h |-> tables'[k][i].h]
                        /\ \A i \in DOMAIN registered'[k] : tables'[k][i].h # Null
    BY DEF RegInv
  <2>3. tables'[k] = tables[k]
    OBVIOUS
  <2>4. \A i \in AllIds(k)' : tables'[k][i].h # Null =>
          /\ i \in DOMAIN registered'[k]
          /\ registered'[k][i] = [owner |-> tables'[k][i].owner, h |-> tables'[k][i].h]
    <3>1. AllIds(k)' = AllIds(k)
      BY <2>1
    <3>2. ASSUME NEW i \in AllIds(k), tables[k][i].h # Null
          PROVE  /\ i \in DOMAIN registered'[k]
                 /\ registered'[k][i] = [owner |-> tables[k][i].owner, h |-> tables[k][i].h]
      BY <1>4, <3>2
    <3>3. QED
      BY <2>3, <3>1, <3>2, Zenon
  <2>5. \A i \in DOMAIN registered'[k] : tables'[k][i].h # Null
    BY <1>5, <2>3, Zenon
  <2>6. QED
    BY <2>4, <2>5
<1>7. QED
  BY <1>3, <1>6

\* The device goes, and of the objects only its queues with it.
Leaves ==
  /\ Closed /\ doing.h # Null /\ doing'.h = Null
  /\ \A o \in live' : o \in live /\ o.dev # doing.id
  /\ \A o \in live : o.kind \notin {"queues", "devices"} => o \in live'

LEMMA RetireSets ==
  ASSUME StateType, ObjectInv, SetType, SetInv, Leaves,
         AllIds("descriptor_sets")' = AllIds("descriptor_sets"),
         descriptor_set_owners' =
           Erase(descriptor_set_owners, {i \in DOMAIN descriptor_set_owners :
                                           descriptor_set_owners[i].device = doing.h})
  PROVE  SetType' /\ SetInv'
<1>1. PICK f, S : /\ f = descriptor_set_owners'
                  /\ S = {i \in DOMAIN descriptor_set_owners : descriptor_set_owners[i].device = doing.h}
  OBVIOUS
<1>2. f = Erase(descriptor_set_owners, S)
  BY <1>1
<1>3. /\ DOMAIN f = DOMAIN descriptor_set_owners \ S /\ IsFn(f)
      /\ \A i \in DOMAIN descriptor_set_owners \ S : f[i] = descriptor_set_owners[i]
  BY <1>2, EraseFacts
<1>4. \A i \in DOMAIN descriptor_set_owners : i \in S <=> descriptor_set_owners[i].device = doing.h
  BY <1>1
<1>5. SetType'
  BY <1>1, <1>3 DEF SetType, IsFn
<1>6. doing.h # Null /\ doing'.h = Null
  BY DEF Leaves
<1>7. ASSUME NEW o \in live', o.kind = "descriptor_sets"
      PROVE  /\ o.id \in DOMAIN f /\ DeviceIs(o.dev, f[o.id].device)'
             /\ \E p \in live' : /\ p.kind = "descriptor_pools" /\ o.parent = <<p.kind, p.id>>
                                 /\ p.h = f[o.id].pool
  <2>1. o \in live /\ o.dev # doing.id
    BY DEF Leaves
  <2>2. /\ o.id \in DOMAIN descriptor_set_owners
        /\ DeviceIs(o.dev, descriptor_set_owners[o.id].device)
        /\ \E p \in live : /\ p.kind = "descriptor_pools" /\ o.parent = <<p.kind, p.id>>
                           /\ p.h = descriptor_set_owners[o.id].pool
    BY <1>7, <2>1 DEF SetInv
  <2>3. descriptor_set_owners[o.id].device # doing.h
    BY <1>6, <2>1, <2>2, TeardownDevice
  <2>4. o.id \in DOMAIN f /\ f[o.id] = descriptor_set_owners[o.id]
    BY <1>3, <1>4, <2>2, <2>3
  <2>5. DeviceIs(o.dev, f[o.id].device)'
    BY <2>2, <2>4 DEF Leaves, Closed, DeviceIs
  <2>6. QED
    BY <2>2, <2>4, <2>5 DEF Leaves
<1>8. ASSUME NEW i \in DOMAIN f
      PROVE  /\ f[i] = [device |-> f[i].device, pool |-> f[i].pool]
             /\ \E o \in live' : o.kind = "descriptor_sets" /\ o.id = i
  <2>1. /\ i \in DOMAIN descriptor_set_owners /\ f[i] = descriptor_set_owners[i]
        /\ descriptor_set_owners[i].device # doing.h
    BY <1>3, <1>4
  <2>2. PICK o \in live : o.kind = "descriptor_sets" /\ o.id = i
    BY <2>1 DEF SetInv
  <2>3. o \in live'
    BY <2>2 DEF Leaves
  <2>4. f[i] = [device |-> f[i].device, pool |-> f[i].pool]
    BY <2>1 DEF SetInv
  <2>5. QED
    BY <2>2, <2>3, <2>4
<1>9. SetInv'
  BY <1>1, <1>7, <1>8 DEF SetInv
<1>10. QED
  BY <1>5, <1>9

LEMMA RetireBuffers ==
  ASSUME StateType, ObjectInv, BufferInv, Leaves, DOMAIN command_buffer_devices \subseteq Handles,
         command_buffer_devices' =
           Erase(command_buffer_devices, {c \in DOMAIN command_buffer_devices :
                                            command_buffer_devices[c] = doing.h})
  PROVE  BufferInv' /\ DOMAIN command_buffer_devices' \subseteq Handles
<1>1. PICK f, S : /\ f = command_buffer_devices'
                  /\ S = {c \in DOMAIN command_buffer_devices : command_buffer_devices[c] = doing.h}
  OBVIOUS
<1>2. f = Erase(command_buffer_devices, S)
  BY <1>1
<1>3. /\ DOMAIN f = DOMAIN command_buffer_devices \ S
      /\ \A c \in DOMAIN command_buffer_devices \ S : f[c] = command_buffer_devices[c]
  BY <1>2, EraseFacts
<1>4. \A c \in DOMAIN command_buffer_devices : c \in S <=> command_buffer_devices[c] = doing.h
  BY <1>1
<1>5. ASSUME NEW o \in live', o.kind = "command_buffers"
      PROVE  o.h \in DOMAIN f /\ DeviceIs(o.dev, f[o.h])'
  <2>1. o \in live /\ o.dev # doing.id /\ doing.h # Null
    BY DEF Leaves
  <2>2. o.h \in DOMAIN command_buffer_devices /\ DeviceIs(o.dev, command_buffer_devices[o.h])
    BY <1>5, <2>1 DEF BufferInv
  <2>3. command_buffer_devices[o.h] # doing.h
    BY <2>1, <2>2, TeardownDevice
  <2>4. o.h \in DOMAIN f /\ f[o.h] = command_buffer_devices[o.h]
    BY <1>3, <1>4, <2>2, <2>3
  <2>5. QED
    BY <2>2, <2>4 DEF Leaves, Closed, DeviceIs
<1>6. QED
  BY <1>1, <1>3, <1>5 DEF BufferInv

LEMMA RetireChains ==
  ASSUME StateType, ObjectInv, ChainInv, Leaves, NEW S,
         S = {c \in DOMAIN swapchain_devices : swapchain_devices[c] = doing.h},
         swapchain_devices' = Erase(swapchain_devices, S),
         swapchain_surfaces' = Erase(swapchain_surfaces, S)
  PROVE  ChainInv' /\ DOMAIN swapchain_devices' \subseteq DOMAIN swapchain_devices
<1>1. PICK f, g : f = swapchain_devices' /\ g = swapchain_surfaces'
  OBVIOUS
<1>2. f = Erase(swapchain_devices, S) /\ g = Erase(swapchain_surfaces, S)
  BY <1>1
<1>3. /\ DOMAIN f = DOMAIN swapchain_devices \ S /\ DOMAIN g = DOMAIN swapchain_surfaces \ S
      /\ \A c \in DOMAIN swapchain_devices \ S : f[c] = swapchain_devices[c]
  <2>1. /\ DOMAIN Erase(swapchain_devices, S) = DOMAIN swapchain_devices \ S
        /\ \A c \in DOMAIN swapchain_devices \ S : Erase(swapchain_devices, S)[c] = swapchain_devices[c]
    BY DEF Erase
  <2>2. DOMAIN Erase(swapchain_surfaces, S) = DOMAIN swapchain_surfaces \ S
    BY EraseFacts, Zenon
  <2>3. QED
    BY <1>2, <2>1, <2>2, Zenon
<1>4. \A c \in DOMAIN swapchain_devices : c \in S <=> swapchain_devices[c] = doing.h
  OBVIOUS
<1>5. ASSUME NEW o \in live', o.kind = "swapchains"
      PROVE  o.h \in DOMAIN f /\ DeviceIs(o.dev, f[o.h])'
  <2>1. o \in live /\ o.dev # doing.id /\ doing.h # Null
    BY DEF Leaves
  <2>2. o.h \in DOMAIN swapchain_devices /\ DeviceIs(o.dev, swapchain_devices[o.h])
    BY <1>5, <2>1 DEF ChainInv
  <2>3. swapchain_devices[o.h] # doing.h
    BY <2>1, <2>2, TeardownDevice
  <2>4. o.h \in DOMAIN f /\ f[o.h] = swapchain_devices[o.h]
    BY <1>3, <1>4, <2>2, <2>3
  <2>5. QED
    BY <2>2, <2>4 DEF Leaves, Closed, DeviceIs
<1>6. ASSUME NEW c \in DOMAIN f PROVE \E o \in live' : o.kind = "swapchains" /\ o.h = c
  <2>1. c \in DOMAIN swapchain_devices /\ swapchain_devices[c] # doing.h
    BY <1>3, <1>4
  <2>2. PICK o \in live : o.kind = "swapchains" /\ o.h = c
    BY <2>1 DEF ChainInv
  <2>3. QED
    BY <2>2 DEF Leaves
<1>7. DOMAIN f = DOMAIN g
  BY <1>3 DEF ChainInv
<1>8. QED
  BY <1>1, <1>3, <1>5, <1>6, <1>7 DEF ChainInv

LEMMA RetireImages ==
  ASSUME StateType, ObjectInv, ImageInv, Leaves, AllIds("images")' = AllIds("images"), NEW S,
         S = {s \in DOMAIN swapchain_image_ids : Owner(tables, "swapchains", s) = Null},
         swapchain_image_ids' = Erase(swapchain_image_ids, S)
  PROVE  ImageInv' /\ DOMAIN swapchain_image_ids' \subseteq DOMAIN swapchain_image_ids
<1>1. PICK f : f = swapchain_image_ids'
  OBVIOUS
<1>2. /\ DOMAIN f = DOMAIN swapchain_image_ids \ S
      /\ \A s \in DOMAIN swapchain_image_ids \ S : f[s] = swapchain_image_ids[s]
  <2>1. f = Erase(swapchain_image_ids, S)
    BY <1>1
  <2>2. /\ DOMAIN Erase(swapchain_image_ids, S) = DOMAIN swapchain_image_ids \ S
        /\ \A s \in DOMAIN swapchain_image_ids \ S :
             Erase(swapchain_image_ids, S)[s] = swapchain_image_ids[s]
    BY DEF Erase
  <2>3. QED
    BY <2>1, <2>2, Zenon
<1>3. \A s \in DOMAIN f : ImageIdsOf(s)' = ImageIdsOf(s) /\ s \in DOMAIN swapchain_image_ids
  BY <1>1, <1>2 DEF ImageIdsOf
<1>4. ASSUME NEW o \in live', o.kind = "images", o.id # Null, o.parent # <<>>
      PROVE  o.id \in ImageIdsOf(o.parent[2])'
  <2>1. o \in live /\ o.dev # doing.id /\ o.id \in ImageIdsOf(o.parent[2])
    BY <1>4 DEF Leaves, ImageInv
  <2>2. PICK p \in live : o.parent = <<p.kind, p.id>> /\ <<o.kind, p.kind>> \in Parentage
    BY <1>4, <2>1 DEF ObjectInv, ShapeInv, HasParent
  <2>3. p.kind = "swapchains" /\ o.parent[2] = p.id
    BY <1>4, <2>2, ParentageFacts, Pairs
  <2>4. p.id # Null /\ ~ Excused(p)
    BY <2>3 DEF ObjectInv, ShapeInv, HasName, Excused
  <2>5. OwnerIs(p, tables["swapchains"][p.id].owner)
    BY <2>3, <2>4 DEF ObjectInv, NamedInv
  <2>6. tables["swapchains"][p.id].owner # Null
    BY <2>3, <2>5, Consts DEF OwnerIs, DeviceIs, StateType, IsObject
  <2>7. p.id \in AllIds("swapchains")
    BY <2>3, <2>4, NameInTable
  <2>8. Owner(tables, "swapchains", p.id) # Null
    BY <2>6, <2>7 DEF Owner, AllIds
  <2>9. p.id \in DOMAIN swapchain_image_ids
    BY <2>1, <2>3 DEF ImageIdsOf
  <2>10. p.id \in DOMAIN f
    BY <1>2, <2>8, <2>9
  <2>11. QED
    BY <1>3, <2>1, <2>3, <2>10
<1>5. ASSUME NEW s \in DOMAIN f, NEW i \in ImageIdsOf(s)'
      PROVE  /\ i \in AllIds("images")'
             /\ \A o \in live' : o.kind = "images" /\ o.id = i => o.parent = <<"swapchains", s>>
  <2>1. s \in DOMAIN swapchain_image_ids /\ i \in ImageIdsOf(s)
    BY <1>3, <1>5
  <2>2. QED
    BY <2>1 DEF ImageInv, Leaves
<1>6. ASSUME NEW o \in live', o.kind = "swapchains"
      PROVE  \E c \in live' : c.kind = "images" /\ c.parent = <<"swapchains", o.id>>
  <2>1. PICK c \in live : c.kind = "images" /\ c.parent = <<"swapchains", o.id>>
    BY <1>6 DEF ImageInv, Leaves
  <2>2. QED
    BY <2>1 DEF Leaves
<1>7. QED
  BY <1>1, <1>2, <1>4, <1>5, <1>6 DEF ImageInv

\* The end of destroy_device_objects: nothing is left of the device.
LEMMA RetireDeviceStep ==
  ASSUME ObjectsInv, RetireDevice
  PROVE  ObjectsInv'
<1>1. doing.h # Null /\ Pending = {} /\ orphaned' = orphaned
  BY DEF RetireDevice
<1>2. TypeInv /\ StateType /\ ObjectInv /\ MapInv /\ faults = {} /\ doing.at # "ended"
  BY <1>1 DEF ObjectsInv, TypeInv, StateType
<1>3. /\ RegType /\ SetType /\ ChainType /\ DOMAIN command_buffer_devices \subseteq Handles
      /\ RegInv /\ SetInv /\ BufferInv /\ ChainInv /\ ImageInv
  BY <1>2 DEF TypeInv, MapInv
<1>4. PICK S, t :
        /\ S = {c \in DOMAIN swapchain_devices : swapchain_devices[c] = doing.h}
        /\ t = RetireOwned(RetireOwned(RetireOwned(tables, "command_buffers", doing.h),
                                       "descriptor_sets", doing.h), "queues", doing.h)
  OBVIOUS
<1>5. /\ tables' = t
      /\ registered' =
           [k \in RegisteredKinds |->
              Erase(registered[k], {i \in DOMAIN registered[k] : registered[k][i].owner = doing.h})]
      /\ command_buffer_devices' =
           Erase(command_buffer_devices,
                 {c \in DOMAIN command_buffer_devices : command_buffer_devices[c] = doing.h})
      /\ descriptor_set_owners' =
           Erase(descriptor_set_owners, {i \in DOMAIN descriptor_set_owners :
                                           descriptor_set_owners[i].device = doing.h})
      /\ swapchain_devices' = Erase(swapchain_devices, S)
      /\ swapchain_surfaces' = Erase(swapchain_surfaces, S)
      /\ swapchain_image_ids' =
           Erase(swapchain_image_ids,
                 {s \in DOMAIN swapchain_image_ids : Owner(t, "swapchains", s) = Null})
  BY <1>4 DEF RetireDevice
<1>6. /\ live' = {o \in live : ~ (o.kind = "devices" /\ o.id = doing.id) /\ o.dev # doing.id}
      /\ doing' = [doing EXCEPT !.h = Null, !.id = Null]
      /\ faults' = faults \cup (IF \E o \in live : o.dev = doing.id /\ o.kind # "queues"
                                THEN {"left_behind"} ELSE {})
  BY DEF RetireDevice
<1>7. faults' = {}
  BY <1>1, <1>2, <1>6, OnlyQueues
<1>8. doing'.h = Null /\ doing'.id = Null /\ doing'.at = doing.at
  BY <1>2, <1>6 DEF StateType
<1>9. doing' \in [at : {"serving", "ending", "ended"}, h : Handles \cup {Null},
                  id : 0 .. Len(tables["devices"])]
  <2>1. 0 \in 0 .. Len(tables["devices"])
    BY <1>2, SlotFacts, KindFacts
  <2>2. QED
    BY <1>2, <1>6, <2>1, Consts DEF StateType
<1>10. Retired(tables', doing.h)
  BY <1>2, <1>4, <1>5, RetireThree
<1>11. TakenFrom(tables', tables) /\ \A k \in Kinds \ RetiredKinds : tables'[k] = tables[k]
  BY <1>10 DEF Retired
<1>12. /\ StateType' /\ Taken /\ \A k \in Kinds : AllIds(k)' = AllIds(k)
  <2>1. orphaned' \subseteq AllIds("command_buffers") /\ live' \subseteq live
    BY <1>1, <1>2, <1>6 DEF StateType
  <2>2. QED
    BY <1>2, <1>8, <1>9, <1>11, <2>1, TakenType
<1>13. Shrinks
  BY <1>1, <1>2, <1>6, <1>8, <1>10, RetireShrinks
<1>14. Leaves
  BY <1>1, <1>2, <1>6, <1>8, <1>13, OnlyQueues DEF Leaves, Shrinks
<1>15. ObjectInv'
  BY <1>2, <1>13, ShrinksKeeps
<1>16. RegType' /\ RegInv'
  <2>1. \A k \in RegisteredKinds : tables'[k] = tables[k]
    BY <1>11, KindFacts DEF RegisteredKinds, RetiredKinds
  <2>2. QED
    BY <1>1, <1>2, <1>3, <1>5, <1>8, <2>1, RetireReg
<1>17. SetType' /\ SetInv'
  BY <1>2, <1>3, <1>5, <1>12, <1>14, RetireSets, KindFacts
<1>18. BufferInv' /\ DOMAIN command_buffer_devices' \subseteq Handles
  BY <1>2, <1>3, <1>5, <1>14, RetireBuffers
<1>19. ChainInv' /\ DOMAIN swapchain_devices' \subseteq DOMAIN swapchain_devices
  BY <1>2, <1>3, <1>4, <1>5, <1>14, RetireChains
<1>20. ImageInv' /\ DOMAIN swapchain_image_ids' \subseteq DOMAIN swapchain_image_ids
  <2>1. tables'["swapchains"] = tables["swapchains"]
    BY <1>11, KindFacts DEF RetiredKinds
  <2>2. \A s : Owner(t, "swapchains", s) = Owner(tables, "swapchains", s)
    BY <1>5, <2>1 DEF Owner, Ids
  <2>3. PICK R : R = {s \in DOMAIN swapchain_image_ids : Owner(tables, "swapchains", s) = Null}
    OBVIOUS
  <2>4. swapchain_image_ids' = Erase(swapchain_image_ids, R)
    BY <1>5, <2>2, <2>3
  <2>5. AllIds("images")' = AllIds("images")
    BY <1>12, KindFacts
  <2>6. QED
    BY <1>2, <1>3, <1>14, <2>3, <2>4, <2>5, RetireImages
<1>21. ChainType'
  BY <1>3, <1>12, <1>19, <1>20, KindFacts DEF ChainType
<1>22. TypeInv'
  BY <1>12, <1>16, <1>17, <1>18, <1>21 DEF TypeInv
<1>23. QED
  BY <1>2, <1>7, <1>8, <1>15, <1>16, <1>17, <1>18, <1>19, <1>20, <1>22, ServingStep DEF MapInv

\* Once its devices are gone the session has only surfaces, each by its name.
LEMMA OnlySurfaces ==
  ASSUME StateType, ObjectInv, doing.h = Null, LiveDevices = {}, NEW o \in live
  PROVE  /\ o.kind = "surfaces" /\ o.id # Null /\ o.dev = Null
         /\ o.id \in AllIds("surfaces") /\ Get(tables, "surfaces", o.id) = o.h /\ o.h # Null
<1>1. ASSUME NEW p \in live, p.kind = "devices" PROVE FALSE
  <2>1. p.id # Null
    BY <1>1 DEF ObjectInv, ShapeInv, HasName
  <2>2. Get(tables, "devices", p.id) = p.h /\ p.h \in Handles /\ p.id \in AllIds("devices")
    BY <1>1, <2>1, NameOf
  <2>3. p.id \in LiveDevices
    BY <2>2, Consts DEF LiveDevices
  <2>4. QED
    BY <2>3
<1>2. o.dev = Null /\ o.kind = "surfaces"
  BY <1>1 DEF ObjectInv, ShapeInv, HasDevice
<1>3. o.id # Null
  BY <1>2 DEF ObjectInv, ShapeInv, HasName
<1>4. Get(tables, "surfaces", o.id) = o.h /\ o.h \in Handles /\ o.id \in AllIds("surfaces")
  BY <1>2, <1>3, NameOf
<1>5. QED
  BY <1>2, <1>3, <1>4, Consts

\* The end of destroy_session_objects: the surfaces, and nothing is left.
LEMMA EndSurfacesStep ==
  ASSUME ObjectsInv, EndSurfaces
  PROVE  ObjectsInv'
<1>1. /\ doing.at = "ending" /\ doing.h = Null /\ LiveDevices = {}
      /\ tables' = tables /\ UNCHANGED maps /\ orphaned' = orphaned
      /\ doing' = [doing EXCEPT !.at = "ended"]
  BY DEF EndSurfaces
<1>2. PICK hs : hs = {Get(tables, "surfaces", s) : s \in AllIds("surfaces")} \ {Null}
  OBVIOUS
<1>3. live' = live \ NativeDestroy("surfaces", hs) /\ faults' = faults \cup Wrong("surfaces", hs)
  BY <1>2 DEF EndSurfaces
<1>4. TypeInv /\ StateType /\ ObjectInv /\ faults = {} /\ doing.id = Null
  BY <1>1 DEF ObjectsInv, TypeInv, StateType
<1>5. \A o \in live : /\ o.kind = "surfaces" /\ o.id # Null /\ o.dev = Null
                      /\ o.id \in AllIds("surfaces") /\ Get(tables, "surfaces", o.id) = o.h
                      /\ o.h # Null
  BY <1>1, <1>4, OnlySurfaces
<1>6. \A o \in live : o.h \in hs
  BY <1>2, <1>5
<1>7. {o \in Objects("surfaces") : o.h \in hs} = live
  BY <1>5, <1>6 DEF Objects
<1>8. live \ WithChildren(live) = {}
  BY DEF WithChildren
<1>9. live' = {}
  BY <1>3, <1>7, <1>8 DEF NativeDestroy
<1>10. hs = {o.h : o \in live}
  <2>1. ASSUME NEW h \in hs PROVE \E o \in live : o.h = h
    <3>1. PICK s \in AllIds("surfaces") : Get(tables, "surfaces", s) = h /\ h # Null
      BY <1>2, <2>1
    <3>2. tables["surfaces"][s].h # Null
      BY <3>1 DEF Get, AllIds
    <3>3. ~ Loose("surfaces", s)
      BY DEF Loose
    <3>4. PICK o \in live : o.kind = "surfaces" /\ o.id = s
      BY <1>4, <3>2, <3>3, KindFacts DEF ObjectInv, NameInv
    <3>5. QED
      BY <1>5, <3>1, <3>4
  <2>2. QED
    BY <1>6, <2>1
<1>11. Wrong("surfaces", hs) = {}
  BY <1>4, <1>5, <1>7, <1>8, <1>10 DEF Wrong
<1>12. faults' = {}
  BY <1>3, <1>4, <1>11
<1>13. /\ doing'.h = Null /\ doing'.id = Null /\ doing'.at = "ended"
       /\ doing' \in [at : {"serving", "ending", "ended"}, h : Handles \cup {Null},
                      id : 0 .. Len(tables["devices"])]
  BY <1>1, <1>4 DEF StateType
<1>14. StateType'
  BY <1>1, <1>4, <1>9, <1>13 DEF StateType, AllIds, Ids
<1>15. TypeInv'
  BY <1>1, <1>4, <1>14 DEF TypeInv, RegType, SetType, ChainType, IsFn, AllIds, Ids, maps
<1>16. QED
  BY <1>9, <1>12, <1>13, <1>15 DEF ObjectsInv

------------------------------------------------------------------------------
(* The invariant. *)

LEMMA InitObjects ==
  ASSUME Init
  PROVE  ObjectsInv
<1>1. /\ tables = [k \in Kinds |-> <<>>]
      /\ registered = [k \in RegisteredKinds |-> EmptyMap]
      /\ descriptor_set_owners = EmptyMap /\ command_buffer_devices = EmptyMap
      /\ swapchain_devices = EmptyMap /\ swapchain_surfaces = EmptyMap
      /\ swapchain_image_ids = EmptyMap
      /\ doing = [at |-> "serving", h |-> Null, id |-> Null]
      /\ live = {} /\ orphaned = {} /\ faults = {}
  BY DEF Init
<1>2. DOMAIN EmptyMap = {} /\ IsFn(EmptyMap)
  BY DEF EmptyMap, IsFn
<1>3. \A k \in Kinds : tables[k] = <<>> /\ AllIds(k) = {}
  BY <1>1 DEF AllIds, Ids
<1>4. StateType
  <2>1. tables \in [Kinds -> Seq(Slot)]
    BY <1>1
  <2>2. doing \in [at : {"serving", "ending", "ended"}, h : Handles \cup {Null},
                   id : 0 .. Len(tables["devices"])]
    BY <1>1, <1>3, KindFacts, Consts
  <2>3. QED
    BY <1>1, <2>1, <2>2 DEF StateType
<1>5. RegType
  BY <1>1, <1>2 DEF RegType, IsFn
<1>6. TypeInv
  BY <1>1, <1>2, <1>4, <1>5 DEF TypeInv, SetType, ChainType
<1>7. ObjectInv
  <2>1. UniqueInv /\ ShapeInv /\ NamedInv
    BY <1>1 DEF UniqueInv, ShapeInv, NamedInv
  <2>2. NameInv /\ QueueInv
    BY <1>3, KindFacts DEF NameInv, QueueInv
  <2>3. DoingInv
    BY <1>1 DEF DoingInv
  <2>4. QED
    BY <2>1, <2>2, <2>3 DEF ObjectInv
<1>8. MapInv
  <2>1. \A k \in RegisteredKinds : DOMAIN registered[k] = {}
    BY <1>1, <1>2
  <2>2. RegInv
    BY <1>3, <2>1, KindFacts DEF RegInv
  <2>3. SetInv /\ BufferInv /\ ChainInv /\ ImageInv
    BY <1>1, <1>2 DEF SetInv, BufferInv, ChainInv, ImageInv
  <2>4. QED
    BY <2>2, <2>3 DEF MapInv
<1>9. QED
  BY <1>1, <1>6, <1>7, <1>8 DEF ObjectsInv

LEMMA NextObjects ==
  ASSUME ObjectsInv, [Next]_vars
  PROVE  ObjectsInv'
<1>1. CASE CreateSome
  <2>1. CASE \E k \in Exercised \cap (PlainKinds \cup {"fences", "semaphores", "descriptor_pools"}) :
               Create(k)
    BY <2>1, CreateStep
  <2>2. CASE \E k \in Exercised \cap RegisteredKinds : CreateRegistered(k)
    BY <2>2, CreateRegisteredStep
  <2>3. QED
    BY <1>1, <2>1, <2>2, CreateDeviceStep, GetDeviceQueueStep, CreatePipelinesStep,
       AllocateDescriptorSetStep, AllocateCommandBufferStep, CreateSurfaceStep,
       CreateSwapchainStep, GetSwapchainImagesStep, CountFailsStep DEF CreateSome
<1>2. CASE DestroySome
  <2>1. CASE \E k \in Exercised \cap (PlainKinds \cup {"pipelines"}) : Destroy(k)
    BY <2>1, DestroyStep
  <2>2. CASE \E k \in {"fences", "semaphores"} : DestroySync(k)
    BY <2>2, DestroySyncStep
  <2>3. CASE \E k \in RegisteredKinds : DestroyRegistered(k)
    BY <2>3, DestroyRegisteredStep
  <2>4. CASE \E destroy \in BOOLEAN : EmptyDescriptorPool(destroy)
    BY <2>4, EmptyDescriptorPoolStep
  <2>5. QED
    BY <1>2, <2>1, <2>2, <2>3, <2>4, FreeDescriptorSetStep, FreeCommandBufferStep,
       DestroySurfaceStep, DestroySwapchainStep DEF DestroySome
<1>3. CASE UseSome
  <2>1. UNCHANGED <<tables, maps, doing, live, watched>>
    BY <1>3 DEF UseSome, UseChecked, QueueSubmit, Transfer, BindMemory
  <2>2. QED
    BY <2>1, UseStep
<1>4. CASE TeardownSome
  BY <1>4, DestroyDeviceStep, DestroyOwnedStep, RetireDeviceStep, EndSessionStep,
     EndDeviceStep, EndSurfacesStep DEF TeardownSome
<1>5. CASE UNCHANGED vars
  <2>1. UNCHANGED <<tables, maps, doing, live, watched>>
    BY <1>5 DEF vars, watched
  <2>2. QED
    BY <2>1, UseStep
<1>6. QED
  BY <1>1, <1>2, <1>3, <1>4, <1>5 DEF Next

\* ObjectsInv holds in every state of a session.
LEMMA AlwaysObjects == Spec => []ObjectsInv
<1>1. Init => ObjectsInv
  BY InitObjects
<1>2. ObjectsInv /\ [Next]_vars => ObjectsInv'
  BY NextObjects
<1>3. QED
  BY <1>1, <1>2, PTL DEF Spec

------------------------------------------------------------------------------
(* What the invariant says between two handlers. *)

LEMMA NativeOf ==
  ASSUME StateType, ObjectInv, doing.h = Null, NEW d, NEW h, DeviceIs(d, h)
  PROVE  Native(d) = h
<1>1. PICK p \in live : p.kind = "devices" /\ p.id = d /\ p.h = h
  BY DEF DeviceIs
<1>2. p.id # Null
  BY <1>1 DEF ObjectInv, ShapeInv, HasName
<1>3. QED
  BY <1>1, <1>2, NameOf DEF Native

\* An object under a name that resolves.
LEMMA Resolved ==
  ASSUME StateType, ObjectInv, doing.h = Null, NEW k \in Kinds \ {"queues"}, NEW i \in AllIds(k),
         Get(tables, k, i) # Null, ~ (k = "command_buffers" /\ i \in orphaned)
  PROVE  \E o \in live : /\ o.kind = k /\ o.id = i /\ o.h = Get(tables, k, i)
                         /\ OwnerIs(o, Owner(tables, k, i))
<1>1. Get(tables, k, i) = tables[k][i].h /\ Owner(tables, k, i) = tables[k][i].owner
  BY DEF Get, Owner, AllIds
<1>2. ~ Loose(k, i)
  BY DEF Loose
<1>3. QED
  BY <1>1, <1>2 DEF ObjectInv, NameInv

\* A queue under a name that resolves.
LEMMA ResolvedQueue ==
  ASSUME StateType, ObjectInv, doing.h = Null, NEW i \in AllIds("queues"),
         Get(tables, "queues", i) # Null
  PROVE  \E o \in live : /\ o.kind = "queues" /\ o.h = Get(tables, "queues", i)
                         /\ Native(o.dev) = Owner(tables, "queues", i)
<1>1. /\ Get(tables, "queues", i) = tables["queues"][i].h
      /\ Owner(tables, "queues", i) = tables["queues"][i].owner
  BY DEF Get, Owner, AllIds
<1>2. PICK o \in live : /\ o.kind = "queues" /\ o.h = tables["queues"][i].h
                        /\ DeviceIs(o.dev, tables["queues"][i].owner)
  BY <1>1 DEF ObjectInv, QueueInv
<1>3. Native(o.dev) = tables["queues"][i].owner
  BY <1>2, NativeOf
<1>4. QED
  BY <1>1, <1>2, <1>3

LEMMA ObjectsNamesAreOwn ==
  ASSUME ObjectsInv
  PROVE  NamesAreOwn
<1>1. SUFFICES ASSUME Serving, NEW k \in Kinds, NEW id \in AllIds(k), Get(tables, k, id) # Null,
                      ~ (k = "command_buffers" /\ id \in orphaned)
               PROVE  /\ Denotes(k, id, Get(tables, k, id))
                      /\ k \notin {"devices", "surfaces", "queues"} =>
                           \E o \in Objects(k) : o.id = id /\ Native(o.dev) = Owner(tables, k, id)
  BY DEF NamesAreOwn
<1>2. StateType /\ ObjectInv /\ doing.h = Null
  BY <1>1, ServingInv
<1>3. CASE k = "queues"
  <2>1. \E o \in live : /\ o.kind = "queues" /\ o.h = Get(tables, "queues", id)
                        /\ Native(o.dev) = Owner(tables, "queues", id)
    BY <1>1, <1>2, <1>3, ResolvedQueue
  <2>2. QED
    BY <1>3, <2>1 DEF Denotes, Objects
<1>4. CASE k # "queues"
  <2>1. PICK o \in live : /\ o.kind = k /\ o.id = id /\ o.h = Get(tables, k, id)
                          /\ OwnerIs(o, Owner(tables, k, id))
    BY <1>1, <1>2, <1>4, Resolved
  <2>2. Denotes(k, id, Get(tables, k, id))
    BY <1>4, <2>1 DEF Denotes, Objects
  <2>3. ASSUME k \notin {"devices", "surfaces", "queues"}
        PROVE  \E x \in Objects(k) : x.id = id /\ Native(x.dev) = Owner(tables, k, id)
    <3>1. DeviceIs(o.dev, Owner(tables, k, id))
      BY <2>1, <2>3 DEF OwnerIs
    <3>2. Native(o.dev) = Owner(tables, k, id)
      BY <1>2, <3>1, NativeOf
    <3>3. QED
      BY <2>1, <3>2 DEF Objects
  <2>4. QED
    BY <2>2, <2>3
<1>5. QED
  BY <1>3, <1>4

LEMMA ObjectsOneNameEach ==
  ASSUME ObjectsInv
  PROVE  OneNameEach
<1>1. SUFFICES ASSUME Serving, NEW k \in Kinds, NEW i \in AllIds(k), NEW j \in AllIds(k),
                      Get(tables, k, i) # Null, Get(tables, k, i) = Get(tables, k, j),
                      ~ (k = "command_buffers" /\ {i, j} \cap orphaned # {})
               PROVE  i = j
  BY DEF OneNameEach
<1>2. StateType /\ ObjectInv /\ doing.h = Null
  BY <1>1, ServingInv
<1>3. CASE k = "queues"
  <2>1. PICK o \in live : /\ o.kind = "queues" /\ o.h = Get(tables, "queues", i)
                          /\ Native(o.dev) = Owner(tables, "queues", i)
    BY <1>1, <1>2, <1>3, ResolvedQueue
  <2>2. PICK p \in live : /\ p.kind = "queues" /\ p.h = Get(tables, "queues", j)
                          /\ Native(p.dev) = Owner(tables, "queues", j)
    BY <1>1, <1>2, <1>3, ResolvedQueue
  <2>3. o = p
    BY <1>1, <1>2, <1>3, <2>1, <2>2 DEF ObjectInv, UniqueInv
  <2>4. /\ tables["queues"][i].h # Null
        /\ tables["queues"][i].h = tables["queues"][j].h
        /\ tables["queues"][i].owner = tables["queues"][j].owner
    BY <1>1, <1>3, <2>1, <2>2, <2>3 DEF Get, Owner, AllIds
  <2>5. tables["queues"][i] \in Slot /\ tables["queues"][j] \in Slot
    BY <1>1, <1>2, <1>3, SlotFacts, KindFacts
  <2>6. tables["queues"][i] = tables["queues"][j]
    BY <2>4, <2>5 DEF Slot
  <2>7. QED
    BY <1>1, <1>2, <1>3, <2>4, <2>6 DEF ObjectInv, QueueInv
<1>4. CASE k # "queues"
  <2>1. PICK o \in live : o.kind = k /\ o.id = i /\ o.h = Get(tables, k, i)
    BY <1>1, <1>2, <1>4, Resolved
  <2>2. PICK p \in live : p.kind = k /\ p.id = j /\ p.h = Get(tables, k, j)
    BY <1>1, <1>2, <1>4, Resolved
  <2>3. o = p
    BY <1>1, <1>2, <2>1, <2>2 DEF ObjectInv, UniqueInv
  <2>4. QED
    BY <2>1, <2>2, <2>3
<1>5. QED
  BY <1>3, <1>4

LEMMA ObjectsTypeOK ==
  ASSUME ObjectsInv
  PROVE  TypeOK
<1>1. /\ StateType /\ RegType /\ SetType /\ ChainType /\ faults = {}
      /\ DOMAIN command_buffer_devices \subseteq Handles
  BY DEF ObjectsInv, TypeInv
<1>2. \A k \in Kinds : tables[k] \in Seq([h : Handles \cup {Null}, owner : Handles \cup {Null}])
  BY <1>1 DEF StateType, Slot
<1>3. QED
  BY <1>1, <1>2 DEF StateType, RegType, SetType, ChainType, TypeOK

\* The set that descriptor_set_owners describes under id.
LEMMA SetEntry ==
  ASSUME StateType, SetType, ObjectInv, SetInv, doing.h = Null, NEW id,
         NEW o \in live, o.kind = "descriptor_sets", o.id = id, id # Null
  PROVE  /\ id \in DOMAIN descriptor_set_owners
         /\ id \in AllIds("descriptor_sets") /\ Get(tables, "descriptor_sets", id) # Null
         /\ descriptor_set_owners[id] =
              [device |-> Owner(tables, "descriptor_sets", id),
               pool |-> LET x == CHOOSE x \in Objects("descriptor_sets") : x.id = id
                        IN Get(tables, "descriptor_pools", x.parent[2])]
<1>1. /\ id \in DOMAIN descriptor_set_owners
      /\ DeviceIs(o.dev, descriptor_set_owners[id].device)
      /\ descriptor_set_owners[id] = [device |-> descriptor_set_owners[id].device,
                                      pool |-> descriptor_set_owners[id].pool]
  BY DEF SetInv
<1>2. /\ Get(tables, "descriptor_sets", id) = o.h /\ o.h \in Handles
      /\ id \in AllIds("descriptor_sets")
      /\ OwnerIs(o, tables["descriptor_sets"][id].owner)
  BY NameOf
<1>3. descriptor_set_owners[id].device = Owner(tables, "descriptor_sets", id)
  <2>1. DeviceIs(o.dev, tables["descriptor_sets"][id].owner)
    BY <1>2 DEF OwnerIs
  <2>2. Native(o.dev) = tables["descriptor_sets"][id].owner
    BY <2>1, NativeOf
  <2>3. Native(o.dev) = descriptor_set_owners[id].device
    BY <1>1, NativeOf
  <2>4. QED
    BY <1>2, <2>2, <2>3 DEF Owner, AllIds
<1>4. (CHOOSE x \in Objects("descriptor_sets") : x.id = id) = o
  BY DEF ObjectInv, UniqueInv, Objects
<1>5. descriptor_set_owners[id].pool = Get(tables, "descriptor_pools", o.parent[2])
  <2>1. PICK p \in live : /\ p.kind = "descriptor_pools" /\ o.parent = <<p.kind, p.id>>
                          /\ p.h = descriptor_set_owners[id].pool
    BY DEF SetInv
  <2>2. p.id # Null
    BY <2>1 DEF ObjectInv, ShapeInv, HasName
  <2>3. Get(tables, "descriptor_pools", p.id) = p.h
    BY <2>1, <2>2, NameOf
  <2>4. o.parent[2] = p.id
    BY <2>1, Pairs
  <2>5. QED
    BY <2>1, <2>3, <2>4
<1>6. QED
  BY <1>1, <1>2, <1>3, <1>4, <1>5, Consts

LEMMA ObjectsMapsAgree ==
  ASSUME ObjectsInv
  PROVE  MapsAgree
<1>1. SUFFICES ASSUME Serving
               PROVE  /\ \A k \in RegisteredKinds :
                           registered[k] = [id \in {i \in AllIds(k) : Get(tables, k, i) # Null} |->
                                              [owner |-> Owner(tables, k, id), h |-> Get(tables, k, id)]]
                      /\ descriptor_set_owners =
                           [id \in {i \in AllIds("descriptor_sets") :
                                      Get(tables, "descriptor_sets", i) # Null} |->
                              [device |-> Owner(tables, "descriptor_sets", id),
                               pool |-> LET o == CHOOSE o \in Objects("descriptor_sets") : o.id = id
                                        IN Get(tables, "descriptor_pools", o.parent[2])]]
                      /\ \A o \in Objects("command_buffers") :
                           /\ o.h \in DOMAIN command_buffer_devices
                           /\ command_buffer_devices[o.h] = Native(o.dev)
                      /\ DOMAIN swapchain_devices = {o.h : o \in Objects("swapchains")}
                      /\ DOMAIN swapchain_surfaces = DOMAIN swapchain_devices
                      /\ \A o \in Objects("swapchains") : swapchain_devices[o.h] = Native(o.dev)
  BY DEF MapsAgree
<1>2. /\ StateType /\ RegType /\ SetType /\ ObjectInv /\ doing.h = Null
      /\ RegInv /\ SetInv /\ BufferInv /\ ChainInv
  BY <1>1, ServingInv DEF TypeInv, MapInv
<1>3. ASSUME NEW k \in RegisteredKinds
      PROVE  registered[k] = [id \in {i \in AllIds(k) : Get(tables, k, i) # Null} |->
                                [owner |-> Owner(tables, k, id), h |-> Get(tables, k, id)]]
  <2>1. \A i \in AllIds(k) : Get(tables, k, i) = tables[k][i].h /\ Owner(tables, k, i) = tables[k][i].owner
    BY DEF Get, Owner, AllIds
  <2>2. /\ IsFn(registered[k]) /\ DOMAIN registered[k] \subseteq AllIds(k)
        /\ \A i \in AllIds(k) : tables[k][i].h # Null =>
             /\ i \in DOMAIN registered[k]
             /\ registered[k][i] = [owner |-> tables[k][i].owner, h |-> tables[k][i].h]
        /\ \A i \in DOMAIN registered[k] : tables[k][i].h # Null
    BY <1>2 DEF RegType, RegInv
  <2>3. DOMAIN registered[k] = {i \in AllIds(k) : Get(tables, k, i) # Null}
    BY <2>1, <2>2
  <2>4. \A i \in DOMAIN registered[k] :
          registered[k][i] = [owner |-> Owner(tables, k, i), h |-> Get(tables, k, i)]
    BY <2>1, <2>2
  <2>5. QED
    BY <2>2, <2>3, <2>4 DEF IsFn
<1>. DEFINE Names == {i \in AllIds("descriptor_sets") : Get(tables, "descriptor_sets", i) # Null}
            Entry(id) == [device |-> Owner(tables, "descriptor_sets", id),
                          pool |-> LET o == CHOOSE o \in Objects("descriptor_sets") : o.id = id
                                   IN Get(tables, "descriptor_pools", o.parent[2])]
<1>4. ASSUME NEW id \in DOMAIN descriptor_set_owners
      PROVE  id \in Names /\ descriptor_set_owners[id] = Entry(id)
  <2>1. PICK o \in live : o.kind = "descriptor_sets" /\ o.id = id
    BY <1>2 DEF SetInv
  <2>2. id # Null
    BY <1>2, SlotFacts, KindFacts, Consts DEF SetType
  <2>3. QED
    BY <1>2, <2>1, <2>2, SetEntry
<1>5. ASSUME NEW id \in Names
      PROVE  id \in DOMAIN descriptor_set_owners
  <2>1. "descriptor_sets" \in Kinds \ {"queues"}
    BY KindFacts
  <2>2. PICK o \in live : o.kind = "descriptor_sets" /\ o.id = id
    BY <1>2, <1>5, <2>1, Resolved
  <2>3. QED
    BY <1>2, <2>2 DEF SetInv
<1>6. descriptor_set_owners = [id \in Names |-> Entry(id)]
  <2>1. DOMAIN descriptor_set_owners = Names
    BY <1>4, <1>5
  <2>2. descriptor_set_owners = [id \in DOMAIN descriptor_set_owners |-> descriptor_set_owners[id]]
    BY <1>2 DEF SetType, IsFn
  <2>. HIDE DEF Names, Entry
  <2>3. QED
    BY <1>4, <2>1, <2>2
<1>7. ASSUME NEW o \in Objects("command_buffers")
      PROVE  o.h \in DOMAIN command_buffer_devices /\ command_buffer_devices[o.h] = Native(o.dev)
  <2>1. o.h \in DOMAIN command_buffer_devices /\ DeviceIs(o.dev, command_buffer_devices[o.h])
    BY <1>2 DEF BufferInv, Objects
  <2>2. QED
    BY <1>2, <2>1, NativeOf
<1>8. ASSUME NEW o \in Objects("swapchains")
      PROVE  o.h \in DOMAIN swapchain_devices /\ swapchain_devices[o.h] = Native(o.dev)
  <2>1. o.h \in DOMAIN swapchain_devices /\ DeviceIs(o.dev, swapchain_devices[o.h])
    BY <1>2 DEF ChainInv, Objects
  <2>2. QED
    BY <1>2, <2>1, NativeOf
<1>9. DOMAIN swapchain_devices = {o.h : o \in Objects("swapchains")}
  <2>1. \A c \in DOMAIN swapchain_devices : \E o \in Objects("swapchains") : o.h = c
    BY <1>2 DEF ChainInv, Objects
  <2>2. QED
    BY <1>8, <2>1
<1>10. DOMAIN swapchain_surfaces = DOMAIN swapchain_devices
  BY <1>2 DEF ChainInv
<1>11. QED
  BY <1>3, <1>6, <1>7, <1>8, <1>9, <1>10

------------------------------------------------------------------------------
(* The theorems. *)

\* Table<T> (objects.hpp) and the handlers that add to it and take from it:
\* between two requests a name resolves to the object it was given for, under
\* the device it was made on, or to nothing, and no object goes by two names,
\* whatever was destroyed before and whatever handles the driver has reused.
\* The command buffers of a destroyed pool are the exception OneToOne states.
THEOREM NamesAndObjects == Spec => []OneToOne
<1>1. ObjectsInv => OneToOne
  BY ObjectsNamesAreOwn, ObjectsOneNameEach DEF OneToOne
<1>2. QED
  BY <1>1, AlwaysObjects, PTL

\* The maps of session.hpp (memory_metadata, the *_owners and *_devices maps)
\* have, between two requests, an entry for every live object and for no other,
\* with the owner and the handle that the tables give it.
THEOREM TablesAndMaps == Spec => []RecordsAgree
<1>1. ObjectsInv => RecordsAgree
  BY ObjectsTypeOK, ObjectsMapsAgree DEF RecordsAgree
<1>2. QED
  BY <1>1, AlwaysObjects, PTL

\* destroy_device_objects and destroy_session_objects: whatever the application
\* created, referred to and destroyed before, each native call of a teardown
\* destroys only what exists, is the device's own and is no longer referred to,
\* nothing is left when a device goes, and nothing at all after the session.
THEOREM CleanTeardown == Spec => []TeardownIsClean
<1>1. ObjectsInv => TeardownIsClean
  BY DEF ObjectsInv, TeardownIsClean, TeardownIsOrderly, NothingLeaks
<1>2. QED
  BY <1>1, AlwaysObjects, PTL
=============================================================================
