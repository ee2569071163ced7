------------------------- MODULE Presentation_proofs -------------------------
(***************************************************************************)
(* Proofs about the Wayland relay and the surfaces: RelayAgrees for every  *)
(* instance, NoWindowLeftBehind and CloseIsOwn for a driver that does not  *)
(* return a surface's handle while the server is releasing it, and         *)
(* NativeAlive for an application that, besides, awaits a reply before it  *)
(* destroys a wl_surface.                                                  *)
(***************************************************************************)
EXTENDS Presentation, SequenceTheorems, WellFoundedInduction, TLAPS

Frame == [obj : Nat, new : Nat, iface : {r.new : r \in Requests},
          destructor : {r.destructor : r \in Requests}]
Event == [obj : Nat, event : UNION Range(Events), new : Nat, iface : {None, "wl_data_offer"}]

\* The ids given out by the application, and by the server.
ClientIds == 1 .. nextId - 1
ServerIds == FirstServerSideId .. next_server_side_id - 1

RelayTypes ==
  /\ nextId \in 2 .. MaxId + 1 /\ sent \in 0 .. MaxEvents
  /\ next_server_side_id \in FirstServerSideId .. FirstServerSideId + sent
  /\ link \in Seq(Frame) /\ frames \in Seq(Event)
  /\ running \in BOOLEAN /\ link_fd \in {"none", "open", "dropped"}

\* proxy_client's table has every object the application ever made.
ClientInv ==
  /\ ClientIds \subseteq DOMAIN client /\ DOMAIN client \subseteq ClientIds \cup ServerIds
  /\ \A o \in DOMAIN client \cap ServerIds : client[o] = "wl_data_offer"
  /\ \A o \in DOMAIN app : o \in DOMAIN client /\ app[o] = client[o]

\* The server's table says the same of the objects in both.
ServerInv ==
  /\ proxies = {o \in DOMAIN objects : objects[o].proxy}
  /\ \A o \in DOMAIN objects :
       /\ o \in ClientIds \cup ServerIds
       /\ objects[o].proxy = lookup_wl_interface(objects[o].iface)
       /\ o \in DOMAIN client => objects[o].iface = client[o]
       /\ o \in ServerIds => objects[o].iface = "wl_data_offer"

\* An object is made in the link before position i.
MadeBefore(o, i) == \E j \in 1 .. i - 1 : link[j].new = o

\* Requests on the way: of objects that the server has or will have by then,
\* that no earlier request destroys, in the order of the ids they give out.
LinkAt(i) ==
  /\ link[i].obj \in DOMAIN client
  /\ link[i].new = 0 => link[i].iface = None
  /\ link[i].new # 0 => /\ link[i].new \in ClientIds /\ client[link[i].new] = link[i].iface
                        /\ ~link[i].destructor /\ lookup_wl_interface(client[link[i].obj])
  /\ link[i].destructor => link[i].obj \notin DOMAIN app
  /\ link_fd # "dropped" => link[i].obj \in DOMAIN objects \/ MadeBefore(link[i].obj, i)
LinkOrder(i, j) ==
  /\ link[i].new # 0 /\ link[j].new # 0 => link[i].new < link[j].new
  /\ link[i].destructor => link[j].obj # link[i].obj
LinkInv ==
  /\ \A i \in 1 .. Len(link) : LinkAt(i)
  /\ \A j \in 1 .. Len(link) : \A i \in 1 .. j - 1 : LinkOrder(i, j)

\* What the application holds the server has, or will have.
HoldAt(o) ==
  /\ o \in ServerIds => o \in DOMAIN objects
  /\ link_fd # "dropped" => o \in DOMAIN objects \/ MadeBefore(o, Len(link) + 1)
HoldInv == \A o \in DOMAIN app : HoldAt(o)

\* Events on the way: of objects in proxy_client's table, and of kinds it knows;
\* an object they bring is new to it.
EventAt(i) ==
  /\ frames[i].obj \in ClientIds /\ find_message(client[frames[i].obj], frames[i].event)
  /\ frames[i].new # 0 =>
       /\ frames[i].new \in ServerIds \cap DOMAIN objects /\ frames[i].new \notin DOMAIN client
       /\ frames[i].iface = "wl_data_offer"
EventInv ==
  /\ \A i \in 1 .. Len(frames) : EventAt(i)
  /\ \A j \in 1 .. Len(frames) : \A i \in 1 .. j - 1 :
       frames[i].new # 0 => frames[i].new # frames[j].new

\* Where the server has come to a callback it has every older object that the
\* application holds.
Reached(c) == c \in ClientIds /\ \A o \in DOMAIN app : o < c => o \in DOMAIN objects
OrderInv ==
  /\ \A c \in DOMAIN objects \cap ClientIds : Reached(c)
  /\ \A c \in waiting \cup seen : Reached(c)
  /\ \A i \in 1 .. Len(frames) : frames[i].event = "done" => Reached(frames[i].obj)

\* No request on the way destroys o.
Untouched(o) == \A i \in 1 .. Len(link) : link[i].destructor => link[i].obj # o

\* What a step of the relay by itself keeps.
RelayKeeps ==
  /\ ClientIds' = ClientIds /\ DOMAIN client \subseteq DOMAIN client'
  /\ \A o \in DOMAIN client : client'[o] = client[o]
  /\ DOMAIN app \subseteq DOMAIN app'
  /\ \A o : Untouched(o) => Untouched(o)' /\ (o \in DOMAIN objects => o \in DOMAIN objects')

RelayInv ==
  /\ RelayTypes /\ ClientInv /\ ServerInv /\ LinkInv /\ HoldInv /\ EventInv /\ OrderInv
  /\ TablesAgree

-----------------------------------------------------------------------------
\* The sessions: calls and the handler.
Message == [op : {"create"}, surface : Nat, synced : BOOLEAN]
             \cup [op : {"destroy", "acquire"}, id : Nat]
Call == {Free} \cup [in : {"acquire"}]
          \cup [in : {"roundtrip"}, surface : Nat, callback : Nat]
          \cup [in : {"create"}, surface : Nat, synced : BOOLEAN]
Handler ==
  {Idle} \cup [at : {"found"}, target : Nat, synced : BOOLEAN]
    \cup [at : {"made", "discard"}, target : Windows]
    \cup [at : {"associate"}, target : Windows, surface : Handles]
    \cup [at : {"release"}, surface : Handles \cup {NoHandle}]
Creating == {"found", "made", "associate", "discard"}

SessionTypes ==
  /\ own \in BOOLEAN /\ calls \in [Sessions -> 0 .. MaxSurfaces]
  /\ blocked \in [Sessions -> Call] /\ requests \in [Sessions -> Seq(Message)]
  /\ handler \in [Sessions -> Handler] /\ open \in [Sessions -> BOOLEAN]
  /\ told \in [Sessions -> {"nothing", "VK_SUCCESS", "VK_ERROR_SURFACE_LOST_KHR"}]
  /\ surfaces \in [Sessions -> Seq(Handles \cup {NoHandle})]
  /\ DOMAIN held = Sessions
  /\ DOMAIN native \subseteq Handles
  /\ own_windows \subseteq Windows

\* An application waits for what it asked last; a handler that makes a surface
\* works on that.
RequestAt(s, i) ==
  requests[s][i].op # "destroy" =>
    /\ i = Len(requests[s]) /\ blocked[s].in = requests[s][i].op
    /\ handler[s].at \notin Creating
    /\ requests[s][i].op = "create" => /\ requests[s][i].surface = blocked[s].surface
                                       /\ requests[s][i].synced = blocked[s].synced
CallAt(s) ==
  /\ \A i \in 1 .. Len(requests[s]) : RequestAt(s, i)
  /\ handler[s].at \in Creating => blocked[s].in = "create" /\ requests[s] = <<>> /\ open[s]
  /\ Len(surfaces[s]) <= calls[s] /\ DOMAIN held[s] \subseteq 1 .. Len(surfaces[s])
  /\ blocked[s].in \in {"roundtrip", "create"} => Len(surfaces[s]) < calls[s]
CallInv == \A s \in Sessions : CallAt(s)

\* A slot is empty or names a live surface, and no other slot names it, nor does
\* a handler that has yet to register it.
SlotAt(s, i) ==
  surfaces[s][i] # NoHandle =>
    /\ surfaces[s][i] \in DOMAIN native
    /\ \A t \in Sessions : \A j \in 1 .. Len(surfaces[t]) :
         surfaces[t][j] = surfaces[s][i] => s = t /\ i = j
PendingAt(s) ==
  handler[s].at = "associate" =>
    /\ handler[s].surface \in DOMAIN native
    /\ \A t \in Sessions : \A j \in 1 .. Len(surfaces[t]) : surfaces[t][j] # handler[s].surface
    /\ \A t \in Sessions \ {s} :
         handler[t].at = "associate" => handler[t].surface # handler[s].surface
SlotInv ==
  \A s \in Sessions : PendingAt(s) /\ \A i \in 1 .. Len(surfaces[s]) : SlotAt(s, i)

\* Where surfaces are the relay's, only its application has any.
RoleAt(s) ==
  /\ ~own /\ s # App => /\ requests[s] = <<>> /\ handler[s] = Idle /\ blocked[s] = Free
                        /\ DOMAIN held[s] = {} /\ open[s]
  /\ own  => handler[s].at # "found" /\ blocked[s].in # "roundtrip"
  /\ ~own => handler[s].at \notin {"made", "associate", "discard"}
RoleInv == \A s \in Sessions : RoleAt(s)

\* The wl_surface of a call is held by the application, and once the roundtrip
\* has returned it is in the server's table.
RoundtripInv ==
  ~own =>
    LET b == blocked[App] IN
    /\ b.in \in {"roundtrip", "create"} =>
         b.surface \in DOMAIN app \cap ClientIds /\ app[b.surface] = "wl_surface"
    /\ b.in = "roundtrip" => b.surface < b.callback /\ b.callback \in ClientIds
    /\ b.in = "create" /\ b.synced => b.surface \in DOMAIN objects
    /\ handler[App].at = "found" =>
         /\ handler[App].target \in {0, b.surface}
         /\ handler[App].target # 0 => handler[App].target \in DOMAIN objects
         /\ handler[App].synced => handler[App].target # 0

PresentInv == SessionTypes /\ CallInv /\ SlotInv /\ RoleInv /\ RoundtripInv

-----------------------------------------------------------------------------
\* Windows, where the server opens them: a window belongs to one surface, to a
\* handler that has yet to make one, or to a handler that releases one.
Makers == {"made", "associate", "discard"}
NativeAt(h) ==
  native[h] \in own_windows /\ \A g \in DOMAIN native : native[h] = native[g] => h = g
Releasing(h) == \E s \in Sessions : handler[s].at = "release" /\ handler[s].surface = h
NamedAt(h) ==
  /\ h \in Handles /\ surface_windows[h] \in own_windows
  /\ h \in DOMAIN native => native[h] = surface_windows[h]
  /\ h \notin DOMAIN native =>
       Releasing(h) /\ \A g \in DOMAIN native : native[g] # surface_windows[h]
  /\ \A g \in DOMAIN surface_windows : surface_windows[g] = surface_windows[h] => g = h
MakerAt(s) ==
  handler[s].at \in Makers =>
    /\ handler[s].target \in own_windows
    /\ \A h \in DOMAIN surface_windows : surface_windows[h] # handler[s].target
    /\ \A t \in Sessions \ {s} :
         handler[t].at \in Makers => handler[t].target # handler[s].target
    /\ IF handler[s].at = "associate"
       THEN /\ handler[s].surface \in DOMAIN native
            /\ native[handler[s].surface] = handler[s].target
       ELSE \A h \in DOMAIN native : native[h] # handler[s].target
ReleaserAt(s) ==
  handler[s].at = "release" =>
    /\ handler[s].surface \notin DOMAIN native
    /\ handler[s].surface # NoHandle =>
         \A t \in Sessions \ {s} :
           handler[t].at = "release" => handler[t].surface # handler[s].surface
NamedSlots ==
  \A s \in Sessions : \A i \in 1 .. Len(surfaces[s]) :
    surfaces[s][i] # NoHandle => surfaces[s][i] \in DOMAIN surface_windows
\* A window is that of a live surface, or in the hands of a handler.
Owned(w) ==
  \/ \E h \in DOMAIN native : native[h] = w
  \/ \E s \in Sessions : handler[s].at \in Makers /\ handler[s].target = w
  \/ \E h \in DOMAIN surface_windows : surface_windows[h] = w /\ Releasing(h)

WindowInv ==
  /\ ~own => own_windows = {} /\ surface_windows = <<>>
  /\ own => /\ \A h \in DOMAIN native : NativeAt(h)
            /\ \A h \in DOMAIN surface_windows : NamedAt(h)
            /\ \A s \in Sessions : MakerAt(s) /\ ReleaserAt(s)
            /\ NamedSlots
            /\ \A w \in own_windows : Owned(w)

\* The wl_surfaces of live surfaces: in the server's table, never to be destroyed
\* by a request on the way, and held by the application or being released.
Carries(o) == o \in DOMAIN objects \cap ClientIds /\ client[o] = "wl_surface" /\ Untouched(o)
AskedToDestroy(id) ==
  \E i \in 1 .. Len(requests[App]) : requests[App][i].op = "destroy" /\ requests[App][i].id = id
KeptAt(id, h) ==
  /\ surfaces[App][id] = h
  /\ \/ ~open[App]
     \/ id \in DOMAIN held[App] /\ held[App][id] = native[h]
     \/ AskedToDestroy(id)
Kept(h) == \E id \in 1 .. Len(surfaces[App]) : KeptAt(id, h)
AliveInv == ~own => \A h \in DOMAIN native : Carries(native[h]) /\ Kept(h)

-----------------------------------------------------------------------------
(* Lemmas about the tables, the messages and the queues. *)

\* The events that the tables have.
LEMMA EventFacts ==
  ASSUME NEW i, NEW e
  PROVE  find_message(i, e) <=> \/ i = "wl_registry" /\ e = "global"
                                \/ i = "wl_surface" /\ e = "enter"
                                \/ i = "wl_callback" /\ e = "done"
                                \/ i = "wl_data_device" /\ e = "data_offer"
BY DEF find_message, Events

\* Only objects the server makes bring others, and a request either makes an
\* object or destroys one.
LEMMA RequestFacts ==
  ASSUME NEW r \in Requests
  PROVE  /\ r.new # None => ~r.destructor /\ lookup_wl_interface(r.iface)
         /\ r.iface = "optional" => r.new = None /\ ~r.destructor
<1>1. /\ r.new # None => ~r.destructor /\ r.iface \notin {"optional", "wl_fixes"}
      /\ r.iface = "optional" => r.new = None /\ ~r.destructor
  BY DEF Requests, Request, None
<1>2. QED
  BY <1>1 DEF lookup_wl_interface

LEMMA AppendFacts ==
  ASSUME NEW S, NEW q \in Seq(S), NEW e \in S
  PROVE  /\ Append(q, e) \in Seq(S) /\ Len(Append(q, e)) = Len(q) + 1
         /\ Append(q, e)[Len(q) + 1] = e
         /\ \A i \in 1 .. Len(q) : Append(q, e)[i] = q[i]
OBVIOUS

LEMMA TailFacts ==
  ASSUME NEW S, NEW q \in Seq(S), q # <<>>
  PROVE  /\ Tail(q) \in Seq(S) /\ Len(Tail(q)) = Len(q) - 1 /\ Len(q) \in Nat \ {0}
         /\ \A i \in 1 .. Len(Tail(q)) : Tail(q)[i] = q[i + 1]
         /\ Head(q) = q[1] /\ Head(q) \in S
OBVIOUS

LEMMA PrefixFacts ==
  ASSUME NEW S, NEW q \in Seq(S), NEW n \in 0 .. Len(q)
  PROVE  /\ SubSeq(q, 1, n) \in Seq(S) /\ Len(SubSeq(q, 1, n)) = n
         /\ \A i \in 1 .. n : SubSeq(q, 1, n)[i] = q[i]
OBVIOUS

\* What the types give the provers.
LEMMA RelayFacts ==
  ASSUME RelayInv
  PROVE  /\ MaxId \in Nat /\ MaxId >= 1 /\ MaxEvents \in Nat /\ FirstServerSideId = MaxId + 1
         /\ nextId \in Nat /\ nextId >= 2 /\ nextId <= MaxId + 1
         /\ sent \in Nat /\ sent <= MaxEvents
         /\ next_server_side_id \in Nat /\ next_server_side_id >= FirstServerSideId
         /\ next_server_side_id <= FirstServerSideId + sent
         /\ ClientIds \cap ServerIds = {} /\ ClientIds \subseteq Nat \ {0}
         /\ ServerIds \subseteq Nat \ {0}
BY WaylandAssumption DEF RelayInv, RelayTypes, FirstServerSideId, ClientIds, ServerIds

LEMMA RelayInit == WaylandInit => RelayInv
<1> SUFFICES ASSUME WaylandInit  PROVE RelayInv
  OBVIOUS
<1>1. RelayTypes
  BY WaylandAssumption DEF WaylandInit, RelayTypes, FirstServerSideId
<1>2. ClientIds = {1} /\ ServerIds = {}
  BY WaylandAssumption DEF WaylandInit, ClientIds, ServerIds, FirstServerSideId
<1>3. ClientInv /\ ServerInv
  BY <1>2 DEF WaylandInit, ClientInv, ServerInv, lookup_wl_interface
<1>4. LinkInv /\ EventInv
  BY DEF WaylandInit, LinkInv, EventInv
<1>5. HoldInv /\ OrderInv /\ TablesAgree
  BY <1>2 DEF WaylandInit, HoldInv, HoldAt, OrderInv, Reached, TablesAgree, None
<1>6. QED
  BY <1>1, <1>3, <1>4, <1>5 DEF RelayInv

\* The id of an object is below the next one.
LEMMA IdFacts ==
  ASSUME RelayInv
  PROVE  /\ \A x \in ClientIds : x \in Nat /\ x < nextId /\ x <= MaxId
         /\ \A x \in ServerIds : x \in Nat /\ x > MaxId /\ x < next_server_side_id
BY RelayFacts DEF ClientIds, ServerIds

\* The link, of length n, after a request m that proxy_client accepts.
LEMMA LinkAppended ==
  ASSUME RelayInv, NEW n, n = Len(link), NEW m \in Frame, link' = Append(link, m)
  PROVE  /\ link' \in Seq(Frame) /\ n \in Nat /\ Len(link') = n + 1 /\ link'[n + 1] = m
         /\ \A i \in 1 .. n : link'[i] = link[i]
         /\ \A i \in 1 .. n + 1 : \A x : MadeBefore(x, i) => MadeBefore(x, i)'
         /\ \A x : MadeBefore(x, n + 1) => MadeBefore(x, Len(link) + 1)'
         /\ MadeBefore(m.new, Len(link) + 1)'
<1>1. link \in Seq(Frame)
  BY DEF RelayInv, RelayTypes
<1>2. /\ link' \in Seq(Frame) /\ n \in Nat /\ Len(link') = n + 1 /\ link'[n + 1] = m
      /\ \A i \in 1 .. n : link'[i] = link[i]
  BY <1>1, AppendFacts
<1>3. ASSUME NEW i \in 1 .. n + 1, NEW x, MadeBefore(x, i)  PROVE MadeBefore(x, i)'
  <2>1. PICK j \in 1 .. i - 1 : link[j].new = x
    BY <1>3 DEF MadeBefore
  <2>2. j \in 1 .. n
    BY <1>2, <2>1
  <2>3. QED
    BY <1>2, <2>1, <2>2 DEF MadeBefore
<1>4. ASSUME NEW x, MadeBefore(x, n + 1)  PROVE MadeBefore(x, Len(link) + 1)'
  <2>1. PICK j \in 1 .. (n + 1) - 1 : link[j].new = x
    BY <1>4 DEF MadeBefore
  <2>2. j \in 1 .. n /\ j \in 1 .. (Len(link') + 1) - 1
    BY <1>2, <2>1
  <2>3. QED
    BY <1>2, <2>1, <2>2 DEF MadeBefore
<1>5. MadeBefore(m.new, Len(link) + 1)'
  <2>1. n + 1 \in 1 .. (Len(link') + 1) - 1
    BY <1>2
  <2>2. QED
    BY <1>2, <2>1 DEF MadeBefore
<1>6. QED
  BY <1>2, <1>3, <1>4, <1>5

\* Everything but the link and its state is as it was, and the link is no longer
\* or is closed.
LEMMA ExitStep ==
  ASSUME RelayInv, UNCHANGED <<appVars, client, link, frames, serverVars, sent>>,
         running' \in BOOLEAN, TablesAgree'
  PROVE  RelayInv' /\ RelayKeeps
<1>1. /\ UNCHANGED <<app, nextId, seen, client, link, frames, link_fd, objects, proxies, waiting,
                     next_server_side_id, sent>>
      /\ ClientIds' = ClientIds /\ ServerIds' = ServerIds
  BY DEF appVars, serverVars, ClientIds, ServerIds
<1>2. RelayTypes' /\ ClientInv' /\ ServerInv'
  BY <1>1 DEF RelayInv, RelayTypes, ClientInv, ServerInv
<1>3. \A i : LinkAt(i) => LinkAt(i)'
  BY <1>1 DEF LinkAt, MadeBefore
<1>4. \A i, j : LinkOrder(i, j) => LinkOrder(i, j)'
  BY <1>1 DEF LinkOrder
<1>5. LinkInv'
  BY <1>1, <1>3, <1>4 DEF RelayInv, LinkInv
<1>6. HoldInv'
  BY <1>1 DEF RelayInv, HoldInv, HoldAt, MadeBefore
<1>7. EventInv'
  BY <1>1 DEF RelayInv, EventInv, EventAt
<1>8. OrderInv'
  BY <1>1 DEF RelayInv, OrderInv, Reached
<1>9. RelayKeeps
  BY <1>1 DEF RelayKeeps, Untouched
<1>10. QED
  BY <1>9, <1>2, <1>5, <1>6, <1>7, <1>8 DEF RelayInv

\* A request that makes an object: it gets the next id.
LEMMA MakeStep ==
  ASSUME RelayInv, NEW o \in DOMAIN app, NEW iface, nextId <= MaxId, iface # None,
         NEW m \in Frame, m.obj = o, m.new = nextId, m.iface = iface, ~m.destructor,
         lookup_wl_interface(client[o]), link' = Append(link, m),
         app' = Put(app, nextId, iface), client' = Put(client, nextId, iface),
         nextId' = nextId + 1,
         UNCHANGED <<seen, frames, link_fd, objects, proxies, waiting, next_server_side_id,
                     sent, running, why>>
  PROVE  RelayInv'
<1>1. /\ DOMAIN app' = DOMAIN app \cup {nextId} /\ app'[nextId] = iface
      /\ \A x \in DOMAIN app : x # nextId => app'[x] = app[x]
  BY DEF Put
<1>2. /\ DOMAIN client' = DOMAIN client \cup {nextId} /\ client'[nextId] = iface
      /\ \A x \in DOMAIN client : x # nextId => client'[x] = client[x]
  BY DEF Put
<1>3. /\ ClientIds' = ClientIds \cup {nextId} /\ ServerIds' = ServerIds
      /\ nextId \notin ServerIds /\ nextId \notin ClientIds
  BY RelayFacts DEF ClientIds, ServerIds
<1>4. nextId \notin DOMAIN client /\ nextId \notin DOMAIN app /\ nextId \notin DOMAIN objects
  BY <1>3 DEF RelayInv, ClientInv, ServerInv
<1>5. PICK n : n = Len(link)
  OBVIOUS
<1>6. /\ link' \in Seq(Frame) /\ n \in Nat /\ Len(link') = n + 1 /\ link'[n + 1] = m
      /\ \A i \in 1 .. n : link'[i] = link[i]
      /\ \A i \in 1 .. n + 1 : \A x : MadeBefore(x, i) => MadeBefore(x, i)'
      /\ \A x : MadeBefore(x, n + 1) => MadeBefore(x, Len(link) + 1)'
      /\ MadeBefore(m.new, Len(link) + 1)'
  BY <1>5, LinkAppended
<1>7. RelayTypes'
  BY <1>6, RelayFacts DEF RelayInv, RelayTypes
<1>8. ClientInv'
  BY <1>1, <1>2, <1>3, <1>4 DEF RelayInv, ClientInv
<1>9. ServerInv'
  BY <1>2, <1>3, <1>4 DEF RelayInv, ServerInv
<1>10. ASSUME NEW i \in 1 .. n  PROVE LinkAt(i)'
  <2>1. LinkAt(i)
    BY <1>5 DEF RelayInv, LinkInv
  <2>2. link'[i] = link[i] /\ i \in 1 .. n + 1
    BY <1>6
  <2>3. /\ link[i].obj \in DOMAIN client' /\ client'[link[i].obj] = client[link[i].obj]
        /\ link[i].new # 0 => /\ link[i].new \in ClientIds'
                              /\ client'[link[i].new] = client[link[i].new]
    BY <1>2, <1>3, <1>4, <2>1 DEF LinkAt, RelayInv, ClientInv
  <2>4. link[i].destructor => link[i].obj \notin DOMAIN app'
    BY <1>1, <1>4, <2>1 DEF LinkAt
  <2>5. link_fd # "dropped" => link[i].obj \in DOMAIN objects' \/ MadeBefore(link[i].obj, i)'
    BY <1>6, <2>1, <2>2 DEF LinkAt
  <2>6. QED
    BY <2>1, <2>2, <2>3, <2>4, <2>5 DEF LinkAt
<1>11. LinkAt(n + 1)'
  <2>1. HoldAt(o) /\ n + 1 \in 1 .. n + 1
    BY <1>6 DEF RelayInv, HoldInv
  <2>2. link_fd' # "dropped" => o \in DOMAIN objects' \/ MadeBefore(o, n + 1)'
    BY <1>5, <1>6, <2>1 DEF HoldAt
  <2>3. o \in DOMAIN client /\ o # nextId
    BY <1>4 DEF RelayInv, ClientInv
  <2>4. /\ o \in DOMAIN client' /\ m.new # 0 /\ nextId \in ClientIds' /\ client'[nextId] = m.iface
        /\ lookup_wl_interface(client'[o])
    BY <1>2, <1>3, <2>3, RelayFacts
  <2>5. QED
    BY <1>6, <2>2, <2>4 DEF LinkAt
<1>12. ASSUME NEW j \in 1 .. n + 1, NEW i \in 1 .. j - 1  PROVE LinkOrder(i, j)'
  <2>1. i \in 1 .. n /\ link'[i] = link[i]
    BY <1>6
  <2>2. LinkAt(i)
    BY <1>5, <2>1 DEF RelayInv, LinkInv
  <2>3. CASE j = n + 1
    <3>1. link[i].destructor => link[i].obj # o
      BY <2>2 DEF LinkAt
    <3>2. link[i].new # 0 => link[i].new < nextId
      BY <2>2, IdFacts DEF LinkAt
    <3>3. QED
      BY <1>6, <2>1, <2>3, <3>1, <3>2 DEF LinkOrder
  <2>4. CASE j # n + 1
    <3>1. j \in 1 .. n /\ link'[j] = link[j]
      BY <1>6, <2>4
    <3>2. LinkOrder(i, j)
      BY <1>5, <3>1 DEF RelayInv, LinkInv
    <3>3. QED
      BY <2>1, <3>1, <3>2 DEF LinkOrder
  <2>5. QED
    BY <2>3, <2>4
<1>13. LinkInv'
  <2>1. \A i \in 1 .. n + 1 : LinkAt(i)'
    BY <1>6, <1>10, <1>11
  <2>2. QED
    BY <1>6, <1>12, <2>1 DEF LinkInv
<1>14. HoldInv'
  <2>1. ASSUME NEW x \in DOMAIN app'  PROVE HoldAt(x)'
    <3>1. CASE x = nextId
      BY <1>3, <1>6, <3>1 DEF HoldAt
    <3>2. CASE x # nextId
      <4>1. HoldAt(x)
        BY <1>1, <2>1, <3>2 DEF RelayInv, HoldInv
      <4>2. QED
        BY <1>3, <1>5, <1>6, <4>1 DEF HoldAt
    <3>3. QED
      BY <3>1, <3>2
  <2>2. QED
    BY <2>1 DEF HoldInv
<1>15. EventInv'
  <2>1. ASSUME NEW i, EventAt(i)  PROVE EventAt(i)'
    <3>1. frames[i].obj \in DOMAIN client /\ frames[i].obj # nextId
      BY <1>3, <2>1 DEF EventAt, RelayInv, ClientInv
    <3>2. QED
      BY <1>2, <1>3, <2>1, <3>1 DEF EventAt
  <2>2. QED
    BY <2>1 DEF RelayInv, EventInv
<1>16. OrderInv'
  <2>1. ASSUME NEW c, Reached(c)  PROVE Reached(c)'
    <3>1. c \in ClientIds' /\ ~(nextId < c)
      BY <1>3, <2>1, IdFacts, RelayFacts DEF Reached
    <3>2. QED
      BY <1>1, <2>1, <3>1 DEF Reached
  <2>2. DOMAIN objects' \cap ClientIds' = DOMAIN objects \cap ClientIds
    BY <1>3, <1>4
  <2>3. QED
    BY <2>1, <2>2 DEF RelayInv, OrderInv
<1>17. QED
  BY <1>7, <1>8, <1>9, <1>13, <1>14, <1>15, <1>16 DEF RelayInv, TablesAgree
\* A request that makes nothing: an object it destroys is no longer held.
LEMMA PlainStep ==
  ASSUME RelayInv, NEW o \in DOMAIN app,
         NEW m \in Frame, m.obj = o, m.new = 0, m.iface = None, link' = Append(link, m),
         DOMAIN app' \subseteq DOMAIN app, m.destructor => o \notin DOMAIN app',
         \A x \in DOMAIN app' : app'[x] = app[x],
         UNCHANGED <<client, nextId, seen, frames, link_fd, objects, proxies, waiting,
                     next_server_side_id, sent, running, why>>
  PROVE  RelayInv'
<1>1. ClientIds' = ClientIds /\ ServerIds' = ServerIds
  BY DEF ClientIds, ServerIds
<1>2. PICK n : n = Len(link)
  OBVIOUS
<1>3. /\ link' \in Seq(Frame) /\ n \in Nat /\ Len(link') = n + 1 /\ link'[n + 1] = m
      /\ \A i \in 1 .. n : link'[i] = link[i]
      /\ \A i \in 1 .. n + 1 : \A x : MadeBefore(x, i) => MadeBefore(x, i)'
      /\ \A x : MadeBefore(x, n + 1) => MadeBefore(x, Len(link) + 1)'
  BY <1>2, LinkAppended
<1>4. RelayTypes'
  BY <1>3 DEF RelayInv, RelayTypes
<1>5. ClientInv' /\ ServerInv'
  BY <1>1 DEF RelayInv, ClientInv, ServerInv
<1>6. ASSUME NEW i \in 1 .. n  PROVE LinkAt(i)'
  <2>1. LinkAt(i)
    BY <1>2 DEF RelayInv, LinkInv
  <2>2. link'[i] = link[i] /\ i \in 1 .. n + 1
    BY <1>3
  <2>3. link_fd # "dropped" => link[i].obj \in DOMAIN objects' \/ MadeBefore(link[i].obj, i)'
    BY <1>3, <2>1, <2>2 DEF LinkAt
  <2>4. QED
    BY <1>1, <2>1, <2>2, <2>3 DEF LinkAt
<1>7. LinkAt(n + 1)'
  <2>1. HoldAt(o) /\ n + 1 \in 1 .. n + 1
    BY <1>3 DEF RelayInv, HoldInv
  <2>2. link_fd' # "dropped" => o \in DOMAIN objects' \/ MadeBefore(o, n + 1)'
    BY <1>2, <1>3, <2>1 DEF HoldAt
  <2>3. o \in DOMAIN client
    BY DEF RelayInv, ClientInv
  <2>4. QED
    BY <1>3, <2>2, <2>3 DEF LinkAt
<1>8. ASSUME NEW j \in 1 .. n + 1, NEW i \in 1 .. j - 1  PROVE LinkOrder(i, j)'
  <2>1. i \in 1 .. n /\ link'[i] = link[i]
    BY <1>3
  <2>2. CASE j = n + 1
    <3>1. link[i].destructor => link[i].obj # o
      BY <1>2, <2>1 DEF RelayInv, LinkInv, LinkAt
    <3>2. QED
      BY <1>3, <2>1, <2>2, <3>1 DEF LinkOrder
  <2>3. CASE j # n + 1
    <3>1. j \in 1 .. n /\ link'[j] = link[j]
      BY <1>3, <2>3
    <3>2. LinkOrder(i, j)
      BY <1>2, <3>1 DEF RelayInv, LinkInv
    <3>3. QED
      BY <2>1, <3>1, <3>2 DEF LinkOrder
  <2>4. QED
    BY <2>2, <2>3
<1>9. LinkInv'
  <2>1. \A i \in 1 .. n + 1 : LinkAt(i)'
    BY <1>3, <1>6, <1>7
  <2>2. QED
    BY <1>3, <1>8, <2>1 DEF LinkInv
<1>10. HoldInv'
  <2>1. ASSUME NEW x \in DOMAIN app'  PROVE HoldAt(x)'
    <3>1. HoldAt(x)
      BY <2>1 DEF RelayInv, HoldInv
    <3>2. QED
      BY <1>1, <1>2, <1>3, <3>1 DEF HoldAt
  <2>2. QED
    BY <2>1 DEF HoldInv
<1>11. EventInv'
  BY <1>1 DEF RelayInv, EventInv, EventAt
<1>12. OrderInv'
  <2>1. ASSUME NEW c, Reached(c)  PROVE Reached(c)'
    BY <1>1, <2>1 DEF Reached
  <2>2. QED
    BY <1>1, <2>1 DEF RelayInv, OrderInv
<1>13. QED
  BY <1>4, <1>5, <1>9, <1>10, <1>11, <1>12 DEF RelayInv, TablesAgree

LEMMA AppRequestStep ==
  ASSUME RelayInv, NEW o, NEW r \in Requests, AppRequest(o, r)  PROVE RelayInv'
<1>1. PICK new : new = IF r.new = None THEN 0 ELSE nextId
  OBVIOUS
<1>2. PICK m : m = [obj |-> o, new |-> new, iface |-> r.new, destructor |-> r.destructor]
  OBVIOUS
<1>3. /\ running /\ o \in DOMAIN app /\ app[o] = r.iface /\ (r.new # None => nextId <= MaxId)
      /\ app' = IF r.destructor THEN Restrict(app, DOMAIN app \ {o})
                ELSE IF new # 0 THEN Put(app, new, r.new) ELSE app
      /\ nextId' = IF new # 0 THEN nextId + 1 ELSE nextId
      /\ Forward(m)
      /\ UNCHANGED <<seen, frames, sent, link_fd, objects, proxies, waiting, next_server_side_id>>
  BY <1>1, <1>2 DEF AppRequest, serverVars
<1>4. o \in DOMAIN client /\ client[o] = r.iface /\ o \in Nat \ {0}
  BY <1>3, RelayFacts DEF RelayInv, ClientInv
<1>5. /\ m \in Frame /\ m.obj = o /\ m.new = new /\ m.iface = r.new
      /\ m.destructor = r.destructor
  BY <1>1, <1>2, <1>4, RelayFacts DEF Frame
<1>6. CASE r.iface = "optional"
  <2>1. r.new = None /\ ~r.destructor /\ new = 0
    BY <1>1, <1>6, RequestFacts
  <2>2. UNCHANGED <<app, nextId, client, link>> /\ running' = FALSE
        /\ why' = IF why = None THEN "unsupported" ELSE why
    BY <1>3, <1>4, <1>5, <1>6, <2>1 DEF Forward, Exit, find_interface
  <2>3. TablesAgree'
    BY <2>2 DEF RelayInv, TablesAgree
  <2>4. QED
    BY <1>3, <2>2, <2>3, ExitStep DEF appVars, serverVars
<1>7. CASE r.iface # "optional" /\ r.new # None
  <2>1. new = nextId /\ new # 0 /\ ~r.destructor /\ lookup_wl_interface(r.iface)
    BY <1>1, <1>7, RequestFacts, RelayFacts
  <2>2. /\ client' = Put(client, nextId, r.new) /\ app' = Put(app, nextId, r.new)
        /\ link' = Append(link, m) /\ UNCHANGED <<running, why>>
    BY <1>3, <1>4, <1>5, <1>7, <2>1 DEF Forward, find_interface, track_object_lifetime
  <2>3. QED
    BY <1>3, <1>4, <1>5, <1>7, <2>1, <2>2, MakeStep
<1>8. CASE r.iface # "optional" /\ r.new = None
  <2>1. /\ new = 0 /\ UNCHANGED <<client, nextId, running, why>> /\ link' = Append(link, m)
    BY <1>1, <1>3, <1>4, <1>5, <1>8 DEF Forward, find_interface, track_object_lifetime
  <2>2. /\ DOMAIN app' \subseteq DOMAIN app /\ (r.destructor => o \notin DOMAIN app')
        /\ \A x \in DOMAIN app' : app'[x] = app[x]
    BY <1>3, <2>1 DEF Restrict
  <2>3. QED
    BY <1>3, <1>5, <1>8, <2>1, <2>2, PlainStep
<1>9. QED
  BY <1>6, <1>7, <1>8
\* Closing the link loses what is in it, and events that were not sent yet.
LEMMA DropStep ==
  ASSUME RelayInv, drop_link("client"),
         UNCHANGED <<appVars, clientVars, waiting, next_server_side_id, sent>>
  PROVE  RelayInv' /\ RelayKeeps
<1>0. frames \in Seq(Event) /\ Len(frames) \in Nat
  BY DEF RelayInv, RelayTypes
<1>1. PICK n \in Nat : n <= Len(frames) /\ frames' = SubSeq(frames, 1, n)
  BY <1>0 DEF drop_link
<1>2. /\ link_fd' = "dropped" /\ link' = <<>> /\ UNCHANGED <<objects, proxies>>
      /\ why' = IF why = None THEN "client" ELSE why
      /\ UNCHANGED <<app, nextId, seen, client, running, waiting, next_server_side_id, sent>>
      /\ ClientIds' = ClientIds /\ ServerIds' = ServerIds
  BY DEF drop_link, appVars, clientVars, ClientIds, ServerIds
<1>3. /\ frames' \in Seq(Event) /\ Len(frames') = n /\ Len(frames) \in Nat
      /\ \A i \in 1 .. n : frames'[i] = frames[i] /\ i \in 1 .. Len(frames)
  <2>1. /\ frames' \in Seq(Event) /\ Len(frames') = n
        /\ \A i \in 1 .. n : frames'[i] = frames[i]
    BY <1>0, <1>1, PrefixFacts
  <2>2. \A i \in 1 .. n : i \in 1 .. Len(frames)
    BY <1>0, <1>1
  <2>3. QED
    BY <1>0, <2>1, <2>2
<1>4. RelayTypes' /\ TablesAgree'
  <2>1. link' \in Seq(Frame)
    BY <1>2
  <2>2. RelayTypes'
    BY <1>2, <1>3, <2>1 DEF RelayInv, RelayTypes
  <2>3. TablesAgree'
    BY <1>2 DEF RelayInv, TablesAgree
  <2>4. QED
    BY <2>2, <2>3
<1>5. ClientInv' /\ ServerInv'
  BY <1>2 DEF RelayInv, ClientInv, ServerInv
<1>6. LinkInv'
  <2>1. 1 .. Len(link') = {}
    BY <1>2
  <2>2. QED
    BY <2>1 DEF LinkInv
<1>7. HoldInv'
  BY <1>2 DEF RelayInv, HoldInv, HoldAt
<1>8. EventInv'
  <2>1. ASSUME NEW i \in 1 .. n  PROVE EventAt(i)'
    BY <1>2, <1>3 DEF RelayInv, EventInv, EventAt
  <2>2. ASSUME NEW j \in 1 .. n, NEW i \in 1 .. j - 1
        PROVE  frames'[i].new # 0 => frames'[i].new # frames'[j].new
    <3>1. i \in 1 .. n
      BY <1>3
    <3>2. QED
      BY <1>3, <3>1 DEF RelayInv, EventInv
  <2>3. QED
    BY <1>3, <2>1, <2>2 DEF EventInv
<1>9. OrderInv'
  <2>1. \A c : Reached(c) => Reached(c)'
    BY <1>2 DEF Reached
  <2>2. ASSUME NEW i \in 1 .. n, frames'[i].event = "done"  PROVE Reached(frames[i].obj)'
    <3>1. PICK c : c = frames[i].obj
      OBVIOUS
    <3>2. Reached(c)
      BY <1>3, <2>2, <3>1 DEF RelayInv, OrderInv
    <3>3. QED
      BY <1>3, <2>1, <3>1, <3>2
  <2>3. QED
    BY <1>2, <1>3, <2>1, <2>2 DEF RelayInv, OrderInv
<1>10. RelayKeeps
  BY <1>2 DEF RelayKeeps, Untouched
<1>11. QED
  BY <1>10, <1>4, <1>5, <1>6, <1>7, <1>8, <1>9 DEF RelayInv

LEMMA AcceptStep ==
  ASSUME RelayInv, accept_link  PROVE RelayInv' /\ RelayKeeps
<1>1. /\ link_fd = "none" /\ link_fd' = "open"
      /\ UNCHANGED <<app, nextId, seen, client, running, link, frames, objects, proxies, waiting,
                     next_server_side_id, sent, why>>
      /\ ClientIds' = ClientIds /\ ServerIds' = ServerIds
  BY DEF accept_link, appVars, clientVars, ClientIds, ServerIds
<1>2. RelayTypes' /\ ClientInv' /\ ServerInv' /\ TablesAgree'
  BY <1>1 DEF RelayInv, RelayTypes, ClientInv, ServerInv, TablesAgree
<1>3. \A i : LinkAt(i) => LinkAt(i)'
  BY <1>1 DEF LinkAt, MadeBefore
<1>4. \A i, j : LinkOrder(i, j) => LinkOrder(i, j)'
  BY <1>1 DEF LinkOrder
<1>5. LinkInv'
  BY <1>1, <1>3, <1>4 DEF RelayInv, LinkInv
<1>6. HoldInv'
  BY <1>1 DEF RelayInv, HoldInv, HoldAt, MadeBefore
<1>7. EventInv' /\ OrderInv'
  BY <1>1 DEF RelayInv, EventInv, EventAt, OrderInv, Reached
<1>8. RelayKeeps
  BY <1>1 DEF RelayKeeps, Untouched
<1>9. QED
  BY <1>8, <1>2, <1>5, <1>6, <1>7 DEF RelayInv

\* An event reaches the application: its object is in proxy_client's table, and an
\* object it brings is entered there.
LEMMA ClientEventStep ==
  ASSUME RelayInv, ClientEvent  PROVE RelayInv' /\ RelayKeeps
<1>1. PICK m : m = Head(frames)
  OBVIOUS
<1>2. /\ frames \in Seq(Event) /\ frames # <<>> /\ frames' = Tail(frames)
      /\ UNCHANGED <<nextId, link, link_fd, objects, proxies, waiting, next_server_side_id, sent>>
      /\ ClientIds' = ClientIds /\ ServerIds' = ServerIds
  BY DEF ClientEvent, RelayInv, RelayTypes, serverVars, ClientIds, ServerIds
<1>3. PICK n : n = Len(frames)
  OBVIOUS
<1>4. /\ n \in Nat \ {0} /\ frames' \in Seq(Event) /\ Len(frames') = n - 1
      /\ \A i \in 1 .. n - 1 : frames'[i] = frames[i + 1] /\ i + 1 \in 1 .. n
      /\ m = frames[1] /\ m \in Event /\ 1 \in 1 .. n
  BY <1>1, <1>2, <1>3, TailFacts
<1>5. EventAt(1)
  BY <1>3, <1>4 DEF RelayInv, EventInv
<1>6. /\ m.obj \in ClientIds /\ find_message(client[m.obj], m.event) /\ m.obj \in DOMAIN client
      /\ m.new # 0 => /\ m.new \in ServerIds \cap DOMAIN objects /\ m.new \notin DOMAIN client
                      /\ m.iface = "wl_data_offer"
  BY <1>4, <1>5 DEF EventAt, RelayInv, ClientInv
<1>7. /\ client' = IF m.new # 0 THEN Put(client, m.new, m.iface) ELSE client
      /\ app' = IF m.new # 0 /\ m.obj \in DOMAIN app THEN Put(app, m.new, m.iface) ELSE app
      /\ seen' = IF m.event = "done" THEN seen \cup {m.obj} ELSE seen
      /\ UNCHANGED <<running, why>>
  BY <1>1, <1>6 DEF ClientEvent, track_object_lifetime
<1>8. RelayTypes' /\ TablesAgree'
  BY <1>2, <1>4, <1>7 DEF RelayInv, RelayTypes, TablesAgree
<1>9. /\ DOMAIN client \subseteq DOMAIN client'
      /\ \A x \in DOMAIN client : client'[x] = client[x]
      /\ \A x \in DOMAIN client' : x \notin DOMAIN client =>
           x = m.new /\ x \in ServerIds \cap DOMAIN objects /\ client'[x] = "wl_data_offer"
  BY <1>6, <1>7 DEF Put
<1>10. /\ DOMAIN app \subseteq DOMAIN app' /\ DOMAIN app' \subseteq DOMAIN client'
       /\ \A x \in DOMAIN app' : app'[x] = client'[x]
       /\ \A x \in DOMAIN app' : x \notin DOMAIN app =>
            x = m.new /\ x \in ServerIds \cap DOMAIN objects /\ x \notin DOMAIN client
  BY <1>6, <1>7 DEF Put, RelayInv, ClientInv
<1>11. ClientInv'
  BY <1>2, <1>9, <1>10 DEF RelayInv, ClientInv
<1>12. ServerInv'
  BY <1>2, <1>9 DEF RelayInv, ServerInv
<1>13. LinkInv'
  <2>1. ASSUME NEW i \in 1 .. Len(link)  PROVE LinkAt(i)'
    <3>1. LinkAt(i)
      BY DEF RelayInv, LinkInv
    <3>2. link[i].new # 0 => link[i].new \in DOMAIN client
      BY <3>1 DEF LinkAt, RelayInv, ClientInv
    <3>3. link[i].destructor => link[i].obj \notin DOMAIN app'
      BY <1>10, <3>1 DEF LinkAt
    <3>4. link_fd # "dropped" => link[i].obj \in DOMAIN objects' \/ MadeBefore(link[i].obj, i)'
      BY <1>2, <3>1 DEF LinkAt, MadeBefore
    <3>5. QED
      BY <1>2, <1>9, <3>1, <3>2, <3>3, <3>4 DEF LinkAt
  <2>2. \A i, j : LinkOrder(i, j) => LinkOrder(i, j)'
    BY <1>2 DEF LinkOrder
  <2>3. QED
    BY <1>2, <2>1, <2>2 DEF RelayInv, LinkInv
<1>14. HoldInv'
  <2>1. ASSUME NEW x \in DOMAIN app'  PROVE HoldAt(x)'
    <3>1. CASE x \in DOMAIN app
      <4>1. HoldAt(x)
        BY <3>1 DEF RelayInv, HoldInv
      <4>2. QED
        BY <1>2, <4>1 DEF HoldAt, MadeBefore
    <3>2. CASE x \notin DOMAIN app
      BY <1>2, <1>10, <2>1, <3>2 DEF HoldAt
    <3>3. QED
      BY <3>1, <3>2
  <2>2. QED
    BY <2>1 DEF HoldInv
<1>15. EventInv'
  <2>1. ASSUME NEW i \in 1 .. n - 1  PROVE EventAt(i)'
    <3>1. EventAt(i + 1) /\ frames'[i] = frames[i + 1]
      BY <1>3, <1>4 DEF RelayInv, EventInv
    <3>2. m.new # 0 => m.new # frames[i + 1].new
      <4>1. i + 1 \in 1 .. Len(frames) /\ 1 \in 1 .. (i + 1) - 1
        BY <1>3, <1>4
      <4>2. QED
        BY <1>4, <4>1 DEF RelayInv, EventInv
    <3>3. frames[i + 1].obj \in DOMAIN client
      BY <3>1 DEF EventAt, RelayInv, ClientInv
    <3>4. frames[i + 1].new # 0 => frames[i + 1].new \notin DOMAIN client'
      BY <1>9, <3>1, <3>2 DEF EventAt
    <3>5. QED
      BY <1>2, <1>9, <3>1, <3>3, <3>4 DEF EventAt
  <2>2. ASSUME NEW j \in 1 .. n - 1, NEW i \in 1 .. j - 1
        PROVE  frames'[i].new # 0 => frames'[i].new # frames'[j].new
    <3>1. i \in 1 .. n - 1 /\ j + 1 \in 1 .. Len(frames) /\ i + 1 \in 1 .. (j + 1) - 1
      BY <1>3, <1>4
    <3>2. QED
      BY <1>4, <3>1 DEF RelayInv, EventInv
  <2>3. QED
    BY <1>4, <2>1, <2>2 DEF EventInv
<1>16. OrderInv'
  <2>1. ASSUME NEW c, Reached(c)  PROVE Reached(c)'
    <3>1. \A x \in ServerIds : ~(x < c)
      BY <2>1, IdFacts, RelayFacts DEF Reached
    <3>2. QED
      BY <1>2, <1>10, <2>1, <3>1 DEF Reached
  <2>2. m.event = "done" => Reached(m.obj)
    BY <1>3, <1>4 DEF RelayInv, OrderInv
  <2>3. ASSUME NEW i \in 1 .. n - 1, frames'[i].event = "done"  PROVE Reached(frames[i].obj)'
    <3>1. Reached(frames[i + 1].obj)
      BY <1>3, <1>4, <2>3 DEF RelayInv, OrderInv
    <3>2. PICK c : c = frames[i + 1].obj
      OBVIOUS
    <3>3. Reached(c)'
      BY <2>1, <3>1, <3>2
    <3>4. QED
      BY <1>4, <3>2, <3>3
  <2>4. \A c \in waiting' \cup seen' : Reached(c)
    BY <1>2, <1>7, <2>2 DEF RelayInv, OrderInv
  <2>5. \A c \in DOMAIN objects' \cap ClientIds' : Reached(c)
    BY <1>2 DEF RelayInv, OrderInv
  <2>6. QED
    BY <1>4, <2>1, <2>3, <2>4, <2>5 DEF OrderInv
<1>17. RelayKeeps
  BY <1>2, <1>9, <1>10 DEF RelayKeeps, Untouched
<1>18. QED
  BY <1>17, <1>8, <1>11, <1>12, <1>13, <1>14, <1>15, <1>16 DEF RelayInv
\* The server takes a request off the link: what it is made on is in the table.
LEMMA FrameStep ==
  ASSUME RelayInv, handle_request_frame  PROVE RelayInv' /\ RelayKeeps
<1>1. PICK m : m = Head(link)
  OBVIOUS
<1>2. /\ link \in Seq(Frame) /\ link # <<>> /\ link_fd = "open"
      /\ UNCHANGED <<app, nextId, seen, client, running, next_server_side_id, sent>>
      /\ ClientIds' = ClientIds /\ ServerIds' = ServerIds
  BY DEF handle_request_frame, RelayInv, RelayTypes, appVars, clientVars, ClientIds, ServerIds
<1>3. PICK n : n = Len(link)
  OBVIOUS
<1>4. /\ n \in Nat \ {0} /\ m = link[1] /\ m \in Frame /\ 1 \in 1 .. n
      /\ Tail(link) \in Seq(Frame) /\ Len(Tail(link)) = n - 1
      /\ \A i \in 1 .. n - 1 : Tail(link)[i] = link[i + 1] /\ i + 1 \in 1 .. n
  BY <1>1, <1>2, <1>3, TailFacts
<1>5. LinkAt(1)
  BY <1>3, <1>4 DEF RelayInv, LinkInv
<1>6. /\ m.obj \in DOMAIN client /\ m.obj \in DOMAIN objects
      /\ m.new = 0 => m.iface = None
      /\ m.new # 0 => /\ m.new \in ClientIds /\ client[m.new] = m.iface /\ ~m.destructor
                      /\ lookup_wl_interface(client[m.obj])
      /\ m.destructor => m.obj \notin DOMAIN app
  <2>1. ~MadeBefore(m.obj, 1)
    BY DEF MadeBefore
  <2>2. QED
    BY <1>2, <1>4, <1>5, <2>1 DEF LinkAt
<1>7. objects[m.obj].proxy = lookup_wl_interface(objects[m.obj].iface)
      /\ objects[m.obj].iface = client[m.obj]
  BY <1>6 DEF RelayInv, ServerInv
<1>8. /\ link' = Tail(link)
      /\ objects' = IF objects[m.obj].proxy THEN Registered(m)
                    ELSE IF m.destructor THEN Restrict(objects, DOMAIN objects \ {m.obj})
                    ELSE objects
      /\ proxies' = IF objects[m.obj].proxy THEN MadeProxies(m) ELSE proxies
      /\ waiting' = IF m.iface = "wl_callback" THEN waiting \cup {m.new} ELSE waiting
      /\ UNCHANGED <<link_fd, frames, why>>
  BY <1>1, <1>6 DEF handle_request_frame
\* the table: an object more, an object less, or the same
<1>9. /\ DOMAIN objects' = (DOMAIN objects \cup (IF m.new # 0 THEN {m.new} ELSE {}))
                             \ (IF m.destructor THEN {m.obj} ELSE {})
      /\ \A x \in DOMAIN objects' : x # m.new \/ m.new = 0 => objects'[x] = objects[x]
      /\ m.new # 0 => objects'[m.new] = [iface |-> m.iface, proxy |-> lookup_wl_interface(m.iface)]
  <2>1. CASE m.new # 0
    <3>1. objects' = Put(objects, m.new, [iface |-> m.iface, proxy |-> lookup_wl_interface(m.iface)])
      BY <1>6, <1>7, <1>8, <2>1 DEF Registered
    <3>2. QED
      BY <1>6, <2>1, <3>1 DEF Put
  <2>2. CASE m.new = 0 /\ m.destructor
    <3>1. objects' = Restrict(objects, DOMAIN objects \ {m.obj})
      BY <1>8, <2>2 DEF Registered
    <3>2. QED
      BY <2>2, <3>1 DEF Restrict
  <2>3. CASE m.new = 0 /\ ~m.destructor
    <3>1. objects' = objects
      BY <1>8, <2>3 DEF Registered
    <3>2. QED
      BY <2>3, <3>1
  <2>4. QED
    BY <2>1, <2>2, <2>3
<1>10. ServerInv'
  <2>1. proxies = {x \in DOMAIN objects : objects[x].proxy}
    BY DEF RelayInv, ServerInv
  <2>2. m.new # 0 /\ m.new \in DOMAIN objects =>
          (objects[m.new].proxy <=> lookup_wl_interface(m.iface))
    BY <1>6 DEF RelayInv, ServerInv, ClientInv
  <2>3. proxies' = {x \in DOMAIN objects' : objects'[x].proxy}
    <3>1. CASE m.new # 0
      <4>1. proxies' = proxies \cup (IF lookup_wl_interface(m.iface) THEN {m.new} ELSE {})
        BY <1>6, <1>7, <1>8, <3>1 DEF MadeProxies
      <4>2. /\ objects'[m.new].proxy <=> lookup_wl_interface(m.iface)
            /\ DOMAIN objects' = DOMAIN objects \cup {m.new}
            /\ \A x \in DOMAIN objects : x # m.new => objects'[x] = objects[x]
        BY <1>6, <1>9, <3>1
      <4>3. ASSUME NEW x  PROVE x \in proxies' <=> x \in DOMAIN objects' /\ objects'[x].proxy
        <5>1. CASE x = m.new
          <6>1. m.new \in proxies => lookup_wl_interface(m.iface)
            BY <2>1, <2>2, <3>1
          <6>2. m.new \in proxies' <=> lookup_wl_interface(m.iface)
            BY <4>1, <6>1
          <6>3. m.new \in DOMAIN objects'
            BY <4>2
          <6>4. QED
            BY <4>2, <5>1, <6>2, <6>3
        <5>2. CASE x # m.new
          BY <2>1, <4>1, <4>2, <5>2
        <5>3. QED
          BY <5>1, <5>2
      <4>4. QED
        BY <4>3
    <3>2. CASE m.new = 0
      <4>1. proxies' = proxies \ (IF m.destructor THEN {m.obj} ELSE {})
        BY <1>8, <2>1, <3>2 DEF MadeProxies
      <4>2. QED
        BY <1>9, <2>1, <3>2, <4>1
    <3>3. QED
      BY <3>1, <3>2
  <2>4. ASSUME NEW x \in DOMAIN objects'
        PROVE  /\ x \in ClientIds \cup ServerIds
               /\ objects'[x].proxy = lookup_wl_interface(objects'[x].iface)
               /\ x \in DOMAIN client => objects'[x].iface = client[x]
               /\ x \in ServerIds => objects'[x].iface = "wl_data_offer"
    <3>1. CASE x = m.new /\ m.new # 0
      <4>1. x \notin ServerIds
        BY <1>6, <3>1, RelayFacts
      <4>2. QED
        BY <1>6, <1>9, <3>1, <4>1
    <3>2. CASE x # m.new \/ m.new = 0
      <4>1. x \in DOMAIN objects /\ objects'[x] = objects[x]
        BY <1>9, <2>4, <3>2
      <4>2. QED
        BY <4>1 DEF RelayInv, ServerInv
    <3>3. QED
      BY <3>1, <3>2
  <2>5. QED
    BY <1>2, <2>3, <2>4 DEF ServerInv
<1>11. RelayTypes' /\ TablesAgree' /\ ClientInv'
  BY <1>2, <1>4, <1>8 DEF RelayInv, RelayTypes, TablesAgree, ClientInv
\* what is in the table stays there unless the request destroys it
<1>12. \A x : x \in DOMAIN objects /\ (m.destructor => x # m.obj) => x \in DOMAIN objects'
  BY <1>9
<1>13. ASSUME NEW x, x # 0, m.destructor => x # m.obj, NEW i \in 1 .. n, NEW k, k = i + 1,
              x \in DOMAIN objects \/ MadeBefore(x, k)
       PROVE  x \in DOMAIN objects' \/ MadeBefore(x, i)'
  <2>1. CASE x \in DOMAIN objects
    BY <1>12, <1>13, <2>1
  <2>2. CASE MadeBefore(x, k)
    <3>1. PICK j \in 1 .. k - 1 : link[j].new = x
      BY <2>2 DEF MadeBefore
    <3>2. CASE j = 1
      BY <1>4, <1>6, <1>9, <1>13, <3>1, <3>2
    <3>3. CASE j # 1
      <4>1. j - 1 \in 1 .. n - 1 /\ j - 1 \in 1 .. i - 1 /\ (j - 1) + 1 = j
        BY <1>4, <1>13, <3>1, <3>3
      <4>2. link'[j - 1].new = x
        BY <1>4, <1>8, <3>1, <4>1
      <4>3. QED
        BY <4>1, <4>2 DEF MadeBefore
    <3>4. QED
      BY <3>2, <3>3
  <2>3. QED
    BY <1>13, <2>1, <2>2
<1>14. LinkInv'
  <2>1. ASSUME NEW i \in 1 .. n - 1  PROVE LinkAt(i)'
    <3>1. LinkAt(i + 1) /\ LinkOrder(1, i + 1) /\ i \in 1 .. n
      <4>1. i + 1 \in 1 .. Len(link) /\ 1 \in 1 .. (i + 1) - 1
        BY <1>3, <1>4
      <4>2. QED
        BY <1>4, <4>1 DEF RelayInv, LinkInv
    <3>2. PICK x : x = link[i + 1].obj
      OBVIOUS
    <3>3. x # 0 /\ (m.destructor => x # m.obj)
      BY <1>4, <3>1, <3>2, RelayFacts DEF LinkAt, LinkOrder, RelayInv, ClientInv
    <3>4. x \in DOMAIN objects \/ MadeBefore(x, i + 1)
      BY <1>2, <3>1, <3>2 DEF LinkAt
    <3>5. x \in DOMAIN objects' \/ MadeBefore(x, i)'
      BY <1>13, <3>1, <3>3, <3>4
    <3>6. link'[i] = link[i + 1]
      BY <1>4, <1>8
    <3>7. link_fd' # "dropped" => link'[i].obj \in DOMAIN objects' \/ MadeBefore(link[i].obj, i)'
      BY <3>2, <3>5, <3>6
    <3>8. QED
      BY <1>2, <3>1, <3>6, <3>7 DEF LinkAt
  <2>2. ASSUME NEW j \in 1 .. n - 1, NEW i \in 1 .. j - 1  PROVE LinkOrder(i, j)'
    <3>1. i \in 1 .. n - 1 /\ j + 1 \in 1 .. Len(link) /\ i + 1 \in 1 .. (j + 1) - 1
      BY <1>3, <1>4
    <3>2. LinkOrder(i + 1, j + 1)
      BY <3>1 DEF RelayInv, LinkInv
    <3>3. QED
      BY <1>4, <1>8, <3>1, <3>2 DEF LinkOrder
  <2>3. Len(link') = n - 1
    BY <1>4, <1>8
  <2>4. QED
    BY <2>1, <2>2, <2>3 DEF LinkInv
<1>15. HoldInv'
  <2>1. ASSUME NEW x \in DOMAIN app'  PROVE HoldAt(x)'
    <3>1. HoldAt(x) /\ x \in DOMAIN app /\ x # 0 /\ (m.destructor => x # m.obj)
      BY <1>2, <1>6, <2>1, RelayFacts DEF RelayInv, HoldInv, ClientInv
    <3>2. x \in DOMAIN objects \/ MadeBefore(x, n + 1)
      BY <1>2, <1>3, <3>1 DEF HoldAt
    <3>3. x \in DOMAIN objects' \/ MadeBefore(x, n)'
      BY <1>4, <1>13, <3>1, <3>2
    <3>4. Len(link') + 1 = n
      BY <1>4, <1>8
    <3>5. x \in ServerIds => x \in DOMAIN objects'
      BY <1>12, <3>1 DEF HoldAt
    <3>6. QED
      BY <1>2, <3>3, <3>4, <3>5 DEF HoldAt, MadeBefore
  <2>2. QED
    BY <2>1 DEF HoldInv
<1>16. EventInv'
  <2>1. ASSUME NEW i, EventAt(i)  PROVE EventAt(i)'
    <3>1. frames[i].new # 0 => frames[i].new # m.obj
      BY <1>6, <2>1 DEF EventAt
    <3>2. QED
      BY <1>2, <1>8, <1>12, <2>1, <3>1 DEF EventAt
  <2>2. QED
    BY <1>8, <2>1 DEF RelayInv, EventInv
<1>17. OrderInv'
  <2>1. ASSUME NEW c, Reached(c)  PROVE Reached(c)'
    BY <1>2, <1>6, <1>12, <2>1 DEF Reached
  <2>2. m.new # 0 => Reached(m.new)'
    <3>1. SUFFICES ASSUME m.new # 0, NEW x \in DOMAIN app, x < m.new  PROVE x \in DOMAIN objects
      BY <1>2, <1>6, <1>12 DEF Reached
    <3>2. SUFFICES ASSUME MadeBefore(x, n + 1)  PROVE FALSE
      BY <1>2, <1>3 DEF RelayInv, HoldInv, HoldAt
    <3>3. PICK j \in 1 .. (n + 1) - 1 : link[j].new = x
      BY <3>2 DEF MadeBefore
    <3>4. x \in Nat \ {0} /\ m.new \in Nat
      BY <1>4, <3>1, RelayFacts DEF RelayInv, ClientInv, Frame
    <3>5. j \in 1 .. n /\ j # 1
      BY <1>4, <3>1, <3>3, <3>4
    <3>6. LinkOrder(1, j)
      <4>1. j \in 1 .. Len(link) /\ 1 \in 1 .. j - 1
        BY <1>3, <1>4, <3>5
      <4>2. QED
        BY <4>1 DEF RelayInv, LinkInv
    <3>7. QED
      BY <1>4, <3>1, <3>3, <3>4, <3>6 DEF LinkOrder
  <2>3. \A c \in DOMAIN objects' \cap ClientIds' : Reached(c) \/ (m.new # 0 /\ c = m.new)
    BY <1>2, <1>9 DEF RelayInv, OrderInv
  <2>4. \A c \in waiting' \cup seen' : Reached(c) \/ (m.new # 0 /\ c = m.new)
    BY <1>2, <1>6, <1>8 DEF RelayInv, OrderInv, None
  <2>5. \A i \in 1 .. Len(frames') : frames'[i].event = "done" => Reached(frames[i].obj)
    BY <1>8 DEF RelayInv, OrderInv
  <2>6. \A c : Reached(c) \/ (m.new # 0 /\ c = m.new) => Reached(c)'
    BY <2>1, <2>2
  <2>7. ASSUME NEW i \in 1 .. Len(frames'), frames'[i].event = "done"  PROVE Reached(frames[i].obj)'
    <3>1. PICK c : c = frames[i].obj
      OBVIOUS
    <3>2. QED
      BY <1>8, <2>1, <2>5, <2>7, <3>1
  <2>8. QED
    BY <2>3, <2>4, <2>6, <2>7 DEF OrderInv
<1>18. RelayKeeps
  <2>1. ASSUME NEW o, Untouched(o)  PROVE m.destructor => o # m.obj
    BY <1>3, <1>4, <2>1 DEF Untouched
  <2>2. ASSUME NEW o, Untouched(o)  PROVE Untouched(o)'
    BY <1>3, <1>4, <1>8, <2>2 DEF Untouched
  <2>3. QED
    BY <1>2, <1>12, <2>1, <2>2 DEF RelayKeeps
<1>19. QED
  BY <1>18, <1>10, <1>11, <1>14, <1>15, <1>16, <1>17 DEF RelayInv
\* The compositor sends an event, to an object that the application made.
LEMMA DispatchStep ==
  ASSUME RelayInv, NEW o \in proxies, NEW e \in UNION Range(Events), generic_dispatcher(o, e)
  PROVE  RelayInv' /\ RelayKeeps
<1>1. PICK new : new = IF e = "data_offer" THEN next_server_side_id ELSE 0
  OBVIOUS
<1>2. PICK m : m = [obj |-> o, event |-> e, new |-> new,
                    iface |-> IF new = 0 THEN None ELSE "wl_data_offer"]
  OBVIOUS
<1>3. /\ sent < MaxEvents /\ find_message(objects[o].iface, e) /\ (e = "done" => o \in waiting)
      /\ waiting' = waiting \ {o} /\ sent' = sent + 1
      /\ objects' = IF new = 0 THEN objects
                    ELSE Put(objects, new, [iface |-> "wl_data_offer", proxy |-> TRUE])
      /\ proxies' = IF new = 0 THEN proxies ELSE proxies \cup {new}
      /\ next_server_side_id' = IF new = 0 THEN next_server_side_id ELSE new + 1
      /\ frames' = Append(frames, m)
      /\ UNCHANGED <<app, nextId, seen, client, running, link, link_fd, why>>
      /\ ClientIds' = ClientIds
  BY <1>1, <1>2 DEF generic_dispatcher, appVars, clientVars, ClientIds
<1>4. o \in DOMAIN objects /\ objects[o].iface # "wl_data_offer"
  BY <1>3, EventFacts DEF RelayInv, ServerInv
<1>5. o \in ClientIds /\ o \in DOMAIN client /\ client[o] = objects[o].iface /\ o \in Nat
  BY <1>4, RelayFacts DEF RelayInv, ServerInv, ClientInv
<1>6. /\ m.obj = o /\ m.event = e /\ m.new = new /\ (new # 0 => m.iface = "wl_data_offer")
      /\ new \in Nat /\ (new # 0 => new = next_server_side_id)
      /\ m \in Event
  BY <1>1, <1>2, <1>5, RelayFacts DEF Event
<1>7. /\ ServerIds \subseteq ServerIds' /\ new \notin ServerIds /\ new \notin ClientIds
      /\ new # 0 => ServerIds' = ServerIds \cup {new}
      /\ new = 0 => ServerIds' = ServerIds
  BY <1>3, <1>6, RelayFacts DEF ServerIds, ClientIds
<1>8. new \notin DOMAIN client /\ new \notin DOMAIN objects /\ new \notin DOMAIN app
  BY <1>7 DEF RelayInv, ClientInv, ServerInv
<1>9. /\ DOMAIN objects' = DOMAIN objects \cup (IF new # 0 THEN {new} ELSE {})
      /\ \A x \in DOMAIN objects : objects'[x] = objects[x]
      /\ new # 0 => objects'[new] = [iface |-> "wl_data_offer", proxy |-> TRUE]
  BY <1>3, <1>8 DEF Put
<1>10. PICK n : n = Len(frames)
  OBVIOUS
<1>11. /\ n \in Nat /\ frames' \in Seq(Event) /\ Len(frames') = n + 1 /\ frames'[n + 1] = m
       /\ \A i \in 1 .. n : frames'[i] = frames[i]
  BY <1>3, <1>6, <1>10, AppendFacts DEF RelayInv, RelayTypes
<1>12. RelayTypes' /\ TablesAgree'
  <2>1. next_server_side_id' \in FirstServerSideId .. FirstServerSideId + sent'
        /\ sent' \in 0 .. MaxEvents
    BY <1>3, <1>6, RelayFacts
  <2>2. QED
    BY <1>3, <1>11, <2>1 DEF RelayInv, RelayTypes, TablesAgree
<1>13. ClientInv'
  <2>1. DOMAIN client \cap ServerIds' = DOMAIN client \cap ServerIds
    BY <1>7, <1>8
  <2>2. QED
    BY <1>3, <1>7, <2>1 DEF RelayInv, ClientInv
<1>14. ServerInv'
  <2>1. proxies' = {x \in DOMAIN objects' : objects'[x].proxy}
    <3>1. \A x : x \in proxies <=> x \in DOMAIN objects /\ objects[x].proxy
      BY DEF RelayInv, ServerInv
    <3>2. \A x : x \in proxies' <=> x \in DOMAIN objects' /\ objects'[x].proxy
      BY <1>3, <1>8, <1>9, <3>1
    <3>3. QED
      BY <3>2
  <2>2. ASSUME NEW x \in DOMAIN objects'
        PROVE  /\ x \in ClientIds' \cup ServerIds'
               /\ objects'[x].proxy = lookup_wl_interface(objects'[x].iface)
               /\ x \in DOMAIN client' => objects'[x].iface = client'[x]
               /\ x \in ServerIds' => objects'[x].iface = "wl_data_offer"
    <3>1. CASE x = new /\ new # 0
      <4>1. objects'[x].proxy = TRUE /\ objects'[x].iface = "wl_data_offer"
        BY <1>9, <3>1
      <4>2. lookup_wl_interface("wl_data_offer") = TRUE
        BY DEF lookup_wl_interface
      <4>3. x \in ServerIds' /\ x \notin DOMAIN client'
        BY <1>3, <1>7, <1>8, <3>1
      <4>4. QED
        BY <4>1, <4>2, <4>3
    <3>2. CASE x \in DOMAIN objects
      <4>1. x \in ServerIds' => x \in ServerIds
        BY <1>7, <1>8, <3>2
      <4>2. QED
        BY <1>3, <1>7, <1>9, <3>2, <4>1 DEF RelayInv, ServerInv
    <3>3. QED
      BY <1>9, <2>2, <3>1, <3>2
  <2>3. QED
    BY <2>1, <2>2 DEF ServerInv
<1>15. LinkInv'
  <2>1. ASSUME NEW i, LinkAt(i)  PROVE LinkAt(i)'
    BY <1>3, <1>9, <2>1 DEF LinkAt, MadeBefore
  <2>2. \A i, j : LinkOrder(i, j) => LinkOrder(i, j)'
    BY <1>3 DEF LinkOrder
  <2>3. QED
    BY <1>3, <2>1, <2>2 DEF RelayInv, LinkInv
<1>16. HoldInv'
  <2>1. ASSUME NEW x \in DOMAIN app  PROVE HoldAt(x)'
    <3>1. HoldAt(x) /\ x # new
      BY <1>8 DEF RelayInv, HoldInv
    <3>2. QED
      BY <1>3, <1>7, <1>9, <3>1 DEF HoldAt, MadeBefore
  <2>2. QED
    BY <1>3, <2>1 DEF HoldInv
<1>17. EventInv'
  <2>1. ASSUME NEW i \in 1 .. n  PROVE EventAt(i)'
    <3>1. EventAt(i)
      BY <1>10 DEF RelayInv, EventInv
    <3>2. QED
      BY <1>3, <1>7, <1>9, <1>11, <3>1 DEF EventAt
  <2>2. EventAt(n + 1)'
    BY <1>3, <1>5, <1>6, <1>7, <1>8, <1>9, <1>11 DEF EventAt
  <2>3. ASSUME NEW j \in 1 .. n + 1, NEW i \in 1 .. j - 1
        PROVE  frames'[i].new # 0 => frames'[i].new # frames'[j].new
    <3>1. i \in 1 .. n /\ frames'[i] = frames[i]
      BY <1>11
    <3>2. CASE j = n + 1
      <4>1. EventAt(i)
        BY <1>10, <3>1 DEF RelayInv, EventInv
      <4>2. frames[i].new # 0 => frames[i].new # new
        BY <1>7, <4>1 DEF EventAt
      <4>3. QED
        BY <1>6, <1>11, <3>1, <3>2, <4>2
    <3>3. CASE j # n + 1
      <4>1. j \in 1 .. n /\ frames'[j] = frames[j]
        BY <1>11, <3>3
      <4>2. QED
        BY <1>10, <3>1, <4>1 DEF RelayInv, EventInv
    <3>4. QED
      BY <3>2, <3>3
  <2>4. \A i \in 1 .. n + 1 : EventAt(i)'
    BY <1>11, <2>1, <2>2
  <2>5. QED
    BY <1>11, <2>3, <2>4 DEF EventInv
<1>18. OrderInv'
  <2>1. ASSUME NEW c, Reached(c)  PROVE Reached(c)'
    BY <1>3, <1>9, <2>1 DEF Reached
  <2>2. \A c \in waiting \cup seen : Reached(c)
    BY DEF RelayInv, OrderInv
  <2>3. ASSUME NEW i \in 1 .. n + 1, frames'[i].event = "done"  PROVE Reached(frames[i].obj)'
    <3>1. PICK c : c = frames'[i].obj
      OBVIOUS
    <3>2. CASE i = n + 1
      <4>1. c = o /\ o \in waiting
        BY <1>3, <1>6, <1>11, <2>3, <3>1, <3>2
      <4>2. QED
        BY <2>1, <2>2, <3>1, <4>1
    <3>3. CASE i # n + 1
      <4>1. i \in 1 .. n
        BY <1>11, <3>3
      <4>2. Reached(c)
        BY <1>10, <1>11, <2>3, <3>1, <4>1 DEF RelayInv, OrderInv
      <4>3. QED
        BY <2>1, <3>1, <4>2
    <3>4. QED
      BY <3>2, <3>3
  <2>4. DOMAIN objects' \cap ClientIds' = DOMAIN objects \cap ClientIds
    BY <1>3, <1>7, <1>9
  <2>5. \A c \in DOMAIN objects' \cap ClientIds' : Reached(c)'
    BY <2>1, <2>4 DEF RelayInv, OrderInv
  <2>6. \A c \in waiting' \cup seen' : Reached(c)'
    BY <1>3, <2>1, <2>2
  <2>7. QED
    BY <1>11, <2>3, <2>5, <2>6 DEF OrderInv
<1>19. RelayKeeps
  BY <1>3, <1>9 DEF RelayKeeps, Untouched
<1>20. QED
  BY <1>19, <1>12, <1>13, <1>14, <1>15, <1>16, <1>17, <1>18 DEF RelayInv

\* Whatever the relay does by itself.
LEMMA RelayStep ==
  ASSUME RelayInv, RelayNext  PROVE RelayInv' /\ RelayKeeps
<1>1. CASE ClientEvent
  BY <1>1, ClientEventStep
<1>2. CASE ClientSeesEnd \/ AppExit
  <2>1. /\ UNCHANGED <<appVars, client, link, frames, serverVars, sent>> /\ running' = FALSE
        /\ TablesAgree'
    BY <1>2 DEF ClientSeesEnd, AppExit, Exit, RelayInv, TablesAgree
  <2>2. QED
    BY <2>1, ExitStep
<1>3. CASE accept_link
  BY <1>3, AcceptStep
<1>4. CASE LinkClosed
  BY <1>4, DropStep DEF LinkClosed
<1>5. CASE handle_request_frame
  BY <1>5, FrameStep
<1>6. ASSUME NEW o \in proxies, NEW e \in UNION Range(Events), generic_dispatcher(o, e)
      PROVE  RelayInv' /\ RelayKeeps
  BY <1>6, DispatchStep
<1>7. QED
  BY <1>1, <1>2, <1>3, <1>4, <1>5, <1>6 DEF RelayNext

\* What a request of the application keeps: all but what it destroys.
LEMMA AppRequestKeeps ==
  ASSUME RelayInv, NEW o, NEW r \in Requests, AppRequest(o, r)
  PROVE  /\ ClientIds \subseteq ClientIds' /\ DOMAIN client \subseteq DOMAIN client'
         /\ \A x \in DOMAIN client : client'[x] = client[x]
         /\ ~r.destructor => DOMAIN app \subseteq DOMAIN app'
         /\ UNCHANGED objects
         /\ \A x : Untouched(x) /\ (r.destructor => x # o) => Untouched(x)'
         /\ r.new # None => nextId \in ClientIds'
<1>1. PICK new : new = IF r.new = None THEN 0 ELSE nextId
  OBVIOUS
<1>2. PICK m : m = [obj |-> o, new |-> new, iface |-> r.new, destructor |-> r.destructor]
  OBVIOUS
<1>3. /\ running /\ o \in DOMAIN app /\ (r.new # None => nextId <= MaxId)
      /\ app' = IF r.destructor THEN Restrict(app, DOMAIN app \ {o})
                ELSE IF new # 0 THEN Put(app, new, r.new) ELSE app
      /\ nextId' = IF new # 0 THEN nextId + 1 ELSE nextId
      /\ Forward(m) /\ UNCHANGED objects
  BY <1>1, <1>2 DEF AppRequest, serverVars
<1>4. o \in DOMAIN client /\ o \in Nat
  BY <1>3, RelayFacts DEF RelayInv, ClientInv
<1>5. /\ m \in Frame /\ m.obj = o /\ m.new = new /\ m.iface = r.new
      /\ m.destructor = r.destructor
  BY <1>1, <1>2, <1>4, RelayFacts DEF Frame
<1>6. ClientIds \subseteq ClientIds' /\ (r.new # None => nextId \in ClientIds')
  BY <1>1, <1>3, RelayFacts DEF ClientIds
<1>7. /\ client' = client \/ (new # 0 /\ client' = Put(client, new, r.new))
      /\ link' = link \/ link' = Append(link, m)
  BY <1>3, <1>4, <1>5 DEF Forward, Exit, track_object_lifetime
<1>8. new # 0 => new \notin DOMAIN client
  <2>1. new # 0 => new \notin ClientIds /\ new \notin ServerIds
    BY <1>1, <1>3, RelayFacts DEF ClientIds, ServerIds
  <2>2. QED
    BY <2>1 DEF RelayInv, ClientInv
<1>9. DOMAIN client \subseteq DOMAIN client' /\ \A x \in DOMAIN client : client'[x] = client[x]
  BY <1>1, <1>7, <1>8 DEF Put
<1>10. ~r.destructor => DOMAIN app \subseteq DOMAIN app'
  BY <1>3 DEF Put
<1>11. ASSUME NEW x, Untouched(x), r.destructor => x # o  PROVE Untouched(x)'
  <2>1. CASE link' = link
    BY <1>11, <2>1 DEF Untouched
  <2>2. CASE link' = Append(link, m)
    <3>1. PICK n : n = Len(link)
      OBVIOUS
    <3>2. /\ n \in Nat /\ Len(link') = n + 1 /\ link'[n + 1] = m
          /\ \A i \in 1 .. n : link'[i] = link[i]
      BY <1>5, <2>2, <3>1, LinkAppended
    <3>3. QED
      BY <1>5, <1>11, <3>1, <3>2 DEF Untouched
  <2>3. QED
    BY <1>7, <2>1, <2>2
<1>12. QED
  BY <1>3, <1>6, <1>9, <1>10, <1>11

LEMMA RelayQuiet ==
  ASSUME RelayInv, UNCHANGED waylandVars  PROVE RelayInv' /\ RelayKeeps
<1>1. UNCHANGED <<appVars, client, link, frames, serverVars, sent>> /\ UNCHANGED <<running, why>>
  BY DEF waylandVars, clientVars
<1>2. running' \in BOOLEAN /\ TablesAgree'
  BY <1>1 DEF RelayInv, RelayTypes, TablesAgree
<1>3. QED
  BY <1>1, <1>2, ExitStep

\* An object the application holds is not about to be destroyed, and a wl_surface
\* has one of the application's own ids.
LEMMA HeldFacts ==
  ASSUME RelayInv, NEW o \in DOMAIN app
  PROVE  Untouched(o) /\ (app[o] = "wl_surface" => o \in ClientIds /\ client[o] = "wl_surface")
<1>1. Untouched(o)
  BY DEF RelayInv, LinkInv, LinkAt, Untouched
<1>2. QED
  BY <1>1 DEF RelayInv, ClientInv

LEMMA RelayTypeOK ==
  ASSUME RelayInv  PROVE WaylandTypeOK
<1>1. /\ ClientIds \subseteq 1 .. MaxId /\ ClientIds \subseteq 1 .. FirstServerSideId + MaxEvents
      /\ ServerIds \subseteq 1 .. FirstServerSideId + MaxEvents
  BY RelayFacts DEF ClientIds, ServerIds
<1>2. DOMAIN app \subseteq 1 .. FirstServerSideId + MaxEvents
  BY <1>1 DEF RelayInv, ClientInv
<1>3. seen \subseteq 1 .. MaxId /\ waiting \subseteq 1 .. MaxId
  BY <1>1 DEF RelayInv, OrderInv, Reached
<1>4. QED
  BY <1>2, <1>3 DEF RelayInv, RelayTypes, ServerInv, WaylandTypeOK
-----------------------------------------------------------------------------
(* The sessions. *)

LEMMA HandlerFacts ==
  ASSUME NEW x \in Handler
  PROVE  /\ x.at \in {"idle", "found", "made", "associate", "discard", "release"}
         /\ x.at = "idle" => x = Idle
         /\ x.at = "found" => x.target \in Nat /\ x.synced \in BOOLEAN
         /\ x.at \in {"made", "associate", "discard"} => x.target \in Windows
         /\ x.at = "associate" => x.surface \in Handles
         /\ x.at = "release" => x.surface \in Handles \cup {NoHandle}
BY DEF Handler, Idle

LEMMA HandlerMade ==
  /\ Idle \in Handler /\ Idle.at = "idle"
  /\ \A t \in Nat, b \in BOOLEAN : [at |-> "found", target |-> t, synced |-> b] \in Handler
  /\ \A w \in Windows : /\ [at |-> "made", target |-> w] \in Handler
                        /\ [at |-> "discard", target |-> w] \in Handler
  /\ \A w \in Windows, h \in Handles :
       [at |-> "associate", target |-> w, surface |-> h] \in Handler
  /\ \A h \in Handles \cup {NoHandle} : [at |-> "release", surface |-> h] \in Handler
BY DEF Handler, Idle

LEMMA CallFacts ==
  ASSUME NEW x \in Call
  PROVE  /\ x.in \in {"none", "acquire", "roundtrip", "create"}
         /\ x.in \in {"roundtrip", "create"} => x.surface \in Nat
         /\ x.in = "create" => x.synced \in BOOLEAN
BY DEF Call, Free

LEMMA CallMade ==
  /\ Free \in Call /\ Free.in = "none" /\ [in |-> "acquire"] \in Call
  /\ \A o \in Nat, c \in Nat : [in |-> "roundtrip", surface |-> o, callback |-> c] \in Call
  /\ \A o \in Nat, b \in BOOLEAN : [in |-> "create", surface |-> o, synced |-> b] \in Call
BY DEF Call, Free

LEMMA MessageFacts ==
  ASSUME NEW x \in Message
  PROVE  /\ x.op \in {"create", "destroy", "acquire"}
         /\ x.op = "create" => x.surface \in Nat /\ x.synced \in BOOLEAN
         /\ x.op # "create" => x.id \in Nat
BY DEF Message

LEMMA MessageMade ==
  /\ \A o \in Nat, b \in BOOLEAN : [op |-> "create", surface |-> o, synced |-> b] \in Message
  /\ \A i \in Nat : /\ [op |-> "destroy", id |-> i] \in Message
                    /\ [op |-> "acquire", id |-> i] \in Message
BY DEF Message

\* A step of session s: the others stay as they are.
Moves(s) ==
  /\ own' = own
  /\ \A t \in Sessions \ {s} :
       /\ calls'[t] = calls[t] /\ held'[t] = held[t] /\ blocked'[t] = blocked[t]
       /\ requests'[t] = requests[t] /\ handler'[t] = handler[t] /\ open'[t] = open[t]
       /\ surfaces'[t] = surfaces[t]

LEMMA MovesCalls ==
  ASSUME CallInv, RoleInv, NEW s \in Sessions, Moves(s), CallAt(s)', RoleAt(s)'
  PROVE  CallInv' /\ RoleInv'
<1>1. ASSUME NEW t \in Sessions \ {s}  PROVE CallAt(t)' /\ RoleAt(t)'
  <2>1. CallAt(t) /\ RoleAt(t)
    BY DEF CallInv, RoleInv
  <2>2. \A i : RequestAt(t, i) => RequestAt(t, i)'
    BY DEF RequestAt, Moves
  <2>3. CallAt(t)'
    BY <2>1, <2>2 DEF CallAt, Moves
  <2>4. RoleAt(t)'
    BY <2>1 DEF RoleAt, Moves
  <2>5. QED
    BY <2>3, <2>4
<1>2. QED
  BY <1>1 DEF CallInv, RoleInv

\* No surface is registered, and none goes that a slot names.
LEMMA SlotKept ==
  ASSUME SlotInv, UNCHANGED surfaces, DOMAIN native \subseteq DOMAIN native',
         \A t \in Sessions : handler'[t].at = "associate" => handler'[t] = handler[t]
  PROVE  SlotInv'
<1>1. ASSUME NEW s \in Sessions, NEW i \in 1 .. Len(surfaces[s])  PROVE SlotAt(s, i)'
  <2>1. SlotAt(s, i)
    BY DEF SlotInv
  <2>2. QED
    BY <2>1 DEF SlotAt
<1>2. ASSUME NEW s \in Sessions  PROVE PendingAt(s)'
  <2>1. PendingAt(s)
    BY DEF SlotInv
  <2>2. QED
    BY <2>1 DEF PendingAt
<1>3. QED
  BY <1>1, <1>2 DEF SlotInv
\* Session s registers h, which no slot and no other handler has.
LEMMA SlotAppend ==
  ASSUME SessionTypes, SlotInv, NEW s \in Sessions, NEW h \in Handles,
         surfaces' = [surfaces EXCEPT ![s] = Append(@, h)],
         handler' = [handler EXCEPT ![s] = Idle],
         DOMAIN native \subseteq DOMAIN native', h \in DOMAIN native',
         \A t \in Sessions : \A j \in 1 .. Len(surfaces[t]) : surfaces[t][j] # h,
         \A t \in Sessions \ {s} : handler[t].at = "associate" => handler[t].surface # h
  PROVE  SlotInv'
<1>1. PICK n : n = Len(surfaces[s])
  OBVIOUS
<1>2. surfaces[s] \in Seq(Handles \cup {NoHandle}) /\ h \in Handles \cup {NoHandle}
  BY DEF SessionTypes
<1>3. surfaces'[s] = Append(surfaces[s], h) /\ \A t \in Sessions \ {s} : surfaces'[t] = surfaces[t]
  BY DEF SessionTypes
<1>4. /\ n \in Nat /\ Len(surfaces'[s]) = n + 1 /\ surfaces'[s][n + 1] = h
      /\ \A i \in 1 .. n : surfaces'[s][i] = surfaces[s][i]
  BY <1>1, <1>2, <1>3, AppendFacts
<1>5. handler'[s].at = "idle" /\ \A t \in Sessions \ {s} : handler'[t] = handler[t]
  BY HandlerMade DEF SessionTypes
\* A slot is an old one or the new one.
<1>6. ASSUME NEW t \in Sessions, NEW j \in 1 .. Len(surfaces'[t])
      PROVE  \/ t = s /\ j = n + 1 /\ surfaces'[t][j] = h
             \/ j \in 1 .. Len(surfaces[t]) /\ surfaces'[t][j] = surfaces[t][j]
  <2>1. CASE t = s
    BY <1>1, <1>4, <2>1
  <2>2. CASE t # s
    BY <1>3, <2>2
  <2>3. QED
    BY <2>1, <2>2
<1>7. ASSUME NEW t \in Sessions, NEW i \in 1 .. Len(surfaces'[t])  PROVE SlotAt(t, i)'
  <2> SUFFICES ASSUME surfaces'[t][i] # NoHandle
               PROVE  /\ surfaces'[t][i] \in DOMAIN native'
                      /\ \A u \in Sessions : \A j \in 1 .. Len(surfaces'[u]) :
                           surfaces'[u][j] = surfaces'[t][i] => t = u /\ i = j
    BY DEF SlotAt
  <2>1. CASE t = s /\ i = n + 1 /\ surfaces'[t][i] = h
    BY <1>6, <2>1
  <2>2. CASE i \in 1 .. Len(surfaces[t]) /\ surfaces'[t][i] = surfaces[t][i]
    <3>1. SlotAt(t, i)
      BY <2>2 DEF SlotInv
    <3>2. QED
      BY <1>6, <2>2, <3>1 DEF SlotAt
  <2>3. QED
    BY <1>6, <2>1, <2>2
<1>8. ASSUME NEW t \in Sessions  PROVE PendingAt(t)'
  <2>1. CASE t = s
    BY <1>5, <2>1 DEF PendingAt
  <2>2. CASE t # s
    <3>1. PendingAt(t)
      BY DEF SlotInv
    <3>2. handler'[t].at = "associate" =>
            \A u \in Sessions : \A j \in 1 .. Len(surfaces'[u]) : surfaces'[u][j] # handler'[t].surface
      BY <1>5, <1>6, <2>2, <3>1 DEF PendingAt
    <3>3. handler'[t].at = "associate" =>
            \A u \in Sessions \ {t} :
              handler'[u].at = "associate" => handler'[u].surface # handler'[t].surface
      BY <1>5, <2>2, <3>1 DEF PendingAt
    <3>4. QED
      BY <1>5, <2>2, <3>1, <3>2, <3>3 DEF PendingAt
  <2>3. QED
    BY <2>1, <2>2
<1>9. QED
  BY <1>7, <1>8 DEF SlotInv

\* A handler holds a surface the driver just made.
LEMMA SlotPending ==
  ASSUME SessionTypes, SlotInv, NEW s \in Sessions, NEW h \in Handles \ DOMAIN native,
         UNCHANGED surfaces, h \in DOMAIN native', DOMAIN native \subseteq DOMAIN native',
         NEW x, handler' = [handler EXCEPT ![s] = x], x.at = "associate", x.surface = h,
         NoHandle \notin Handles
  PROVE  SlotInv'
<1>1. handler'[s] = x /\ \A t \in Sessions \ {s} : handler'[t] = handler[t]
  BY DEF SessionTypes
<1>2. \A t \in Sessions : \A j \in 1 .. Len(surfaces[t]) : SlotAt(t, j)
  BY DEF SlotInv
<1>3. \A t \in Sessions : \A j \in 1 .. Len(surfaces[t]) : surfaces[t][j] # h
  BY <1>2 DEF SlotAt
<1>4. \A t \in Sessions : PendingAt(t)
  BY DEF SlotInv
<1>5. \A t \in Sessions : handler[t].at = "associate" => handler[t].surface # h
  BY <1>4 DEF PendingAt
<1>6. PendingAt(s)'
  BY <1>1, <1>3, <1>5 DEF PendingAt
<1>7. ASSUME NEW t \in Sessions \ {s}  PROVE PendingAt(t)'
  BY <1>1, <1>4, <1>5 DEF PendingAt
<1>8. \A t \in Sessions : \A j \in 1 .. Len(surfaces[t]) : SlotAt(t, j)'
  BY <1>2 DEF SlotAt
<1>9. QED
  BY <1>6, <1>7, <1>8 DEF SlotInv

\* Slot id of session s, which holds h or nothing, is emptied and h destroyed.
LEMMA SlotGone ==
  ASSUME SessionTypes, SlotInv, NoHandle \notin Handles, NEW s \in Sessions, NEW id, NEW h,
         IF id \in 1 .. Len(surfaces[s]) THEN h = surfaces[s][id] ELSE h = NoHandle,
         surfaces' = [surfaces EXCEPT ![s][id] = NoHandle],
         native' = Without(native, h),
         handler' = [handler EXCEPT ![s] = [at |-> "release", surface |-> h]]
  PROVE  /\ SlotInv' /\ surfaces' \in [Sessions -> Seq(Handles \cup {NoHandle})]
         /\ Len(surfaces'[s]) = Len(surfaces[s])
         /\ DOMAIN native' = DOMAIN native \ {h} /\ h \in Handles \cup {NoHandle}
         /\ \A g \in DOMAIN native' : native'[g] = native[g]
<1>1. surfaces[s] \in Seq(Handles \cup {NoHandle})
  BY DEF SessionTypes
<1>2. /\ surfaces'[s] = [surfaces[s] EXCEPT ![id] = NoHandle]
      /\ \A t \in Sessions \ {s} : surfaces'[t] = surfaces[t]
  BY DEF SessionTypes
<1>3. /\ surfaces'[s] \in Seq(Handles \cup {NoHandle}) /\ Len(surfaces'[s]) = Len(surfaces[s])
      /\ \A i \in 1 .. Len(surfaces[s]) :
           surfaces'[s][i] = IF i = id THEN NoHandle ELSE surfaces[s][i]
  BY <1>1, <1>2
<1>4. surfaces' \in [Sessions -> Seq(Handles \cup {NoHandle})]
  BY <1>3 DEF SessionTypes
<1>5. h \in Handles \cup {NoHandle}
  BY <1>1
<1>6. DOMAIN native' = DOMAIN native \ {h} /\ \A g \in DOMAIN native' : native'[g] = native[g]
  BY DEF Without, Restrict
<1>7. handler'[s].at = "release" /\ \A t \in Sessions \ {s} : handler'[t] = handler[t]
  BY DEF SessionTypes
\* A slot is as it was, or it is the one that is emptied.
<1>8. ASSUME NEW t \in Sessions, NEW j \in 1 .. Len(surfaces'[t])
      PROVE  /\ j \in 1 .. Len(surfaces[t])
             /\ \/ surfaces'[t][j] = NoHandle
                \/ surfaces'[t][j] = surfaces[t][j] /\ ~(t = s /\ j = id)
  <2>1. CASE t = s
    BY <1>3, <2>1
  <2>2. CASE t # s
    BY <1>2, <2>2
  <2>3. QED
    BY <2>1, <2>2
<1>9. ASSUME NEW t \in Sessions, NEW i \in 1 .. Len(surfaces'[t])  PROVE SlotAt(t, i)'
  <2> SUFFICES ASSUME surfaces'[t][i] # NoHandle
               PROVE  /\ surfaces'[t][i] \in DOMAIN native'
                      /\ \A u \in Sessions : \A j \in 1 .. Len(surfaces'[u]) :
                           surfaces'[u][j] = surfaces'[t][i] => t = u /\ i = j
    BY DEF SlotAt
  <2>1. /\ i \in 1 .. Len(surfaces[t]) /\ surfaces'[t][i] = surfaces[t][i]
        /\ ~(t = s /\ i = id)
    BY <1>8
  <2>2. SlotAt(t, i)
    BY <2>1 DEF SlotInv
  <2>3. surfaces[t][i] # h
    BY <2>1, <2>2 DEF SlotAt
  <2>4. QED
    BY <1>6, <1>8, <2>1, <2>2, <2>3 DEF SlotAt
<1>10. ASSUME NEW t \in Sessions  PROVE PendingAt(t)'
  <2>1. CASE t = s
    BY <1>7, <2>1 DEF PendingAt
  <2>2. CASE t # s
    <3> SUFFICES ASSUME handler[t].at = "associate"
                 PROVE  PendingAt(t)'
      BY <1>7, <2>2 DEF PendingAt
    <3>1. /\ handler[t].surface \in DOMAIN native /\ handler[t].surface # NoHandle
          /\ \A u \in Sessions : \A j \in 1 .. Len(surfaces[u]) : surfaces[u][j] # handler[t].surface
          /\ \A u \in Sessions \ {t} :
               handler[u].at = "associate" => handler[u].surface # handler[t].surface
      BY DEF SlotInv, PendingAt, SessionTypes
    <3>2. handler[t].surface # h
      BY <3>1
    <3>3. \A u \in Sessions : \A j \in 1 .. Len(surfaces'[u]) : surfaces'[u][j] # handler[t].surface
      BY <1>8, <3>1
    <3>4. QED
      BY <1>6, <1>7, <2>2, <3>1, <3>2, <3>3 DEF PendingAt
  <2>3. QED
    BY <2>1, <2>2
<1>11. QED
  BY <1>3, <1>4, <1>5, <1>6, <1>9, <1>10 DEF SlotInv
\* The relay goes on by itself, and the application's session starts no call and
\* no lookup.
LEMMA RoundKept ==
  ASSUME RelayInv, RelayInv', RelayKeeps, RoundtripInv, own' = own,
         blocked'[App] = blocked[App] \/ blocked'[App].in \notin {"roundtrip", "create"},
         handler'[App].at = "found" => /\ handler'[App] = handler[App]
                                       /\ blocked'[App] = blocked[App]
                                       /\ blocked[App].in = "create"
  PROVE  RoundtripInv'
<1> SUFFICES ASSUME ~own  PROVE RoundtripInv'
  BY DEF RoundtripInv
<1>1. ASSUME NEW x \in DOMAIN app \cap ClientIds
      PROVE  /\ x \in DOMAIN app' \cap ClientIds' /\ app'[x] = app[x]
             /\ x \in DOMAIN objects => x \in DOMAIN objects'
  <2>1. x \in DOMAIN app' \cap ClientIds' /\ Untouched(x)
    BY HeldFacts DEF RelayKeeps
  <2>2. app'[x] = app[x]
    BY <2>1 DEF RelayInv, ClientInv, RelayKeeps
  <2>3. QED
    BY <2>1, <2>2 DEF RelayKeeps
<1>2. CASE blocked'[App].in \notin {"roundtrip", "create"}
  <2>1. handler'[App].at # "found"
    BY <1>2
  <2>2. QED
    BY <1>2, <2>1 DEF RoundtripInv
<1>3. CASE blocked'[App] = blocked[App]
  <2>1. ClientIds' = ClientIds
    BY DEF RelayKeeps
  <2>2. CASE handler'[App].at # "found"
    BY <1>1, <1>3, <2>1, <2>2 DEF RoundtripInv
  <2>3. CASE handler'[App].at = "found"
    <3>1. handler'[App] = handler[App] /\ blocked[App].in = "create"
      BY <2>3
    <3>2. handler[App].target # 0 => handler[App].target \in DOMAIN objects'
      BY <1>1, <2>3, <3>1 DEF RoundtripInv
    <3>3. QED
      BY <1>1, <1>3, <2>1, <2>3, <3>1, <3>2 DEF RoundtripInv
  <2>4. QED
    BY <2>2, <2>3
<1>4. QED
  BY <1>2, <1>3

LEMMA PresentInit ==
  ASSUME Init  PROVE PresentInv
<1> USE PresentationAssumption
<1>1. SessionTypes
  BY HandlerMade, CallMade DEF Init, SessionTypes
<1>2. \A s \in Sessions :
        /\ requests[s] = <<>> /\ handler[s] = Idle /\ blocked[s] = Free /\ surfaces[s] = <<>>
        /\ calls[s] = 0 /\ held[s] = <<>> /\ open[s]
  BY DEF Init
<1>3. CallInv /\ SlotInv
  BY <1>2, HandlerMade, CallMade DEF CallInv, CallAt, SlotInv, PendingAt, Creating
<1>4. RoleInv /\ RoundtripInv
  BY <1>2, HandlerMade, CallMade DEF RoleInv, RoleAt, RoundtripInv
<1>5. QED
  BY <1>1, <1>3, <1>4 DEF PresentInv

\* A session that awaits neither a surface nor an image has only asked to destroy
\* surfaces.
LEMMA QueueFacts ==
  ASSUME PresentInv, NEW s \in Sessions, blocked[s].in \in {"none", "roundtrip"}
  PROVE  /\ \A i \in 1 .. Len(requests[s]) : requests[s][i].op = "destroy"
         /\ handler[s].at \in {"idle", "release"}
<1>1. CallAt(s)
  BY DEF PresentInv, CallInv
<1>2. handler[s] \in Handler /\ requests[s] \in Seq(Message)
  BY DEF PresentInv, SessionTypes
<1>3. ASSUME NEW i \in 1 .. Len(requests[s])  PROVE requests[s][i].op = "destroy"
  <2>1. RequestAt(s, i) /\ requests[s][i] \in Message
    BY <1>1, <1>2 DEF CallAt
  <2>2. QED
    BY <2>1, MessageFacts DEF RequestAt
<1>4. handler[s].at \in {"idle", "release"}
  BY <1>1, <1>2, HandlerFacts DEF CallAt, Creating
<1>5. QED
  BY <1>3, <1>4

\* A call of session s: request m is sent, and the application waits in b.
Sends(s, m, b) ==
  /\ m \in Message /\ b \in Call /\ (~own => s = App) /\ (own => b.in # "roundtrip")
  /\ requests' = [requests EXCEPT ![s] = Append(@, m)]
  /\ blocked' = [blocked EXCEPT ![s] = b]
  /\ calls' \in [Sessions -> 0 .. MaxSurfaces] /\ calls'[s] >= calls[s]
  /\ \A t \in Sessions \ {s} : calls'[t] = calls[t] /\ held'[t] = held[t]
  /\ DOMAIN held' = Sessions /\ DOMAIN held'[s] \subseteq DOMAIN held[s]
  /\ UNCHANGED <<own, handler, open, told, surfaces, native, own_windows>>
  /\ m.op # "destroy" => b.in = m.op
  /\ m.op = "create" => b.surface = m.surface /\ b.synced = m.synced
  /\ b.in \in {"create", "roundtrip"} => Len(surfaces[s]) < calls'[s]

LEMMA SendStep ==
  ASSUME PresentInv, NEW s \in Sessions, blocked[s].in \in {"none", "roundtrip"},
         NEW m, NEW b, Sends(s, m, b)
  PROVE  SessionTypes' /\ CallInv' /\ RoleInv' /\ SlotInv'
<1> USE DEF Sends
<1>1. SessionTypes
  BY DEF PresentInv
<1>2. requests[s] \in Seq(Message)
  BY <1>1 DEF SessionTypes
<1>3. m \in Message /\ requests'[s] = Append(requests[s], m) /\ blocked'[s] = b
  BY <1>1 DEF SessionTypes
<1>4. PICK n : n = Len(requests[s])
  OBVIOUS
<1>5. /\ requests'[s] \in Seq(Message) /\ n \in Nat /\ Len(requests'[s]) = n + 1
      /\ requests'[s][n + 1] = m /\ \A i \in 1 .. n : requests'[s][i] = requests[s][i]
  BY <1>2, <1>3, <1>4, AppendFacts
<1>6. Moves(s)
  BY <1>1 DEF Moves, SessionTypes
<1>7. SessionTypes'
  BY <1>1, <1>5 DEF SessionTypes
<1>8. /\ \A i \in 1 .. n : requests[s][i].op = "destroy"
      /\ handler[s].at \in {"idle", "release"}
  BY <1>4, QueueFacts
<1>9. ASSUME NEW i \in 1 .. n + 1  PROVE RequestAt(s, i)'
  <2>1. CASE i = n + 1
    BY <1>3, <1>5, <1>8, <2>1 DEF RequestAt, Creating
  <2>2. CASE i # n + 1
    <3>1. i \in 1 .. n
      BY <1>5, <2>2
    <3>2. QED
      BY <1>5, <1>8, <3>1 DEF RequestAt
  <2>3. QED
    BY <2>1, <2>2
<1>10. CallAt(s)'
  <2>1. Len(surfaces[s]) \in Nat /\ calls[s] \in Nat /\ calls'[s] \in Nat
    BY <1>1, PresentationAssumption DEF SessionTypes
  <2>2. Len(surfaces[s]) <= calls'[s] /\ DOMAIN held'[s] \subseteq 1 .. Len(surfaces[s])
    BY <2>1 DEF PresentInv, CallInv, CallAt
  <2>3. QED
    BY <1>3, <1>5, <1>8, <1>9, <2>2 DEF CallAt, Creating
<1>11. RoleAt(s)'
  BY <1>3, <1>8 DEF RoleAt
<1>12. SlotInv'
  BY SlotKept DEF PresentInv
<1>13. QED
  BY <1>6, <1>7, <1>10, <1>11, <1>12, MovesCalls DEF PresentInv
\* The calls of an application.
LEMMA CallStep ==
  ASSUME RelayInv, PresentInv, NEW s \in Sessions,
         \/ CreateOwnSurface(s)
         \/ \E id \in DOMAIN held[s] : DestroySurfaceKHR(s, id) \/ AcquireNextImageKHR(s, id)
  PROVE  RelayInv' /\ PresentInv'
<1>1. UNCHANGED waylandVars /\ UNCHANGED <<own, handler, open, told, surfaces, native, own_windows>>
  BY DEF CreateOwnSurface, DestroySurfaceKHR, AcquireNextImageKHR, windowVars
<1>2. RelayInv' /\ RelayKeeps
  BY <1>1, RelayQuiet
<1>3. SessionTypes /\ CallAt(s) /\ RoleAt(s) /\ App \in Sessions /\ MaxSurfaces \in Nat
  BY PresentationAssumption DEF PresentInv, CallInv, RoleInv
<1>4. blocked[s] = Free /\ blocked[s].in = "none" /\ Free \in Call
  BY CallMade DEF CreateOwnSurface, DestroySurfaceKHR, AcquireNextImageKHR, Ready
<1>5. blocked[App].in # "create" => handler[App].at # "found"
  BY <1>3 DEF PresentInv, CallInv, CallAt, Creating
<1>6. CASE CreateOwnSurface(s)
  <2>1. /\ own /\ calls[s] < MaxSurfaces /\ calls' = [calls EXCEPT ![s] = @ + 1] /\ held' = held
        /\ blocked' = [blocked EXCEPT ![s] = [in |-> "create", surface |-> 0, synced |-> TRUE]]
        /\ requests' = [requests EXCEPT
                          ![s] = Append(@, [op |-> "create", surface |-> 0, synced |-> TRUE])]
    BY <1>6 DEF CreateOwnSurface, Send
  <2>2. /\ [in |-> "create", surface |-> 0, synced |-> TRUE] \in Call
        /\ [op |-> "create", surface |-> 0, synced |-> TRUE] \in Message
    BY CallMade, MessageMade
  <2>3. /\ calls' \in [Sessions -> 0 .. MaxSurfaces] /\ calls'[s] = calls[s] + 1 /\ calls[s] \in Nat
        /\ \A t \in Sessions \ {s} : calls'[t] = calls[t]
    BY <1>3, <2>1 DEF SessionTypes
  <2>4. Len(surfaces[s]) < calls'[s] /\ DOMAIN held = Sessions
    BY <1>3, <2>3 DEF SessionTypes, CallAt
  <2>5. SessionTypes' /\ CallInv' /\ RoleInv' /\ SlotInv'
    <3>1. PICK m : m = [op |-> "create", surface |-> 0, synced |-> TRUE]
      OBVIOUS
    <3>2. PICK b : b = [in |-> "create", surface |-> 0, synced |-> TRUE]
      OBVIOUS
    <3>3. /\ m.op = "create" /\ m.surface = 0 /\ m.synced = TRUE
          /\ b.in = "create" /\ b.surface = 0 /\ b.synced = TRUE
      BY <3>1, <3>2
    <3>4. Sends(s, m, b)
      BY <1>1, <1>3, <1>4, <2>1, <2>2, <2>3, <2>4, <3>1, <3>2, <3>3 DEF Sends
    <3>5. QED
      BY <1>4, <3>4, SendStep
  <2>6. RoundtripInv'
    BY <1>1, <2>1 DEF RoundtripInv
  <2>7. QED
    BY <1>2, <2>5, <2>6 DEF PresentInv
<1>7. ASSUME NEW id \in DOMAIN held[s], DestroySurfaceKHR(s, id)  PROVE PresentInv'
  <2>1. /\ calls' = calls /\ held' = [held EXCEPT ![s] = Without(@, id)] /\ blocked' = blocked
        /\ requests' = [requests EXCEPT ![s] = Append(@, [op |-> "destroy", id |-> id])]
    BY <1>7 DEF DestroySurfaceKHR, Send
  <2>2. [op |-> "destroy", id |-> id] \in Message /\ (~own => s = App)
    <3>1. id \in Nat
      BY <1>3, <1>7 DEF CallAt, SessionTypes
    <3>2. ~own => s = App
      BY <1>3, <1>7 DEF RoleAt
    <3>3. QED
      BY <3>1, <3>2, MessageMade
  <2>3. /\ DOMAIN held' = Sessions /\ DOMAIN held'[s] \subseteq DOMAIN held[s]
        /\ \A t \in Sessions \ {s} : held'[t] = held[t]
    <3>1. held'[s] = Restrict(held[s], DOMAIN held[s] \ {id})
      BY <1>3, <2>1 DEF SessionTypes, Without
    <3>2. DOMAIN held'[s] = DOMAIN held[s] \ {id}
      BY <3>1 DEF Restrict
    <3>3. QED
      BY <1>3, <2>1, <3>2 DEF SessionTypes
  <2>4. /\ calls' \in [Sessions -> 0 .. MaxSurfaces] /\ calls[s] \in Nat
        /\ blocked' = [blocked EXCEPT ![s] = Free]
    BY <1>3, <1>4, <2>1 DEF SessionTypes
  <2>5. SessionTypes' /\ CallInv' /\ RoleInv' /\ SlotInv'
    <3>1. PICK m : m = [op |-> "destroy", id |-> id]
      OBVIOUS
    <3>2. m.op = "destroy" /\ m \in Message
      BY <2>2, <3>1
    <3>3. PICK b : b = Free
      OBVIOUS
    <3>4. b.in = "none" /\ b \in Call
      BY <3>3, CallMade
    <3>5. Sends(s, m, b)
      <4>1. requests' = [requests EXCEPT ![s] = Append(@, m)]
        BY <2>1, <3>1
      <4>2. blocked' = [blocked EXCEPT ![s] = b]
        BY <2>4, <3>3
      <4>3. calls'[s] >= calls[s] /\ \A t \in Sessions \ {s} : calls'[t] = calls[t]
        BY <2>1, <2>4
      <4>4. QED
        BY <1>1, <2>2, <2>3, <2>4, <3>2, <3>4, <4>1, <4>2, <4>3 DEF Sends
    <3>6. QED
      BY <1>4, <3>5, SendStep
  <2>6. RoundtripInv'
    BY <1>1, <1>2, <1>5, <2>1, RoundKept DEF PresentInv
  <2>7. QED
    BY <2>5, <2>6 DEF PresentInv
<1>8. ASSUME NEW id \in DOMAIN held[s], AcquireNextImageKHR(s, id)  PROVE PresentInv'
  <2>1. /\ calls' = calls /\ held' = held /\ blocked' = [blocked EXCEPT ![s] = [in |-> "acquire"]]
        /\ requests' = [requests EXCEPT ![s] = Append(@, [op |-> "acquire", id |-> id])]
    BY <1>8 DEF AcquireNextImageKHR, Send
  <2>2. [op |-> "acquire", id |-> id] \in Message /\ (~own => s = App) /\ [in |-> "acquire"] \in Call
    <3>1. id \in Nat
      BY <1>3, <1>8 DEF CallAt, SessionTypes
    <3>2. ~own => s = App
      BY <1>3, <1>8 DEF RoleAt
    <3>3. QED
      BY <3>1, <3>2, MessageMade, CallMade
  <2>3. calls' \in [Sessions -> 0 .. MaxSurfaces] /\ calls[s] \in Nat /\ DOMAIN held = Sessions
    BY <1>3, <2>1 DEF SessionTypes
  <2>4. SessionTypes' /\ CallInv' /\ RoleInv' /\ SlotInv'
    <3>1. PICK m : m = [op |-> "acquire", id |-> id]
      OBVIOUS
    <3>2. PICK b : b = [in |-> "acquire"]
      OBVIOUS
    <3>3. m.op = "acquire" /\ b.in = "acquire"
      BY <3>1, <3>2
    <3>4. Sends(s, m, b)
      BY <1>1, <1>3, <1>4, <2>1, <2>2, <2>3, <3>1, <3>2, <3>3 DEF Sends
    <3>5. QED
      BY <1>4, <3>4, SendStep
  <2>5. blocked'[s].in = "acquire" /\ \A t \in Sessions \ {s} : blocked'[t] = blocked[t]
    BY <1>3, <2>1 DEF SessionTypes
  <2>6. /\ blocked'[App] = blocked[App] \/ blocked'[App].in = "acquire"
        /\ blocked[App].in = "create" => blocked'[App] = blocked[App]
    BY <1>3, <1>4, <2>5
  <2>7. RoundtripInv'
    BY <1>1, <1>2, <1>5, <2>6, RoundKept DEF PresentInv
  <2>8. QED
    BY <2>4, <2>7 DEF PresentInv
<1>9. QED
  BY <1>2, <1>6, <1>7, <1>8

\* The two halves of CreateWaylandSurfaceKHR.
LEMMA RoundtripStep ==
  ASSUME RelayInv, PresentInv, RoundtripReturns
  PROVE  RelayInv' /\ PresentInv'
<1> DEFINE b == blocked[App]
<1>1. PICK synced \in BOOLEAN : synced <=> b.callback \in seen
  BY Zenon
<1>2. PICK m : m = [op |-> "create", surface |-> b.surface, synced |-> synced]
  OBVIOUS
<1>3. PICK c : c = [in |-> "create", surface |-> b.surface, synced |-> synced]
  OBVIOUS
<1>4. /\ b.in = "roundtrip" /\ requests' = [requests EXCEPT ![App] = Append(@, m)]
      /\ blocked' = [blocked EXCEPT ![App] = c] /\ UNCHANGED waylandVars
      /\ UNCHANGED <<own, calls, held, handler, open, told, surfaces, native, own_windows>>
  BY <1>1, <1>2, <1>3 DEF RoundtripReturns, Send, windowVars
<1>5. RelayInv' /\ RelayKeeps
  BY <1>4, RelayQuiet
<1>6. SessionTypes /\ CallAt(App) /\ RoleAt(App) /\ App \in Sessions /\ MaxSurfaces \in Nat
  BY PresentationAssumption DEF PresentInv, CallInv, RoleInv
<1>7. b \in Call /\ b.surface \in Nat /\ ~own
  BY <1>4, <1>6, CallFacts DEF SessionTypes, RoleAt
<1>8. m \in Message /\ c \in Call
  BY <1>1, <1>2, <1>3, <1>7, MessageMade, CallMade
<1>9. /\ m.op = "create" /\ m.surface = b.surface /\ m.synced = synced
      /\ c.in = "create" /\ c.surface = b.surface /\ c.synced = synced
  BY <1>2, <1>3
<1>10. /\ calls \in [Sessions -> 0 .. MaxSurfaces] /\ calls[App] \in Nat /\ DOMAIN held = Sessions
       /\ Len(surfaces[App]) < calls[App]
  BY <1>4, <1>6 DEF SessionTypes, CallAt
<1>11. SessionTypes' /\ CallInv' /\ RoleInv' /\ SlotInv'
  <2>1. Sends(App, m, c)
    BY <1>4, <1>6, <1>7, <1>8, <1>9, <1>10 DEF Sends
  <2>2. QED
    BY <1>4, <1>6, <2>1, SendStep
<1>12. blocked'[App] = c /\ handler'[App] = handler[App] /\ handler[App].at # "found"
  BY <1>4, <1>6 DEF SessionTypes, CallAt, Creating
<1>13. /\ b.surface \in DOMAIN app \cap ClientIds /\ app[b.surface] = "wl_surface"
       /\ b.surface < b.callback
  BY <1>4, <1>7 DEF PresentInv, RoundtripInv
<1>14. synced => b.surface \in DOMAIN objects
  BY <1>1, <1>13 DEF RelayInv, OrderInv, Reached
<1>15. UNCHANGED <<app, objects>> /\ ClientIds' = ClientIds
  BY <1>4 DEF waylandVars, appVars, serverVars, ClientIds
<1>16. RoundtripInv'
  BY <1>4, <1>9, <1>12, <1>13, <1>14, <1>15 DEF RoundtripInv
<1>17. QED
  BY <1>5, <1>11, <1>16 DEF PresentInv
LEMMA BeginRoundtripStep ==
  ASSUME RelayInv, PresentInv, NEW o \in DOMAIN app, CreateWaylandSurfaceKHR(o)
  PROVE  RelayInv' /\ PresentInv'
<1>1. PICK r \in Requests : r = Request("wl_display", "sync", "wl_callback", FALSE)
  BY DEF Requests
<1>2. r.new = "wl_callback" /\ ~r.destructor
  BY <1>1 DEF Request
<1>3. PICK c : c = [in |-> "roundtrip", surface |-> o, callback |-> nextId]
  OBVIOUS
<1>4. /\ ~own /\ Ready(App) /\ calls[App] < MaxSurfaces /\ app[o] = "wl_surface"
      /\ AppRequest(1, r) /\ calls' = [calls EXCEPT ![App] = @ + 1]
      /\ blocked' = [blocked EXCEPT ![App] = c]
      /\ UNCHANGED <<own, held, requests, handler, open, told, surfaces, native, own_windows>>
  BY <1>1, <1>3 DEF CreateWaylandSurfaceKHR, windowVars
<1>5. RelayInv'
  BY <1>4, AppRequestStep
<1>6. /\ ClientIds \subseteq ClientIds' /\ DOMAIN client \subseteq DOMAIN client'
      /\ \A x \in DOMAIN client : client'[x] = client[x]
      /\ DOMAIN app \subseteq DOMAIN app' /\ nextId \in ClientIds'
  BY <1>2, <1>4, AppRequestKeeps DEF None
<1>7. SessionTypes /\ CallAt(App) /\ RoleAt(App) /\ App \in Sessions /\ MaxSurfaces \in Nat
  BY PresentationAssumption DEF PresentInv, CallInv, RoleInv
<1>8. o \in ClientIds /\ o \in Nat /\ nextId \in Nat /\ o < nextId
  BY <1>4, HeldFacts, IdFacts, RelayFacts
<1>9. c \in Call /\ c.in = "roundtrip" /\ c.surface = o /\ c.callback = nextId
  BY <1>3, <1>8, CallMade
<1>10. blocked[App].in = "none"
  BY <1>4, CallMade DEF Ready
<1>11. /\ \A i \in 1 .. Len(requests[App]) : requests[App][i].op = "destroy"
       /\ handler[App].at \in {"idle", "release"}
  BY <1>7, <1>10, QueueFacts
<1>12. /\ blocked'[App] = c /\ calls'[App] = calls[App] + 1 /\ calls[App] \in Nat
       /\ calls' \in [Sessions -> 0 .. MaxSurfaces] /\ blocked' \in [Sessions -> Call]
  BY <1>4, <1>7, <1>9 DEF SessionTypes
<1>13. Moves(App)
  BY <1>4, <1>7 DEF Moves, SessionTypes
<1>14. SessionTypes'
  BY <1>4, <1>7, <1>12 DEF SessionTypes
<1>15. CallAt(App)'
  <2>1. Len(surfaces[App]) \in Nat /\ Len(surfaces[App]) <= calls[App]
    BY <1>7 DEF SessionTypes, CallAt
  <2>2. \A i \in 1 .. Len(requests[App]) : RequestAt(App, i)'
    BY <1>4, <1>11 DEF RequestAt
  <2>3. QED
    BY <1>4, <1>7, <1>11, <1>12, <2>1, <2>2 DEF CallAt, Creating
<1>16. RoleAt(App)'
  BY <1>4, <1>7 DEF RoleAt
<1>17. SlotInv'
  BY <1>4, SlotKept DEF PresentInv
<1>18. RoundtripInv'
  <2>1. o \in DOMAIN app' \cap ClientIds' /\ app'[o] = "wl_surface"
    BY <1>4, <1>5, <1>6, <1>8 DEF RelayInv, ClientInv
  <2>2. QED
    BY <1>4, <1>6, <1>8, <1>9, <1>11, <1>12, <2>1 DEF RoundtripInv
<1>19. QED
  BY <1>5, <1>7, <1>13, <1>14, <1>15, <1>16, <1>17, <1>18, MovesCalls DEF PresentInv

\* The relay's steps, and the application's requests to it.
LEMMA WaylandStep ==
  ASSUME RelayInv, PresentInv, Wayland
  PROVE  RelayInv' /\ PresentInv'
<1>1. ~own /\ App \in Sessions
      /\ UNCHANGED <<own, calls, held, blocked, requests, open, told, handler, surfaces, native,
                     own_windows>>
  BY PresentationAssumption DEF Wayland, sessionVars, callVars, windowVars
<1>2. SessionTypes' /\ CallInv' /\ SlotInv' /\ RoleInv'
  <2>1. SessionTypes'
    BY <1>1 DEF PresentInv, SessionTypes
  <2>2. CallInv' /\ RoleInv'
    BY <1>1, MovesCalls DEF PresentInv, Moves, CallInv, CallAt, RequestAt, RoleInv, RoleAt
  <2>3. SlotInv'
    BY <1>1, SlotKept DEF PresentInv
  <2>4. QED
    BY <2>1, <2>2, <2>3
<1>3. CASE RelayNext
  <2>1. RelayInv' /\ RelayKeeps
    BY <1>3, RelayStep
  <2>2. handler[App].at = "found" => blocked[App].in = "create"
    BY <1>1 DEF PresentInv, CallInv, CallAt, Creating
  <2>3. RoundtripInv'
    BY <1>1, <2>1, <2>2, RoundKept DEF PresentInv
  <2>4. QED
    BY <1>2, <2>1, <2>3 DEF PresentInv
<1>4. ASSUME NEW o \in DOMAIN app, NEW r \in Requests, Ready(App), AppRequest(o, r)
      PROVE  RelayInv' /\ PresentInv'
  <2>1. RelayInv'
    BY <1>4, AppRequestStep
  <2>2. blocked[App].in = "none"
    BY <1>4, CallMade DEF Ready
  <2>3. handler[App].at # "found"
    BY <1>1, <2>2, QueueFacts
  <2>4. RoundtripInv'
    BY <1>1, <2>2, <2>3 DEF RoundtripInv
  <2>5. QED
    BY <1>2, <2>1, <2>4 DEF PresentInv
<1>5. QED
  BY <1>3, <1>4 DEF Wayland
\* A handler that makes a surface does it for the only call of an open session.
LEMMA CreatingFacts ==
  ASSUME PresentInv, NEW s \in Sessions, handler[s].at \in Creating
  PROVE  /\ requests[s] = <<>> /\ blocked[s].in = "create" /\ blocked[s] # Free /\ open[s]
         /\ Len(surfaces[s]) \in Nat /\ calls[s] \in Nat /\ Len(surfaces[s]) < calls[s]
         /\ own <=> handler[s].at # "found"
         /\ own \/ s = App
         /\ DOMAIN held[s] \subseteq 1 .. Len(surfaces[s])
<1>1. SessionTypes /\ CallAt(s) /\ RoleAt(s) /\ MaxSurfaces \in Nat
  BY PresentationAssumption DEF PresentInv, CallInv, RoleInv
<1>2. requests[s] = <<>> /\ blocked[s].in = "create" /\ open[s]
  BY <1>1 DEF CallAt
<1>3. blocked[s] # Free
  BY <1>2, CallMade
<1>4. Len(surfaces[s]) \in Nat /\ calls[s] \in Nat
  BY <1>1 DEF SessionTypes
<1>5. Len(surfaces[s]) < calls[s] /\ DOMAIN held[s] \subseteq 1 .. Len(surfaces[s])
  BY <1>1, <1>2 DEF CallAt
<1>6. handler[s] # Idle
  BY HandlerMade DEF Creating
<1>7. (own <=> handler[s].at # "found") /\ (own \/ s = App)
  BY <1>1, <1>6 DEF RoleAt, Creating
<1>8. QED
  BY <1>2, <1>3, <1>4, <1>5, <1>7

\* The request a handler begins with.
LEMMA BeginFacts ==
  ASSUME PresentInv, NEW s \in Sessions, NEW op, Begin(s, op)
  PROVE  /\ handler[s] = Idle /\ open[s] /\ (own \/ s = App)
         /\ Head(requests[s]) = requests[s][1] /\ Head(requests[s]) \in Message
         /\ Tail(requests[s]) \in Seq(Message)
         /\ op \in {"create", "acquire"} =>
              /\ Tail(requests[s]) = <<>> /\ blocked[s].in = op /\ Len(requests[s]) = 1
              /\ op = "create" => /\ blocked[s].surface = Head(requests[s]).surface
                                  /\ blocked[s].synced = Head(requests[s]).synced
<1>1. requests[s] \in Seq(Message) /\ CallAt(s) /\ RoleAt(s)
  BY DEF PresentInv, SessionTypes, CallInv, RoleInv
<1>2. handler[s] = Idle /\ open[s] /\ requests[s] # <<>> /\ Head(requests[s]).op = op
  BY DEF Begin
<1>3. /\ Tail(requests[s]) \in Seq(Message) /\ Len(Tail(requests[s])) = Len(requests[s]) - 1
      /\ Len(requests[s]) \in Nat \ {0}
      /\ Head(requests[s]) = requests[s][1] /\ Head(requests[s]) \in Message
  BY <1>1, <1>2, TailFacts
<1>4. own \/ s = App
  BY <1>1, <1>2 DEF RoleAt
<1>5. ASSUME op \in {"create", "acquire"}
      PROVE  /\ Tail(requests[s]) = <<>> /\ blocked[s].in = op /\ Len(requests[s]) = 1
             /\ op = "create" => /\ blocked[s].surface = Head(requests[s]).surface
                                 /\ blocked[s].synced = Head(requests[s]).synced
  <2>1. 1 \in 1 .. Len(requests[s])
    BY <1>3
  <2>2. RequestAt(s, 1) /\ requests[s][1].op # "destroy"
    BY <1>1, <1>2, <1>3, <1>5, <2>1 DEF CallAt
  <2>3. /\ 1 = Len(requests[s]) /\ blocked[s].in = op
        /\ op = "create" => /\ blocked[s].surface = Head(requests[s]).surface
                            /\ blocked[s].synced = Head(requests[s]).synced
    BY <1>2, <1>3, <1>5, <2>2 DEF RequestAt
  <2>4. Tail(requests[s]) = <<>>
    <3>1. PICK q \in Seq(Message) : q = Tail(requests[s])
      BY <1>3
    <3>2. Len(q) = 0
      BY <1>3, <2>3, <3>1
    <3>3. QED
      BY <3>1, <3>2, EmptySeq
  <2>5. QED
    BY <2>3, <2>4
<1>6. QED
  BY <1>2, <1>3, <1>4, <1>5

\* A step of the server that looks up no wl_surface.
LEMMA RoundMoves ==
  ASSUME RelayInv, PresentInv, UNCHANGED waylandVars, NEW s \in Sessions, Moves(s),
         handler'[s].at # "found", blocked'[s] = blocked[s] \/ blocked'[s] = Free
  PROVE  RelayInv' /\ RoundtripInv'
<1>1. RelayInv' /\ RelayKeeps
  BY RelayQuiet
<1>2. App \in Sessions /\ own' = own
  BY PresentationAssumption DEF Moves
<1>3. handler[App].at = "found" => blocked[App].in = "create"
  BY <1>2 DEF PresentInv, CallInv, CallAt, Creating
<1>4. blocked'[App] = blocked[App] \/ blocked'[App] = Free
  BY <1>2 DEF Moves
<1>5. blocked'[App] = blocked[App] \/ blocked'[App].in \notin {"roundtrip", "create"}
  BY <1>4, CallMade
<1>6. handler'[App].at = "found" => handler'[App] = handler[App] /\ blocked'[App] = blocked[App]
  BY <1>2 DEF Moves
<1>7. RoundtripInv'
  BY <1>1, <1>2, <1>3, <1>5, <1>6, RoundKept DEF PresentInv
<1>8. QED
  BY <1>1, <1>7

\* The reply to a call: the application goes on, and the handler is done.
LEMMA ReplyFacts ==
  ASSUME PresentInv, NEW s \in Sessions, Moves(s), own \/ s = App, open'[s] = open[s], open[s],
         requests'[s] = <<>>, blocked'[s] = Free, handler'[s] = Idle, calls'[s] = calls[s],
         Len(surfaces'[s]) <= calls[s], DOMAIN held'[s] \subseteq 1 .. Len(surfaces'[s])
  PROVE  CallInv' /\ RoleInv'
<1>1. CallAt(s)'
  BY CallMade, HandlerMade DEF CallAt, Creating
<1>2. RoleAt(s)'
  BY CallMade, HandlerMade DEF RoleAt, Moves
<1>3. QED
  BY <1>1, <1>2, MovesCalls DEF PresentInv
LEMMA OpenWindowStep ==
  ASSUME RelayInv, PresentInv, NEW s \in Sessions, create_own_window(s)
  PROVE  RelayInv' /\ PresentInv'
<1>1. /\ own /\ Begin(s, "create") /\ requests' = [requests EXCEPT ![s] = Tail(@)]
      /\ UNCHANGED waylandVars /\ UNCHANGED <<own, calls, open, told, native, surfaces, held>>
  BY DEF create_own_window, Took, ReplyCreate
<1>2. SessionTypes /\ CallAt(s)
  BY DEF PresentInv, CallInv
<1>3. /\ handler[s] = Idle /\ open[s] /\ Tail(requests[s]) = <<>> /\ blocked[s].in = "create"
      /\ Tail(requests[s]) \in Seq(Message)
  BY <1>1, BeginFacts
<1>4. requests'[s] = <<>> /\ requests' \in [Sessions -> Seq(Message)]
  BY <1>1, <1>2, <1>3 DEF SessionTypes
<1>5. /\ Len(surfaces[s]) <= calls[s] /\ DOMAIN held[s] \subseteq 1 .. Len(surfaces[s])
      /\ Len(surfaces[s]) < calls[s]
  BY <1>2, <1>3 DEF CallAt
<1>6. CASE \E w \in Windows \ own_windows :
             /\ own_windows' = own_windows \cup {w}
             /\ handler' = [handler EXCEPT ![s] = [at |-> "made", target |-> w]]
             /\ UNCHANGED blocked
  <2>1. PICK w \in Windows \ own_windows :
             /\ own_windows' = own_windows \cup {w}
             /\ handler' = [handler EXCEPT ![s] = [at |-> "made", target |-> w]]
             /\ UNCHANGED blocked
    BY <1>6
  <2>2. handler'[s] = [at |-> "made", target |-> w] /\ [at |-> "made", target |-> w] \in Handler
    BY <1>2, <2>1, HandlerMade DEF SessionTypes
  <2>3. handler'[s].at = "made"
    BY <2>2
  <2>4. Moves(s)
    BY <1>1, <1>2, <2>1 DEF Moves, SessionTypes
  <2>5. SessionTypes'
    BY <1>1, <1>2, <1>4, <2>1, <2>2 DEF SessionTypes
  <2>6. CallAt(s)'
    <3>1. \A i \in 1 .. Len(requests'[s]) : RequestAt(s, i)'
      BY <1>4
    <3>2. blocked'[s].in = "create" /\ open'[s] /\ calls'[s] = calls[s] /\ held'[s] = held[s]
          /\ surfaces'[s] = surfaces[s]
      BY <1>1, <1>3, <2>1
    <3>3. QED
      BY <1>4, <1>5, <2>3, <3>1, <3>2 DEF CallAt, Creating
  <2>7. RoleAt(s)'
    BY <1>1, <1>3, <2>1, <2>3 DEF RoleAt
  <2>8. \A t \in Sessions : handler'[t].at = "associate" => handler'[t] = handler[t]
    BY <2>3, <2>4 DEF Moves
  <2>9. SlotInv'
    BY <1>1, <2>8, SlotKept DEF PresentInv
  <2>10. RelayInv' /\ RoundtripInv'
    BY <1>1, <2>1, <2>3, <2>4, RoundMoves
  <2>11. QED
    BY <2>4, <2>5, <2>6, <2>7, <2>9, <2>10, MovesCalls DEF PresentInv
<1>7. CASE /\ UNCHANGED own_windows /\ blocked' = [blocked EXCEPT ![s] = Free]
           /\ handler' = [handler EXCEPT ![s] = Idle]
  <2>1. handler'[s] = Idle /\ handler'[s].at = "idle" /\ blocked'[s] = Free
    BY <1>2, <1>7, HandlerMade DEF SessionTypes
  <2>2. Moves(s)
    BY <1>1, <1>2, <1>7 DEF Moves, SessionTypes
  <2>3. SessionTypes'
    BY <1>1, <1>2, <1>4, <1>7, HandlerMade, CallMade DEF SessionTypes
  <2>4. CallInv' /\ RoleInv'
    BY <1>1, <1>3, <1>4, <1>5, <2>1, <2>2, ReplyFacts
  <2>5. \A t \in Sessions : handler'[t].at = "associate" => handler'[t] = handler[t]
    BY <2>1, <2>2 DEF Moves
  <2>6. SlotInv'
    BY <1>1, <2>5, SlotKept DEF PresentInv
  <2>7. RelayInv' /\ RoundtripInv'
    BY <1>1, <2>1, <2>2, RoundMoves
  <2>8. QED
    BY <2>3, <2>4, <2>6, <2>7 DEF PresentInv
<1>8. QED
  BY <1>6, <1>7 DEF create_own_window, To, ReplyCreate

LEMMA FindStep ==
  ASSUME RelayInv, PresentInv, NEW s \in Sessions, FindSurface(s)
  PROVE  RelayInv' /\ PresentInv'
<1>1. PICK r : r = Head(requests[s])
  OBVIOUS
<1>2. PICK x : x = [at |-> "found", target |-> surface_for_client_id(r.surface),
                    synced |-> r.synced]
  OBVIOUS
<1>3. /\ ~own /\ Begin(s, "create") /\ requests' = [requests EXCEPT ![s] = Tail(@)]
      /\ handler' = [handler EXCEPT ![s] = x] /\ UNCHANGED waylandVars
      /\ UNCHANGED <<own, calls, held, blocked, open, told, surfaces, native, own_windows>>
  BY <1>1, <1>2 DEF FindSurface, Took, To, windowVars
<1>4. SessionTypes /\ CallAt(s) /\ RoleAt(s)
  BY DEF PresentInv, CallInv, RoleInv
<1>5. /\ handler[s] = Idle /\ open[s] /\ Tail(requests[s]) = <<>> /\ blocked[s].in = "create"
      /\ Tail(requests[s]) \in Seq(Message) /\ s = App /\ r \in Message
      /\ blocked[s].surface = r.surface /\ blocked[s].synced = r.synced
  BY <1>1, <1>3, BeginFacts
<1>6. r.op = "create" /\ r.surface \in Nat /\ r.synced \in BOOLEAN
  BY <1>1, <1>3, <1>5, MessageFacts DEF Begin
<1>7. PICK y : y = surface_for_client_id(r.surface)
  OBVIOUS
<1>8. y \in Nat /\ y \in {0, r.surface} /\ (y # 0 => y \in DOMAIN objects)
  BY <1>6, <1>7 DEF surface_for_client_id
<1>9. x \in Handler /\ x.at = "found" /\ x.target = y /\ x.synced = r.synced
  BY <1>2, <1>6, <1>7, <1>8, HandlerMade
<1>10. handler'[s] = x /\ requests'[s] = <<>> /\ requests' \in [Sessions -> Seq(Message)]
  BY <1>3, <1>4, <1>5 DEF SessionTypes
<1>11. Moves(s)
  BY <1>3, <1>4 DEF Moves, SessionTypes
<1>12. SessionTypes'
  BY <1>3, <1>4, <1>9, <1>10 DEF SessionTypes
<1>13. CallAt(s)'
  <2>1. /\ Len(surfaces[s]) <= calls[s] /\ DOMAIN held[s] \subseteq 1 .. Len(surfaces[s])
        /\ Len(surfaces[s]) < calls[s]
    BY <1>4, <1>5 DEF CallAt
  <2>2. \A i \in 1 .. Len(requests'[s]) : RequestAt(s, i)'
    BY <1>10
  <2>3. blocked'[s].in = "create" /\ open'[s] /\ calls'[s] = calls[s] /\ held'[s] = held[s]
        /\ surfaces'[s] = surfaces[s]
    BY <1>3, <1>5
  <2>4. QED
    BY <1>10, <2>1, <2>2, <2>3 DEF CallAt, Creating
<1>14. RoleAt(s)'
  BY <1>3, <1>5, <1>9, <1>10 DEF RoleAt
<1>15. SlotInv'
  <2>1. \A t \in Sessions : handler'[t].at = "associate" => handler'[t] = handler[t]
    BY <1>9, <1>10, <1>11 DEF Moves
  <2>2. QED
    BY <1>3, <2>1, SlotKept DEF PresentInv
<1>16. RelayInv'
  BY <1>3, RelayQuiet
<1>17. RoundtripInv'
  <2>1. /\ r.surface \in DOMAIN app \cap ClientIds /\ app[r.surface] = "wl_surface"
        /\ r.synced => r.surface \in DOMAIN objects
    BY <1>3, <1>5 DEF PresentInv, RoundtripInv
  <2>2. r.synced => y # 0
    <3>1. r.surface # 0
      BY <2>1, RelayFacts
    <3>2. r.surface \in DOMAIN objects => objects[r.surface].iface = "wl_surface"
      BY <2>1 DEF RelayInv, ClientInv, ServerInv
    <3>3. QED
      BY <1>7, <2>1, <3>1, <3>2 DEF surface_for_client_id
  <2>3. UNCHANGED <<app, objects>> /\ ClientIds' = ClientIds
    BY <1>3 DEF waylandVars, appVars, serverVars, ClientIds
  <2>4. handler'[App] = x /\ blocked'[App] = blocked[App]
    BY <1>3, <1>5, <1>10
  <2>5. QED
    BY <1>5, <1>8, <1>9, <2>1, <2>2, <2>3, <2>4 DEF RoundtripInv
<1>18. QED
  BY <1>11, <1>12, <1>13, <1>14, <1>15, <1>16, <1>17, MovesCalls DEF PresentInv
\* Session s gets surface h, and its application the id of the slot.
LEMMA RegisterStep ==
  ASSUME RelayInv, PresentInv, NEW s \in Sessions, handler[s].at \in Creating, NEW h \in Handles,
         Register(s, h), ReplyCreate(s, TRUE), UNCHANGED waylandVars,
         UNCHANGED <<own, calls, requests, open, told, own_windows>>,
         DOMAIN native' \subseteq Handles, DOMAIN native \subseteq DOMAIN native',
         h \in DOMAIN native',
         \A t \in Sessions : \A j \in 1 .. Len(surfaces[t]) : surfaces[t][j] # h,
         \A t \in Sessions \ {s} : handler[t].at = "associate" => handler[t].surface # h
  PROVE  RelayInv' /\ PresentInv'
<1>1. SessionTypes /\ surfaces[s] \in Seq(Handles \cup {NoHandle}) /\ h \in Handles \cup {NoHandle}
  BY DEF PresentInv, SessionTypes
<1>2. /\ requests[s] = <<>> /\ open[s] /\ Len(surfaces[s]) \in Nat /\ calls[s] \in Nat
      /\ Len(surfaces[s]) < calls[s] /\ (own \/ s = App)
      /\ DOMAIN held[s] \subseteq 1 .. Len(surfaces[s])
  BY CreatingFacts
<1>3. PICK id : id = Len(surfaces'[s])
  OBVIOUS
<1>4. /\ surfaces' = [surfaces EXCEPT ![s] = Append(@, h)]
      /\ held' = [held EXCEPT ![s] = Put(@, id, blocked[s].surface)]
      /\ blocked' = [blocked EXCEPT ![s] = Free] /\ handler' = [handler EXCEPT ![s] = Idle]
  BY <1>3 DEF Register, ReplyCreate, To
<1>5. surfaces'[s] = Append(surfaces[s], h)
  BY <1>1, <1>4 DEF SessionTypes
<1>6. surfaces'[s] \in Seq(Handles \cup {NoHandle}) /\ id = Len(surfaces[s]) + 1
  BY <1>1, <1>3, <1>5, AppendFacts
<1>7. /\ DOMAIN held' = Sessions /\ held'[s] = Put(held[s], id, blocked[s].surface)
      /\ blocked'[s] = Free /\ handler'[s] = Idle /\ handler'[s].at = "idle"
  BY <1>1, <1>4, HandlerMade DEF SessionTypes
<1>8. DOMAIN held'[s] \subseteq 1 .. Len(surfaces'[s])
  <2>1. DOMAIN held'[s] = DOMAIN held[s] \cup {id}
    BY <1>7 DEF Put
  <2>2. QED
    BY <1>2, <1>3, <1>6, <2>1
<1>9. Moves(s)
  BY <1>1, <1>4 DEF Moves, SessionTypes
<1>10. SessionTypes'
  BY <1>1, <1>4, <1>5, <1>6, <1>7, HandlerMade, CallMade DEF SessionTypes
<1>11. CallInv' /\ RoleInv'
  <2>1. Len(surfaces'[s]) <= calls[s]
    BY <1>2, <1>3, <1>6
  <2>2. QED
    BY <1>2, <1>7, <1>8, <1>9, <2>1, ReplyFacts
<1>12. SlotInv'
  BY <1>1, <1>4, SlotAppend DEF PresentInv
<1>13. RelayInv' /\ RoundtripInv'
  BY <1>7, <1>9, RoundMoves
<1>14. QED
  BY <1>10, <1>11, <1>12, <1>13 DEF PresentInv

\* A create that fails: nothing is registered.
LEMMA RefuseStep ==
  ASSUME RelayInv, PresentInv, NEW s \in Sessions, handler[s].at \in Creating,
         UNCHANGED surfaces, ReplyCreate(s, FALSE), UNCHANGED waylandVars,
         UNCHANGED <<own, calls, requests, open, told, native>>, own_windows' \subseteq own_windows
  PROVE  RelayInv' /\ PresentInv'
<1>1. SessionTypes
  BY DEF PresentInv
<1>2. /\ requests[s] = <<>> /\ open[s] /\ Len(surfaces[s]) \in Nat /\ calls[s] \in Nat
      /\ Len(surfaces[s]) < calls[s] /\ (own \/ s = App)
      /\ DOMAIN held[s] \subseteq 1 .. Len(surfaces[s])
  BY CreatingFacts
<1>3. /\ held' = held
      /\ blocked' = [blocked EXCEPT ![s] = Free] /\ handler' = [handler EXCEPT ![s] = Idle]
  BY DEF ReplyCreate, To
<1>4. blocked'[s] = Free /\ handler'[s] = Idle /\ handler'[s].at = "idle"
  BY <1>1, <1>3, HandlerMade DEF SessionTypes
<1>5. Moves(s)
  BY <1>1, <1>3 DEF Moves, SessionTypes
<1>6. SessionTypes'
  BY <1>1, <1>3, HandlerMade, CallMade DEF SessionTypes
<1>7. CallInv' /\ RoleInv'
  BY <1>2, <1>3, <1>4, <1>5, ReplyFacts
<1>8. SlotInv'
  <2>1. \A t \in Sessions : handler'[t].at = "associate" => handler'[t] = handler[t]
    BY <1>4, <1>5 DEF Moves
  <2>2. QED
    BY <2>1, SlotKept DEF PresentInv
<1>9. RelayInv' /\ RoundtripInv'
  BY <1>4, <1>5, RoundMoves
<1>10. QED
  BY <1>6, <1>7, <1>8, <1>9 DEF PresentInv

\* No slot and no handler has a handle that the driver does not.
LEMMA FreshFacts ==
  ASSUME PresentInv, NEW h \in Fresh
  PROVE  /\ h \in Handles /\ h \notin DOMAIN native /\ NoHandle \notin Handles
         /\ \A t \in Sessions : \A j \in 1 .. Len(surfaces[t]) : surfaces[t][j] # h
         /\ \A t \in Sessions : handler[t].at = "associate" => handler[t].surface # h
<1>1. h \in Handles /\ h \notin DOMAIN native /\ NoHandle \notin Handles
  BY PresentationAssumption DEF Fresh
<1>2. \A t \in Sessions : PendingAt(t) /\ \A j \in 1 .. Len(surfaces[t]) : SlotAt(t, j)
  BY DEF PresentInv, SlotInv
<1>3. QED
  BY <1>1, <1>2 DEF SlotAt, PendingAt

LEMMA ProxiedStep ==
  ASSUME RelayInv, PresentInv, NEW s \in Sessions, CreateProxied(s)
  PROVE  RelayInv' /\ PresentInv'
<1>1. /\ handler[s].at = "found" /\ UNCHANGED waylandVars
      /\ UNCHANGED <<own, calls, requests, open, told, own_windows>>
  BY DEF CreateProxied, windowVars
<1>2. handler[s].at \in Creating
  BY <1>1 DEF Creating
<1>3. ASSUME NEW h \in Fresh, native' = Put(native, h, handler[s].target), Register(s, h),
             ReplyCreate(s, TRUE)
      PROVE  RelayInv' /\ PresentInv'
  <2>1. DOMAIN native' = DOMAIN native \cup {h}
    BY <1>3 DEF Put
  <2>2. DOMAIN native \subseteq Handles
    BY DEF PresentInv, SessionTypes
  <2>3. /\ h \in Handles
        /\ \A t \in Sessions : \A j \in 1 .. Len(surfaces[t]) : surfaces[t][j] # h
        /\ \A t \in Sessions : handler[t].at = "associate" => handler[t].surface # h
    BY FreshFacts
  <2>4. QED
    BY <1>1, <1>2, <1>3, <2>1, <2>2, <2>3, RegisterStep
<1>4. CASE UNCHANGED <<native, surfaces>> /\ ReplyCreate(s, FALSE)
  BY <1>1, <1>2, <1>4, RefuseStep
<1>5. QED
  BY <1>3, <1>4 DEF CreateProxied
LEMMA OnWindowStep ==
  ASSUME RelayInv, PresentInv, NEW s \in Sessions, CreateOnWindow(s)
  PROVE  RelayInv' /\ PresentInv'
<1>1. PICK w : w = handler[s].target
  OBVIOUS
<1>2. /\ handler[s].at = "made" /\ UNCHANGED waylandVars
      /\ UNCHANGED <<own, calls, held, blocked, requests, open, told, surfaces, own_windows>>
      /\ \/ \E h \in Fresh :
              /\ native' = Put(native, h, w)
              /\ handler' = [handler EXCEPT ![s] = [at |-> "associate", target |-> w,
                                                    surface |-> h]]
         \/ /\ handler' = [handler EXCEPT ![s] = [at |-> "discard", target |-> w]]
            /\ UNCHANGED native
  BY <1>1 DEF CreateOnWindow, To, callVars, windowVars
<1>3. SessionTypes /\ CallAt(s) /\ RoleAt(s) /\ handler[s] \in Handler
  BY DEF PresentInv, CallInv, RoleInv, SessionTypes
<1>4. w \in Windows /\ handler[s].at \in Creating
  BY <1>1, <1>2, <1>3, HandlerFacts DEF Creating
<1>5. own /\ requests[s] = <<>> /\ blocked[s].in = "create" /\ open[s]
  BY <1>2, <1>4, CreatingFacts
<1>6. ASSUME NEW x \in Handler, x.at \in {"associate", "discard"},
             handler' = [handler EXCEPT ![s] = x], DOMAIN native' \subseteq Handles, SlotInv'
      PROVE  RelayInv' /\ PresentInv'
  <2>1. handler'[s] = x
    BY <1>3, <1>6 DEF SessionTypes
  <2>2. Moves(s)
    BY <1>2, <1>3, <1>6 DEF Moves, SessionTypes
  <2>3. SessionTypes'
    BY <1>2, <1>3, <1>6 DEF SessionTypes
  <2>4. CallAt(s)'
    <3>1. \A i \in 1 .. Len(requests'[s]) : RequestAt(s, i)'
      BY <1>2, <1>5
    <3>2. QED
      BY <1>2, <1>3, <1>5, <3>1 DEF CallAt, Creating
  <2>5. RoleAt(s)'
    BY <1>2, <1>3, <1>5, <1>6, <2>1 DEF RoleAt
  <2>6. RelayInv' /\ RoundtripInv'
    BY <1>2, <1>6, <2>1, <2>2, RoundMoves
  <2>7. QED
    BY <1>6, <2>2, <2>3, <2>4, <2>5, <2>6, MovesCalls DEF PresentInv
<1>7. ASSUME NEW h \in Fresh, native' = Put(native, h, w),
             handler' = [handler EXCEPT ![s] = [at |-> "associate", target |-> w, surface |-> h]]
      PROVE  RelayInv' /\ PresentInv'
  <2>1. h \in Handles \ DOMAIN native /\ NoHandle \notin Handles
    BY FreshFacts
  <2>2. DOMAIN native' = DOMAIN native \cup {h}
    BY <1>7 DEF Put
  <2>3. DOMAIN native' \subseteq Handles
    BY <1>3, <2>1, <2>2 DEF SessionTypes
  <2>4. PICK x : x = [at |-> "associate", target |-> w, surface |-> h]
    OBVIOUS
  <2>5. x \in Handler /\ x.at = "associate" /\ x.surface = h
    BY <1>4, <2>1, <2>4, HandlerMade
  <2>6. SlotInv'
    BY <1>2, <1>3, <1>7, <2>1, <2>2, <2>4, <2>5, SlotPending DEF PresentInv
  <2>7. QED
    BY <1>6, <1>7, <2>3, <2>4, <2>5, <2>6
<1>8. CASE handler' = [handler EXCEPT ![s] = [at |-> "discard", target |-> w]] /\ UNCHANGED native
  <2>1. PICK x : x = [at |-> "discard", target |-> w]
    OBVIOUS
  <2>2. x \in Handler /\ x.at = "discard"
    BY <1>4, <2>1, HandlerMade
  <2>3. \A t \in Sessions : handler'[t].at = "associate" => handler'[t] = handler[t]
    BY <1>3, <1>8, <2>1, <2>2 DEF SessionTypes
  <2>4. SlotInv' /\ DOMAIN native' \subseteq Handles
    BY <1>2, <1>3, <1>8, <2>3, SlotKept DEF PresentInv, SessionTypes
  <2>5. QED
    BY <1>6, <1>8, <2>1, <2>2, <2>4
<1>9. QED
  BY <1>2, <1>7, <1>8

LEMMA AssociateStep ==
  ASSUME RelayInv, PresentInv, NEW s \in Sessions, associate_surface(s)
  PROVE  RelayInv' /\ PresentInv'
<1>1. PICK h : h = handler[s].surface
  OBVIOUS
<1>2. /\ handler[s].at = "associate" /\ UNCHANGED waylandVars /\ Register(s, h)
      /\ ReplyCreate(s, TRUE)
      /\ UNCHANGED <<own, calls, requests, open, told, native, own_windows>>
  BY <1>1 DEF associate_surface
<1>3. PendingAt(s) /\ DOMAIN native \subseteq Handles
  BY DEF PresentInv, SlotInv, SessionTypes
<1>4. /\ h \in DOMAIN native /\ h \in Handles
      /\ \A t \in Sessions : \A j \in 1 .. Len(surfaces[t]) : surfaces[t][j] # h
      /\ \A t \in Sessions \ {s} : handler[t].at = "associate" => handler[t].surface # h
  BY <1>1, <1>2, <1>3 DEF PendingAt
<1>5. handler[s].at \in Creating
  BY <1>2 DEF Creating
<1>6. QED
  BY <1>2, <1>3, <1>4, <1>5, RegisterStep

LEMMA DiscardStep ==
  ASSUME RelayInv, PresentInv, NEW s \in Sessions, discard_own_window(s)
  PROVE  RelayInv' /\ PresentInv'
<1>1. /\ handler[s].at \in Creating /\ own_windows' \subseteq own_windows
      /\ UNCHANGED surfaces /\ ReplyCreate(s, FALSE) /\ UNCHANGED waylandVars
      /\ UNCHANGED <<own, calls, requests, open, told, native>>
  BY DEF discard_own_window, Creating
<1>2. QED
  BY <1>1, RefuseStep

\* A surface is destroyed: slot id, with what it holds, which may be nothing.
LEMMA DestroyedStep ==
  ASSUME RelayInv, PresentInv, NEW s \in Sessions, NEW id, NEW h, handler[s] = Idle,
         IF id \in 1 .. Len(surfaces[s]) THEN h = surfaces[s][id] ELSE h = NoHandle,
         surfaces' = [surfaces EXCEPT ![s][id] = NoHandle],
         native' = Without(native, h),
         To(s, [at |-> "release", surface |-> h]), UNCHANGED waylandVars,
         UNCHANGED <<own, calls, held, blocked, open, told, own_windows>>,
         requests' \in [Sessions -> Seq(Message)],
         \A t \in Sessions \ {s} : requests'[t] = requests[t],
         \A i \in 1 .. Len(requests'[s]) : RequestAt(s, i)',
         own \/ s = App
  PROVE  RelayInv' /\ PresentInv'
<1>1. SessionTypes /\ CallAt(s) /\ RoleAt(s) /\ NoHandle \notin Handles
  BY PresentationAssumption DEF PresentInv, CallInv, RoleInv
<1>2. handler' = [handler EXCEPT ![s] = [at |-> "release", surface |-> h]]
  BY DEF To
<1>3. /\ SlotInv' /\ surfaces' \in [Sessions -> Seq(Handles \cup {NoHandle})]
      /\ Len(surfaces'[s]) = Len(surfaces[s])
      /\ DOMAIN native' = DOMAIN native \ {h} /\ h \in Handles \cup {NoHandle}
  BY <1>1, <1>2, SlotGone DEF PresentInv
<1>4. PICK x : x = [at |-> "release", surface |-> h]
  OBVIOUS
<1>5. x \in Handler /\ x.at = "release" /\ handler'[s] = x
  BY <1>1, <1>2, <1>3, <1>4, HandlerMade DEF SessionTypes
<1>6. Moves(s)
  BY <1>1, <1>2 DEF Moves, SessionTypes
<1>7. SessionTypes'
  BY <1>1, <1>2, <1>3, <1>4, <1>5 DEF SessionTypes
<1>8. CallAt(s)'
  <2>1. /\ calls'[s] = calls[s] /\ held'[s] = held[s] /\ blocked'[s] = blocked[s]
        /\ handler'[s].at \notin Creating
    BY <1>5 DEF Creating
  <2>2. QED
    BY <1>1, <1>3, <2>1 DEF CallAt
<1>9. RoleAt(s)'
  BY <1>1, <1>5 DEF RoleAt
<1>10. RelayInv' /\ RoundtripInv'
  BY <1>5, <1>6, RoundMoves
<1>11. QED
  BY <1>3, <1>6, <1>7, <1>8, <1>9, <1>10, MovesCalls DEF PresentInv
LEMMA HandleDestroyStep ==
  ASSUME RelayInv, PresentInv, NEW s \in Sessions, handle_DestroySurfaceKHR(s)
  PROVE  RelayInv' /\ PresentInv'
<1>1. PICK id : id = Head(requests[s]).id
  OBVIOUS
<1>2. PICK h : h = SurfaceOf(s, id)
  OBVIOUS
<1>3. /\ Begin(s, "destroy") /\ requests' = [requests EXCEPT ![s] = Tail(@)]
      /\ surfaces' = [surfaces EXCEPT ![s][id] = NoHandle] /\ native' = Without(native, h)
      /\ To(s, [at |-> "release", surface |-> h]) /\ UNCHANGED waylandVars
      /\ UNCHANGED <<own, calls, held, blocked, open, told, own_windows>>
  BY <1>1, <1>2 DEF handle_DestroySurfaceKHR, Took, windowVars
<1>4. SessionTypes /\ CallAt(s) /\ requests[s] \in Seq(Message)
      /\ surfaces[s] \in Seq(Handles \cup {NoHandle})
  BY DEF PresentInv, CallInv, SessionTypes
<1>5. handler[s] = Idle /\ (own \/ s = App) /\ requests[s] # <<>>
  BY <1>3, BeginFacts DEF Begin
<1>6. IF id \in 1 .. Len(surfaces[s]) THEN h = surfaces[s][id] ELSE h = NoHandle
  BY <1>2, <1>4 DEF SurfaceOf
<1>7. requests'[s] = Tail(requests[s]) /\ \A t \in Sessions \ {s} : requests'[t] = requests[t]
  BY <1>3, <1>4 DEF SessionTypes
<1>8. /\ Tail(requests[s]) \in Seq(Message) /\ Len(Tail(requests[s])) = Len(requests[s]) - 1
      /\ Len(requests[s]) \in Nat \ {0}
      /\ \A i \in 1 .. Len(Tail(requests[s])) : Tail(requests[s])[i] = requests[s][i + 1]
  BY <1>4, <1>5, TailFacts
<1>9. requests' \in [Sessions -> Seq(Message)]
  BY <1>3, <1>4, <1>8 DEF SessionTypes
<1>10. handler'[s].at = "release"
  BY <1>3, <1>4 DEF To, SessionTypes
<1>11. ASSUME NEW i \in 1 .. Len(requests'[s])  PROVE RequestAt(s, i)'
  <2>1. /\ i + 1 \in 1 .. Len(requests[s]) /\ requests'[s][i] = requests[s][i + 1]
        /\ (i + 1 = Len(requests[s]) => i = Len(requests'[s]))
    BY <1>7, <1>8
  <2>2. RequestAt(s, i + 1)
    BY <1>4, <2>1 DEF CallAt
  <2>3. QED
    BY <1>3, <1>10, <2>1, <2>2 DEF RequestAt, Creating
<1>12. QED
  BY <1>3, <1>5, <1>6, <1>7, <1>9, <1>11, DestroyedStep

\* A set of naturals that has an element has a least one.
LEMMA LeastSlot ==
  ASSUME NEW S \in SUBSET Nat, S # {}
  PROVE  (CHOOSE i \in S : \A j \in S : i <= j) \in S
<1>1. PICK R : R = {p \in Nat \X Nat : p[1] < p[2]}
  OBVIOUS
<1>2. IsWellFoundedOn(R, Nat)
  BY <1>1, NatLessThanWellFounded DEF OpToRel
<1>3. PICK m \in S : \A x \in S : ~(<<x, m>> \in R)
  BY <1>2, WFMin
<1>4. \A x \in S : ~(x < m)
  BY <1>1, <1>3
<1>5. \A x \in S : m <= x
  BY <1>4
<1>6. QED
  BY <1>5

LEMMA TeardownStep ==
  ASSUME RelayInv, PresentInv, NEW s \in Sessions, destroy_session_objects(s)
  PROVE  RelayInv' /\ PresentInv'
<1>1. PICK left : left = {i \in DOMAIN surfaces[s] : surfaces[s][i] # NoHandle}
  OBVIOUS
<1>2. PICK id : id = CHOOSE i \in left : \A j \in left : i <= j
  OBVIOUS
<1>3. PICK h : h = surfaces[s][id]
  OBVIOUS
<1>4. /\ ~open[s] /\ handler[s] = Idle /\ left # {}
      /\ surfaces' = [surfaces EXCEPT ![s][id] = NoHandle] /\ native' = Without(native, h)
      /\ To(s, [at |-> "release", surface |-> h]) /\ UNCHANGED waylandVars
      /\ UNCHANGED <<own, calls, held, blocked, open, told, own_windows, requests>>
  BY <1>1, <1>2, <1>3 DEF destroy_session_objects, callVars, windowVars
<1>5. SessionTypes /\ CallAt(s) /\ RoleAt(s) /\ surfaces[s] \in Seq(Handles \cup {NoHandle})
  BY DEF PresentInv, CallInv, RoleInv, SessionTypes
<1>6. left \in SUBSET Nat /\ left \subseteq 1 .. Len(surfaces[s])
  BY <1>1, <1>5
<1>7. id \in left
  BY <1>2, <1>4, <1>6, LeastSlot
<1>8. IF id \in 1 .. Len(surfaces[s]) THEN h = surfaces[s][id] ELSE h = NoHandle
  BY <1>3, <1>6, <1>7
<1>9. own \/ s = App
  BY <1>4, <1>5 DEF RoleAt
<1>10. handler'[s].at = "release" /\ requests' \in [Sessions -> Seq(Message)]
  BY <1>4, <1>5 DEF To, SessionTypes
<1>11. ASSUME NEW i \in 1 .. Len(requests'[s])  PROVE RequestAt(s, i)'
  <2>1. RequestAt(s, i)
    BY <1>4, <1>5 DEF CallAt
  <2>2. QED
    BY <1>4, <1>10, <2>1 DEF RequestAt, Creating
<1>12. QED
  BY <1>4, <1>8, <1>9, <1>10, <1>11, DestroyedStep

LEMMA ReleaseStep ==
  ASSUME RelayInv, PresentInv, NEW s \in Sessions, release_surface_window(s)
  PROVE  RelayInv' /\ PresentInv'
<1>1. /\ handler[s].at = "release" /\ handler' = [handler EXCEPT ![s] = Idle]
      /\ own_windows' \subseteq own_windows /\ UNCHANGED waylandVars
      /\ UNCHANGED <<own, calls, held, blocked, requests, open, told, surfaces, native>>
  BY DEF release_surface_window, To, callVars
<1>2. SessionTypes /\ CallAt(s) /\ RoleAt(s)
  BY DEF PresentInv, CallInv, RoleInv
<1>3. handler'[s] = Idle /\ handler'[s].at = "idle"
  BY <1>1, <1>2, HandlerMade DEF SessionTypes
<1>4. Moves(s)
  BY <1>1, <1>2 DEF Moves, SessionTypes
<1>5. SessionTypes'
  BY <1>1, <1>2, HandlerMade DEF SessionTypes
<1>6. CallAt(s)'
  <2>1. \A i : RequestAt(s, i) => RequestAt(s, i)'
    BY <1>1, <1>3 DEF RequestAt, Creating
  <2>2. QED
    BY <1>1, <1>2, <1>3, <2>1 DEF CallAt, Creating
<1>7. RoleAt(s)'
  BY <1>1, <1>2, <1>3 DEF RoleAt
<1>8. SlotInv'
  <2>1. \A t \in Sessions : handler'[t].at = "associate" => handler'[t] = handler[t]
    BY <1>3, <1>4 DEF Moves
  <2>2. QED
    BY <1>1, <2>1, SlotKept DEF PresentInv
<1>9. RelayInv' /\ RoundtripInv'
  BY <1>1, <1>3, <1>4, RoundMoves
<1>10. QED
  BY <1>4, <1>5, <1>6, <1>7, <1>8, <1>9, MovesCalls DEF PresentInv

LEMMA HandleAcquireStep ==
  ASSUME RelayInv, PresentInv, NEW s \in Sessions, handle_AcquireNextImageKHR(s)
  PROVE  RelayInv' /\ PresentInv'
<1>1. /\ Begin(s, "acquire") /\ requests' = [requests EXCEPT ![s] = Tail(@)]
      /\ blocked' = [blocked EXCEPT ![s] = Free] /\ UNCHANGED waylandVars
      /\ told' = [told EXCEPT ![s] = "VK_ERROR_SURFACE_LOST_KHR"]
           \/ told' = [told EXCEPT ![s] = "VK_SUCCESS"]
      /\ UNCHANGED <<own, calls, held, handler, open, surfaces, native, own_windows>>
  BY DEF handle_AcquireNextImageKHR, Took
<1>2. SessionTypes /\ CallAt(s)
  BY DEF PresentInv, CallInv
<1>3. /\ handler[s] = Idle /\ open[s] /\ Tail(requests[s]) = <<>> /\ (own \/ s = App)
      /\ Tail(requests[s]) \in Seq(Message)
  BY <1>1, BeginFacts
<1>4. requests'[s] = <<>> /\ requests' \in [Sessions -> Seq(Message)] /\ blocked'[s] = Free
  BY <1>1, <1>2, <1>3 DEF SessionTypes
<1>5. Moves(s)
  BY <1>1, <1>2 DEF Moves, SessionTypes
<1>6. SessionTypes'
  BY <1>1, <1>2, <1>4, CallMade DEF SessionTypes
<1>7. CallInv' /\ RoleInv'
  <2>1. Len(surfaces'[s]) <= calls[s] /\ DOMAIN held'[s] \subseteq 1 .. Len(surfaces'[s])
    BY <1>1, <1>2 DEF CallAt
  <2>2. QED
    BY <1>1, <1>3, <1>4, <1>5, <2>1, ReplyFacts
<1>8. SlotInv'
  BY <1>1, SlotKept DEF PresentInv
<1>9. RelayInv' /\ RoundtripInv'
  BY <1>1, <1>3, <1>4, <1>5, RoundMoves, HandlerMade
<1>10. QED
  BY <1>6, <1>7, <1>8, <1>9 DEF PresentInv

LEMMA DisconnectStep ==
  ASSUME RelayInv, PresentInv, NEW s \in Sessions, Disconnect(s)
  PROVE  RelayInv' /\ PresentInv'
<1>1. /\ handler[s] = Idle /\ (own \/ s = App) /\ open' = [open EXCEPT ![s] = FALSE]
      /\ requests' = [requests EXCEPT ![s] = <<>>] /\ held' = [held EXCEPT ![s] = <<>>]
      /\ blocked' = [blocked EXCEPT ![s] = Free] /\ UNCHANGED waylandVars
      /\ UNCHANGED <<own, calls, handler, told, surfaces, native, own_windows>>
  BY DEF Disconnect, windowVars
<1>2. SessionTypes /\ CallAt(s)
  BY DEF PresentInv, CallInv
<1>3. /\ requests'[s] = <<>> /\ blocked'[s] = Free /\ held'[s] = <<>> /\ handler'[s] = Idle
      /\ handler'[s].at = "idle" /\ blocked'[s].in = "none"
  BY <1>1, <1>2, HandlerMade, CallMade DEF SessionTypes
<1>4. Moves(s)
  BY <1>1, <1>2 DEF Moves, SessionTypes
<1>5. SessionTypes'
  BY <1>1, <1>2, CallMade DEF SessionTypes
<1>6. CallAt(s)'
  <2>1. \A i \in 1 .. Len(requests'[s]) : RequestAt(s, i)'
    BY <1>3
  <2>2. DOMAIN held'[s] \subseteq 1 .. Len(surfaces'[s]) /\ Len(surfaces'[s]) <= calls'[s]
    BY <1>1, <1>2, <1>3 DEF CallAt
  <2>3. QED
    BY <1>3, <2>1, <2>2 DEF CallAt, Creating
<1>7. RoleAt(s)'
  BY <1>1, <1>3 DEF RoleAt
<1>8. SlotInv'
  BY <1>1, SlotKept DEF PresentInv
<1>9. RelayInv' /\ RoundtripInv'
  BY <1>1, <1>3, <1>4, RoundMoves
<1>10. QED
  BY <1>4, <1>5, <1>6, <1>7, <1>8, <1>9, MovesCalls DEF PresentInv
LEMMA SessionQuiet ==
  ASSUME RelayInv, PresentInv, UNCHANGED waylandVars,
         UNCHANGED <<own, calls, held, blocked, requests, open, told, handler, surfaces, native,
                     own_windows>>
  PROVE  RelayInv' /\ PresentInv'
<1>1. App \in Sessions
  BY PresentationAssumption
<1>2. RelayInv' /\ RelayKeeps
  BY RelayQuiet
<1>3. SessionTypes'
  BY DEF PresentInv, SessionTypes
<1>4. Moves(App) /\ CallAt(App)' /\ RoleAt(App)'
  BY <1>1 DEF PresentInv, Moves, CallInv, CallAt, RequestAt, RoleInv, RoleAt
<1>5. SlotInv'
  BY SlotKept DEF PresentInv
<1>6. handler[App].at = "found" => blocked[App].in = "create"
  BY <1>1 DEF PresentInv, CallInv, CallAt, Creating
<1>7. RoundtripInv'
  BY <1>2, <1>6, RoundKept DEF PresentInv
<1>8. QED
  BY <1>1, <1>2, <1>3, <1>4, <1>5, <1>7, MovesCalls DEF PresentInv

\* Every step keeps the invariant of the relay and of the sessions.
LEMMA PresentStep ==
  ASSUME RelayInv, PresentInv, [Next]_vars
  PROVE  RelayInv' /\ PresentInv'
<1>1. CASE Wayland
  BY <1>1, WaylandStep
<1>2. ASSUME NEW o \in DOMAIN app, CreateWaylandSurfaceKHR(o)  PROVE RelayInv' /\ PresentInv'
  BY <1>2, BeginRoundtripStep
<1>3. CASE RoundtripReturns
  BY <1>3, RoundtripStep
<1>4. ASSUME NEW s \in Sessions,
             \/ CreateOwnSurface(s)
             \/ \E id \in DOMAIN held[s] : DestroySurfaceKHR(s, id) \/ AcquireNextImageKHR(s, id)
      PROVE  RelayInv' /\ PresentInv'
  BY <1>4, CallStep
<1>5. ASSUME NEW s \in Sessions,
             \/ create_own_window(s) \/ FindSurface(s) \/ CreateProxied(s) \/ CreateOnWindow(s)
             \/ associate_surface(s) \/ discard_own_window(s)
      PROVE  RelayInv' /\ PresentInv'
  BY <1>5, OpenWindowStep, FindStep, ProxiedStep, OnWindowStep, AssociateStep, DiscardStep
<1>6. ASSUME NEW s \in Sessions,
             \/ handle_DestroySurfaceKHR(s) \/ destroy_session_objects(s)
             \/ release_surface_window(s) \/ handle_AcquireNextImageKHR(s) \/ Disconnect(s)
      PROVE  RelayInv' /\ PresentInv'
  BY <1>6, HandleDestroyStep, TeardownStep, ReleaseStep, HandleAcquireStep, DisconnectStep
<1>7. ASSUME NEW w \in Windows, toplevel_close(w) \/ toplevel_configure(w)
      PROVE  RelayInv' /\ PresentInv'
  <2>1. /\ UNCHANGED waylandVars
        /\ UNCHANGED <<own, calls, held, blocked, requests, open, told, handler, surfaces,
                       native, own_windows>>
    BY <1>7 DEF toplevel_close, toplevel_configure, callVars
  <2>2. QED
    BY <2>1, SessionQuiet
<1>8. CASE UNCHANGED vars
  <2>1. /\ UNCHANGED waylandVars
        /\ UNCHANGED <<own, calls, held, blocked, requests, open, told, handler, surfaces,
                       native, own_windows>>
    BY <1>8 DEF vars, callVars, windowVars
  <2>2. QED
    BY <2>1, SessionQuiet
<1>9. QED
  BY <1>1, <1>2, <1>3, <1>4, <1>5, <1>6, <1>7, <1>8 DEF Next

\* What the invariant says of the two ends.
LEMMA PresentAgrees ==
  ASSUME RelayInv, PresentInv  PROVE RelayAgrees
<1>1. SessionTypes /\ CallInv /\ SlotInv /\ RoleInv /\ RoundtripInv /\ App \in Sessions
      /\ MaxSurfaces \in Nat
  BY PresentationAssumption DEF PresentInv
<1>2. ASSUME NEW s \in Sessions
      PROVE  /\ calls[s] \in 0 .. MaxSurfaces /\ Len(surfaces[s]) <= calls[s]
             /\ Range(surfaces[s]) \subseteq DOMAIN native \cup {NoHandle}
             /\ blocked[s].in \in {"none", "roundtrip", "create", "acquire"}
             /\ told[s] \in {"nothing", "VK_SUCCESS", "VK_ERROR_SURFACE_LOST_KHR"}
  <2>1. /\ calls[s] \in 0 .. MaxSurfaces /\ blocked[s] \in Call
        /\ surfaces[s] \in Seq(Handles \cup {NoHandle})
        /\ told[s] \in {"nothing", "VK_SUCCESS", "VK_ERROR_SURFACE_LOST_KHR"}
    BY <1>1 DEF SessionTypes
  <2>2. Len(surfaces[s]) <= calls[s]
    BY <1>1 DEF CallInv, CallAt
  <2>3. blocked[s].in \in {"none", "roundtrip", "create", "acquire"}
    BY <2>1, CallFacts
  <2>4. \A i \in 1 .. Len(surfaces[s]) : surfaces[s][i] \in DOMAIN native \cup {NoHandle}
    BY <1>1 DEF SlotInv, SlotAt
  <2>5. Range(surfaces[s]) \subseteq DOMAIN native \cup {NoHandle}
    BY <2>1, <2>4 DEF Range
  <2>6. QED
    BY <2>1, <2>2, <2>3, <2>5
<1>3. TypeOK
  BY <1>1, <1>2, RelayTypeOK DEF TypeOK, SessionTypes
<1>4. FoundAfterRoundtrip
  <2>1. ASSUME NEW s \in Sessions, handler[s].at = "found", handler[s].synced
        PROVE  handler[s].target # 0
    <3>1. ~own /\ s = App
      BY <1>1, <2>1, CreatingFacts DEF PresentInv, Creating
    <3>2. QED
      BY <1>1, <2>1, <3>1 DEF RoundtripInv
  <2>2. QED
    BY <2>1 DEF FoundAfterRoundtrip
<1>5. QED
  BY <1>3, <1>4 DEF RelayAgrees, RelayInv

\* The relay's two tables never come apart (src/wayland/proxy_client.cpp,
\* src/wayland/proxy_server.cpp), whatever crosses on the link and whoever ends
\* it, and a surface the application asks for after the roundtrip is found
\* (src/client/wsi.cpp), for any number of ids, events, sessions and surfaces.
THEOREM RelayDoesAgree == Spec => []RelayAgrees
<1>1. Init => RelayInv /\ PresentInv
  BY RelayInit, PresentInit DEF Init
<1>2. RelayInv /\ PresentInv /\ [Next]_vars => (RelayInv /\ PresentInv)'
  BY PresentStep
<1>3. RelayInv /\ PresentInv => RelayAgrees
  BY PresentAgrees
<1>4. QED
  BY <1>1, <1>2, <1>3, PTL DEF Spec
-----------------------------------------------------------------------------
(* The server's windows. *)

LEMMA WindowQuiet ==
  ASSUME WindowInv,
         UNCHANGED <<own, own_windows, surface_windows, native, handler, surfaces>>
  PROVE  WindowInv'
<1>1. \A h : (NativeAt(h) => NativeAt(h)') /\ (NamedAt(h) => NamedAt(h)')
  BY DEF NativeAt, NamedAt, Releasing
<1>2. \A s : (MakerAt(s) => MakerAt(s)') /\ (ReleaserAt(s) => ReleaserAt(s)')
  BY DEF MakerAt, ReleaserAt
<1>3. (NamedSlots => NamedSlots') /\ \A w : Owned(w) => Owned(w)'
  BY DEF NamedSlots, Owned, Releasing
<1>4. QED
  BY <1>1, <1>2, <1>3 DEF WindowInv

\* Where the server opens no windows.
LEMMA NoWindows ==
  ASSUME WindowInv, ~own, own' = own, UNCHANGED <<own_windows, surface_windows>>
  PROVE  WindowInv'
BY DEF WindowInv

\* Window w is opened, for session s.
LEMMA OpenedWindow ==
  ASSUME PresentInv, WindowInv, own, own' = own, NEW s \in Sessions, handler[s] = Idle,
         NEW w \in Windows \ own_windows, own_windows' = own_windows \cup {w}, NEW x,
         handler' = [handler EXCEPT ![s] = x], x.at = "made", x.target = w,
         UNCHANGED <<surface_windows, native, surfaces>>
  PROVE  WindowInv'
<1>1. handler'[s] = x /\ \A t \in Sessions \ {s} : handler'[t] = handler[t]
  BY DEF PresentInv, SessionTypes
<1>2. handler[s].at = "idle"
  BY HandlerMade
<1>3. \A h : Releasing(h) => Releasing(h)'
  BY <1>1, <1>2 DEF Releasing
<1>4. \A h \in DOMAIN native : NativeAt(h)'
  BY DEF WindowInv, NativeAt
<1>5. ASSUME NEW h \in DOMAIN surface_windows  PROVE NamedAt(h)'
  <2>1. NamedAt(h)
    BY DEF WindowInv
  <2>2. QED
    BY <1>3, <2>1 DEF NamedAt
<1>6. \A h \in DOMAIN native : native[h] # w
  BY DEF WindowInv, NativeAt
<1>7. \A h \in DOMAIN surface_windows : surface_windows[h] # w
  BY DEF WindowInv, NamedAt
<1>8. \A t \in Sessions : MakerAt(t) /\ ReleaserAt(t)
  BY DEF WindowInv
<1>9. \A t \in Sessions : handler[t].at \in Makers => handler[t].target # w
  BY <1>8 DEF MakerAt
<1>10. MakerAt(s)' /\ ReleaserAt(s)'
  BY <1>1, <1>6, <1>7, <1>9 DEF MakerAt, ReleaserAt, Makers
<1>11. ASSUME NEW t \in Sessions \ {s}  PROVE MakerAt(t)' /\ ReleaserAt(t)'
  <2>1. MakerAt(t)'
    BY <1>1, <1>8, <1>9 DEF MakerAt, Makers
  <2>2. ReleaserAt(t)'
    BY <1>1, <1>8 DEF ReleaserAt
  <2>3. QED
    BY <2>1, <2>2
<1>12. NamedSlots'
  BY DEF WindowInv, NamedSlots
<1>13. ASSUME NEW v \in own_windows'  PROVE Owned(v)'
  <2>1. CASE v = w
    BY <1>1, <2>1 DEF Owned, Makers
  <2>2. CASE v # w
    <3>1. Owned(v)
      BY <2>2 DEF WindowInv
    <3>2. (\E t \in Sessions : handler[t].at \in Makers /\ handler[t].target = v)
            => \E t \in Sessions : handler'[t].at \in Makers /\ handler'[t].target = v
      BY <1>1, <1>2 DEF Makers
    <3>3. QED
      BY <1>3, <3>1, <3>2 DEF Owned
  <2>3. QED
    BY <2>1, <2>2
<1>14. QED
  BY <1>4, <1>5, <1>10, <1>11, <1>12, <1>13 DEF WindowInv

\* The driver makes surface h on window w, for session s.
LEMMA MadeOnWindow ==
  ASSUME PresentInv, WindowInv, own, own' = own, NEW s \in Sessions, handler[s].at = "made",
         NEW w, w = handler[s].target, NEW h \in Fresh, ~EarlyReuse,
         native' = Put(native, h, w), NEW x, handler' = [handler EXCEPT ![s] = x],
         x.at = "associate", x.target = w, x.surface = h,
         UNCHANGED <<own_windows, surface_windows, surfaces>>
  PROVE  WindowInv'
<1>1. handler'[s] = x /\ \A t \in Sessions \ {s} : handler'[t] = handler[t]
  BY DEF PresentInv, SessionTypes
<1>2. /\ h \in Handles /\ h \notin DOMAIN native /\ h \notin DOMAIN surface_windows
      /\ \A t \in Sessions : handler[t].at = "release" => handler[t].surface # h
  BY DEF Fresh
<1>3. /\ DOMAIN native' = DOMAIN native \cup {h} /\ native'[h] = w
      /\ \A g \in DOMAIN native : native'[g] = native[g]
  BY <1>2 DEF Put
<1>4. \A t \in Sessions : MakerAt(t) /\ ReleaserAt(t)
  BY DEF WindowInv
<1>5. /\ w \in own_windows /\ \A g \in DOMAIN surface_windows : surface_windows[g] # w
      /\ \A t \in Sessions \ {s} : handler[t].at \in Makers => handler[t].target # w
      /\ \A g \in DOMAIN native : native[g] # w
  BY <1>4 DEF MakerAt, Makers
<1>6. \A g : Releasing(g) => Releasing(g)'
  BY <1>1 DEF Releasing
<1>7. \A g \in DOMAIN native' : NativeAt(g)'
  BY <1>3, <1>5 DEF WindowInv, NativeAt
<1>8. ASSUME NEW g \in DOMAIN surface_windows  PROVE NamedAt(g)'
  <2>1. NamedAt(g) /\ g # h
    BY <1>2 DEF WindowInv
  <2>2. \A f \in DOMAIN native' : native'[f] = IF f = h THEN w ELSE native[f]
    BY <1>3
  <2>3. QED
    BY <1>3, <1>5, <1>6, <2>1, <2>2 DEF NamedAt
<1>9. MakerAt(s)' /\ ReleaserAt(s)'
  BY <1>1, <1>3, <1>5 DEF MakerAt, ReleaserAt, Makers
<1>10. ASSUME NEW t \in Sessions \ {s}  PROVE MakerAt(t)' /\ ReleaserAt(t)'
  <2>1. MakerAt(t)'
    BY <1>1, <1>3, <1>4, <1>5 DEF MakerAt, Makers
  <2>2. ReleaserAt(t)'
    BY <1>1, <1>2, <1>3, <1>4 DEF ReleaserAt
  <2>3. QED
    BY <2>1, <2>2
<1>11. NamedSlots'
  BY DEF WindowInv, NamedSlots
<1>12. ASSUME NEW v \in own_windows'  PROVE Owned(v)'
  <2>1. Owned(v)
    BY DEF WindowInv
  <2>2. CASE \E t \in Sessions : handler[t].at \in Makers /\ handler[t].target = v
    BY <1>1, <2>2 DEF Owned, Makers
  <2>3. CASE \E g \in DOMAIN native : native[g] = v
    BY <1>3, <2>3 DEF Owned
  <2>4. QED
    BY <1>6, <2>1, <2>2, <2>3 DEF Owned
<1>13. QED
  BY <1>7, <1>8, <1>9, <1>10, <1>11, <1>12 DEF WindowInv
\* The driver refuses: the window is about to be discarded.
LEMMA RefusedOnWindow ==
  ASSUME PresentInv, WindowInv, own, own' = own, NEW s \in Sessions, handler[s].at = "made",
         NEW x, handler' = [handler EXCEPT ![s] = x], x.at = "discard",
         x.target = handler[s].target,
         UNCHANGED <<own_windows, surface_windows, surfaces, native>>
  PROVE  WindowInv'
<1>1. handler'[s] = x /\ \A t \in Sessions \ {s} : handler'[t] = handler[t]
  BY DEF PresentInv, SessionTypes
<1>2. \A h : Releasing(h) => Releasing(h)'
  BY <1>1 DEF Releasing
<1>3. \A h \in DOMAIN native : NativeAt(h)'
  BY DEF WindowInv, NativeAt
<1>4. ASSUME NEW h \in DOMAIN surface_windows  PROVE NamedAt(h)'
  <2>1. NamedAt(h)
    BY DEF WindowInv
  <2>2. QED
    BY <1>2, <2>1 DEF NamedAt
<1>5. \A t \in Sessions : MakerAt(t) /\ ReleaserAt(t)
  BY DEF WindowInv
<1>6. MakerAt(s)' /\ ReleaserAt(s)'
  BY <1>1, <1>5 DEF MakerAt, ReleaserAt, Makers
<1>7. ASSUME NEW t \in Sessions \ {s}  PROVE MakerAt(t)' /\ ReleaserAt(t)'
  <2>1. MakerAt(t)'
    BY <1>1, <1>5 DEF MakerAt, Makers
  <2>2. ReleaserAt(t)'
    BY <1>1, <1>5 DEF ReleaserAt
  <2>3. QED
    BY <2>1, <2>2
<1>8. NamedSlots'
  BY DEF WindowInv, NamedSlots
<1>9. ASSUME NEW v \in own_windows'  PROVE Owned(v)'
  <2>1. Owned(v)
    BY DEF WindowInv
  <2>2. (\E t \in Sessions : handler[t].at \in Makers /\ handler[t].target = v)
          => \E t \in Sessions : handler'[t].at \in Makers /\ handler'[t].target = v
    BY <1>1 DEF Makers
  <2>3. QED
    BY <1>2, <2>1, <2>2 DEF Owned
<1>10. QED
  BY <1>3, <1>4, <1>6, <1>7, <1>8, <1>9 DEF WindowInv

\* Surface h gets its name in m_surface_windows, and its slot.
LEMMA AssociatedWindow ==
  ASSUME PresentInv, WindowInv, own, own' = own, NEW s \in Sessions, handler[s].at = "associate",
         NEW w, w = handler[s].target, NEW h, h = handler[s].surface,
         surface_windows' = Put(surface_windows, h, w), Register(s, h), To(s, Idle),
         UNCHANGED <<own_windows, native>>
  PROVE  WindowInv'
<1>1. SessionTypes /\ handler' = [handler EXCEPT ![s] = Idle]
      /\ surfaces' = [surfaces EXCEPT ![s] = Append(@, h)]
  BY DEF To, Register, PresentInv
<1>2. handler'[s].at = "idle" /\ \A t \in Sessions \ {s} : handler'[t] = handler[t]
  BY <1>1, HandlerMade DEF SessionTypes
<1>3. \A t \in Sessions : MakerAt(t) /\ ReleaserAt(t)
  BY DEF WindowInv
<1>4. /\ w \in own_windows /\ \A g \in DOMAIN surface_windows : surface_windows[g] # w
      /\ \A t \in Sessions \ {s} : handler[t].at \in Makers => handler[t].target # w
      /\ h \in DOMAIN native /\ native[h] = w
  BY <1>3 DEF MakerAt, Makers
<1>5. h \in Handles
  BY <1>1, <1>4 DEF SessionTypes
<1>6. /\ DOMAIN surface_windows' = DOMAIN surface_windows \cup {h} /\ surface_windows'[h] = w
      /\ \A g \in DOMAIN surface_windows : g # h => surface_windows'[g] = surface_windows[g]
  BY DEF Put
<1>7. \A g : Releasing(g) => Releasing(g)'
  BY <1>2 DEF Releasing
<1>8. \A g \in DOMAIN native : NativeAt(g)'
  BY DEF WindowInv, NativeAt
<1>9. h \notin DOMAIN surface_windows
  BY <1>4 DEF WindowInv, NamedAt
<1>10. ASSUME NEW g \in DOMAIN surface_windows'  PROVE NamedAt(g)'
  <2>1. CASE g = h
    BY <1>4, <1>5, <1>6, <2>1 DEF NamedAt
  <2>2. CASE g # h
    <3>1. NamedAt(g) /\ surface_windows'[g] = surface_windows[g] /\ g \in DOMAIN surface_windows
      BY <1>6, <2>2 DEF WindowInv
    <3>2. \A f \in DOMAIN surface_windows' : surface_windows'[f] = surface_windows'[g] => f = g
      BY <1>4, <1>6, <2>2, <3>1 DEF NamedAt
    <3>3. QED
      BY <1>7, <3>1, <3>2 DEF NamedAt
  <2>3. QED
    BY <2>1, <2>2
<1>11. MakerAt(s)' /\ ReleaserAt(s)'
  BY <1>2 DEF MakerAt, ReleaserAt, Makers
<1>12. ASSUME NEW t \in Sessions \ {s}  PROVE MakerAt(t)' /\ ReleaserAt(t)'
  <2>1. MakerAt(t)'
    BY <1>2, <1>3, <1>4, <1>6 DEF MakerAt, Makers
  <2>2. ReleaserAt(t)'
    BY <1>2, <1>3 DEF ReleaserAt
  <2>3. QED
    BY <2>1, <2>2
<1>13. NamedSlots'
  <2>1. surfaces[s] \in Seq(Handles \cup {NoHandle}) /\ h \in Handles \cup {NoHandle}
    BY <1>1, <1>5 DEF SessionTypes
  <2>2. /\ Len(surfaces'[s]) = Len(surfaces[s]) + 1 /\ surfaces'[s][Len(surfaces[s]) + 1] = h
        /\ \A i \in 1 .. Len(surfaces[s]) : surfaces'[s][i] = surfaces[s][i]
        /\ Len(surfaces[s]) \in Nat
    <3>1. surfaces'[s] = Append(surfaces[s], h)
      BY <1>1 DEF SessionTypes
    <3>2. QED
      BY <2>1, <3>1, AppendFacts
  <2>3. \A t \in Sessions \ {s} : surfaces'[t] = surfaces[t]
    BY <1>1 DEF SessionTypes
  <2>4. ASSUME NEW t \in Sessions, NEW i \in 1 .. Len(surfaces'[t]), surfaces'[t][i] # NoHandle
        PROVE  surfaces'[t][i] \in DOMAIN surface_windows'
    <3>1. CASE t = s
      <4>1. i = Len(surfaces[s]) + 1 \/ i \in 1 .. Len(surfaces[s])
        BY <2>2, <3>1
      <4>2. QED
        BY <1>6, <2>2, <2>4, <3>1, <4>1 DEF WindowInv, NamedSlots
    <3>2. CASE t # s
      BY <1>6, <2>3, <2>4, <3>2 DEF WindowInv, NamedSlots
    <3>3. QED
      BY <3>1, <3>2
  <2>5. QED
    BY <2>4 DEF NamedSlots
<1>14. ASSUME NEW v \in own_windows'  PROVE Owned(v)'
  <2>1. Owned(v)
    BY DEF WindowInv
  <2>2. CASE \E t \in Sessions : handler[t].at \in Makers /\ handler[t].target = v
    BY <1>2, <1>4, <2>2 DEF Owned, Makers
  <2>3. CASE \E g \in DOMAIN surface_windows : surface_windows[g] = v /\ Releasing(g)
    BY <1>6, <1>7, <1>9, <2>3 DEF Owned
  <2>4. CASE \E g \in DOMAIN native : native[g] = v
    BY <2>4 DEF Owned
  <2>5. QED
    BY <2>1, <2>2, <2>3, <2>4 DEF Owned
<1>15. QED
  BY <1>8, <1>10, <1>11, <1>12, <1>13, <1>14 DEF WindowInv

\* The window of a surface that could not be made is closed.
LEMMA DiscardedWindow ==
  ASSUME PresentInv, WindowInv, own, own' = own, NEW s \in Sessions, handler[s].at = "discard",
         NEW w, w = handler[s].target, own_windows' = own_windows \ {w}, To(s, Idle),
         UNCHANGED <<surface_windows, native, surfaces>>
  PROVE  WindowInv'
<1>1. handler'[s].at = "idle" /\ \A t \in Sessions \ {s} : handler'[t] = handler[t]
  BY HandlerMade DEF To, PresentInv, SessionTypes
<1>2. \A t \in Sessions : MakerAt(t) /\ ReleaserAt(t)
  BY DEF WindowInv
<1>3. /\ \A g \in DOMAIN surface_windows : surface_windows[g] # w
      /\ \A t \in Sessions \ {s} : handler[t].at \in Makers => handler[t].target # w
      /\ \A g \in DOMAIN native : native[g] # w
  BY <1>2 DEF MakerAt, Makers
<1>4. \A g : Releasing(g) => Releasing(g)'
  BY <1>1 DEF Releasing
<1>5. \A g \in DOMAIN native : NativeAt(g)'
  BY <1>3 DEF WindowInv, NativeAt
<1>6. ASSUME NEW g \in DOMAIN surface_windows  PROVE NamedAt(g)'
  <2>1. NamedAt(g)
    BY DEF WindowInv
  <2>2. QED
    BY <1>3, <1>4, <2>1 DEF NamedAt
<1>7. MakerAt(s)' /\ ReleaserAt(s)'
  BY <1>1 DEF MakerAt, ReleaserAt, Makers
<1>8. ASSUME NEW t \in Sessions \ {s}  PROVE MakerAt(t)' /\ ReleaserAt(t)'
  <2>1. MakerAt(t)'
    BY <1>1, <1>2, <1>3 DEF MakerAt, Makers
  <2>2. ReleaserAt(t)'
    BY <1>1, <1>2 DEF ReleaserAt
  <2>3. QED
    BY <2>1, <2>2
<1>9. NamedSlots'
  BY DEF WindowInv, NamedSlots
<1>10. ASSUME NEW v \in own_windows'  PROVE Owned(v)'
  <2>1. Owned(v) /\ v # w
    BY DEF WindowInv
  <2>2. CASE \E t \in Sessions : handler[t].at \in Makers /\ handler[t].target = v
    BY <1>1, <2>1, <2>2 DEF Owned, Makers
  <2>3. QED
    BY <1>4, <2>1, <2>2 DEF Owned
<1>11. QED
  BY <1>5, <1>6, <1>7, <1>8, <1>9, <1>10 DEF WindowInv
\* Surface h of session s is destroyed; its window is still there.
LEMMA DestroyedSurface ==
  ASSUME PresentInv, WindowInv, own, own' = own, NEW s \in Sessions, NEW id, NEW h,
         handler[s] = Idle,
         IF id \in 1 .. Len(surfaces[s]) THEN h = surfaces[s][id] ELSE h = NoHandle,
         surfaces' = [surfaces EXCEPT ![s][id] = NoHandle], native' = Without(native, h),
         To(s, [at |-> "release", surface |-> h]), UNCHANGED <<own_windows, surface_windows>>
  PROVE  WindowInv'
<1>1. SessionTypes /\ SlotInv /\ NoHandle \notin Handles /\ DOMAIN native \subseteq Handles
      /\ surfaces[s] \in Seq(Handles \cup {NoHandle})
  BY PresentationAssumption DEF PresentInv, SessionTypes
<1>2. PICK x : x = [at |-> "release", surface |-> h]
  OBVIOUS
<1>3. x.at = "release" /\ x.surface = h /\ handler' = [handler EXCEPT ![s] = x]
  BY <1>2 DEF To
<1>4. handler'[s] = x /\ \A t \in Sessions \ {s} : handler'[t] = handler[t]
  BY <1>1, <1>3 DEF SessionTypes
<1>5. handler[s].at = "idle"
  BY HandlerMade
<1>6. DOMAIN native' = DOMAIN native \ {h} /\ \A g \in DOMAIN native' : native'[g] = native[g]
  BY DEF Without, Restrict
<1>7. h # NoHandle => /\ h \in DOMAIN native /\ h \in DOMAIN surface_windows
                      /\ \A t \in Sessions : handler[t].at = "associate" => handler[t].surface # h
  <2>1. \A t \in Sessions : PendingAt(t)
    BY <1>1 DEF SlotInv
  <2>2. h # NoHandle => id \in 1 .. Len(surfaces[s]) /\ SlotAt(s, id) /\ h = surfaces[s][id]
    BY <1>1 DEF SlotInv
  <2>3. QED
    BY <2>1, <2>2 DEF SlotAt, PendingAt, WindowInv, NamedSlots
<1>8. h \notin DOMAIN native => h = NoHandle
  BY <1>7
<1>9. \A g : Releasing(g) => Releasing(g)'
  BY <1>4, <1>5 DEF Releasing
<1>10. Releasing(h)'
  BY <1>3, <1>4 DEF Releasing
<1>11. \A g \in DOMAIN native' : NativeAt(g)'
  BY <1>6 DEF WindowInv, NativeAt
<1>12. ASSUME NEW g \in DOMAIN surface_windows  PROVE NamedAt(g)'
  <2>1. NamedAt(g)
    BY DEF WindowInv
  <2>2. CASE g = h
    <3>1. h \in DOMAIN native /\ native[h] = surface_windows[h]
      BY <1>1, <1>7, <2>1, <2>2 DEF NamedAt
    <3>2. \A f \in DOMAIN native' : native'[f] # surface_windows[h]
      BY <1>6, <3>1 DEF WindowInv, NativeAt
    <3>3. QED
      BY <1>6, <1>10, <2>1, <2>2, <3>2 DEF NamedAt
  <2>3. CASE g # h
    BY <1>6, <1>9, <2>1, <2>3 DEF NamedAt
  <2>4. QED
    BY <2>2, <2>3
<1>13. \A t \in Sessions : MakerAt(t) /\ ReleaserAt(t)
  BY DEF WindowInv
<1>14. MakerAt(s)'
  BY <1>3, <1>4 DEF MakerAt, Makers
<1>15. ReleaserAt(s)'
  <2>1. h # NoHandle =>
          \A t \in Sessions \ {s} : handler[t].at = "release" => handler[t].surface # h
    BY <1>7, <1>13 DEF ReleaserAt
  <2>2. QED
    BY <1>3, <1>4, <1>6, <2>1 DEF ReleaserAt
<1>16. ASSUME NEW t \in Sessions \ {s}  PROVE MakerAt(t)' /\ ReleaserAt(t)'
  <2>1. MakerAt(t)'
    <3>1. MakerAt(t) /\ handler'[t] = handler[t]
      BY <1>4, <1>13
    <3>2. \A u \in Sessions \ {t} : handler'[u].at \in Makers => handler'[u] = handler[u]
      BY <1>3, <1>4 DEF Makers
    <3>3. handler[t].at = "associate" /\ handler[t].surface \in DOMAIN native =>
            handler[t].surface \in DOMAIN native'
      BY <1>1, <1>6, <1>7
    <3>4. QED
      BY <1>6, <3>1, <3>2, <3>3 DEF MakerAt
  <2>2. ReleaserAt(t)'
    <3>1. ReleaserAt(t) /\ handler'[t] = handler[t]
      BY <1>4, <1>13
    <3>2. handler[t].at = "release" /\ handler[t].surface # NoHandle => handler[t].surface # h
      BY <1>7, <3>1 DEF ReleaserAt
    <3>3. QED
      BY <1>3, <1>4, <1>6, <3>1, <3>2 DEF ReleaserAt
  <2>3. QED
    BY <2>1, <2>2
<1>17. NamedSlots'
  <2>1. surfaces'[s] = [surfaces[s] EXCEPT ![id] = NoHandle]
        /\ \A t \in Sessions \ {s} : surfaces'[t] = surfaces[t]
    BY <1>1 DEF SessionTypes
  <2>2. Len(surfaces'[s]) = Len(surfaces[s])
        /\ \A i \in 1 .. Len(surfaces[s]) :
             surfaces'[s][i] # NoHandle => surfaces'[s][i] = surfaces[s][i]
    BY <1>1, <2>1
  <2>3. QED
    BY <2>1, <2>2 DEF WindowInv, NamedSlots
<1>18. ASSUME NEW v \in own_windows'  PROVE Owned(v)'
  <2>1. Owned(v)
    BY DEF WindowInv
  <2>2. CASE \E t \in Sessions : handler[t].at \in Makers /\ handler[t].target = v
    BY <1>4, <1>5, <2>2 DEF Owned, Makers
  <2>3. CASE \E g \in DOMAIN native : native[g] = v
    <3>1. PICK g \in DOMAIN native : native[g] = v
      BY <2>3
    <3>2. CASE g = h
      <4>1. h \in DOMAIN surface_windows /\ surface_windows[h] = v
        BY <1>1, <1>7, <3>1, <3>2 DEF WindowInv, NamedAt
      <4>2. QED
        BY <1>10, <4>1 DEF Owned
    <3>3. CASE g # h
      BY <1>6, <3>1, <3>3 DEF Owned
    <3>4. QED
      BY <3>2, <3>3
  <2>4. QED
    BY <1>9, <2>1, <2>2, <2>3 DEF Owned
<1>19. QED
  BY <1>11, <1>12, <1>14, <1>15, <1>16, <1>17, <1>18 DEF WindowInv

\* The window that goes with a destroyed surface is closed.
LEMMA ReleasedWindow ==
  ASSUME PresentInv, WindowInv, own, NEW s \in Sessions, release_surface_window(s)
  PROVE  WindowInv'
<1>1. PICK h : h = handler[s].surface
  OBVIOUS
<1>2. /\ handler[s].at = "release" /\ handler' = [handler EXCEPT ![s] = Idle]
      /\ UNCHANGED <<own, surfaces, native>>
      /\ IF h \in DOMAIN surface_windows
         THEN /\ own_windows' = own_windows \ {surface_windows[h]}
              /\ surface_windows' = Without(surface_windows, h)
         ELSE UNCHANGED <<own_windows, surface_windows>>
  BY <1>1 DEF release_surface_window, To, callVars
<1>3. handler'[s].at = "idle" /\ \A t \in Sessions \ {s} : handler'[t] = handler[t]
  BY <1>2, HandlerMade DEF PresentInv, SessionTypes
<1>4. \A t \in Sessions : MakerAt(t) /\ ReleaserAt(t)
  BY DEF WindowInv
<1>5. h \notin DOMAIN native
  BY <1>1, <1>2, <1>4 DEF ReleaserAt
\* Either way h has no name any more, and the others keep theirs.
<1>6. /\ DOMAIN surface_windows' = DOMAIN surface_windows \ {h}
      /\ \A g \in DOMAIN surface_windows' : surface_windows'[g] = surface_windows[g]
  <2>1. CASE h \in DOMAIN surface_windows
    <3>1. surface_windows' = Restrict(surface_windows, DOMAIN surface_windows \ {h})
      BY <1>2, <2>1 DEF Without
    <3>2. QED
      BY <3>1 DEF Restrict
  <2>2. CASE h \notin DOMAIN surface_windows
    BY <1>2, <2>2
  <2>3. QED
    BY <2>1, <2>2
<1>7. /\ own_windows' \subseteq own_windows
      /\ \A w \in own_windows \ own_windows' :
           h \in DOMAIN surface_windows /\ w = surface_windows[h]
      /\ h \in DOMAIN surface_windows => surface_windows[h] \notin own_windows'
  BY <1>2
<1>8. \A g : g # h /\ Releasing(g) => Releasing(g)'
  BY <1>1, <1>3 DEF Releasing
<1>9. ASSUME NEW g \in DOMAIN native  PROVE NativeAt(g)'
  <2>1. NativeAt(g)
    BY DEF WindowInv
  <2>2. h \in DOMAIN surface_windows => native[g] # surface_windows[h]
    BY <1>5 DEF WindowInv, NamedAt
  <2>3. QED
    BY <1>2, <1>7, <2>1, <2>2 DEF NativeAt
<1>10. ASSUME NEW g \in DOMAIN surface_windows'  PROVE NamedAt(g)'
  <2>1. NamedAt(g) /\ g # h /\ g \in DOMAIN surface_windows
    BY <1>6 DEF WindowInv
  <2>2. surface_windows[g] \in own_windows'
    BY <1>7, <2>1 DEF NamedAt
  <2>3. QED
    BY <1>2, <1>6, <1>8, <2>1, <2>2 DEF NamedAt
<1>11. MakerAt(s)' /\ ReleaserAt(s)'
  BY <1>3 DEF MakerAt, ReleaserAt, Makers
<1>12. ASSUME NEW t \in Sessions \ {s}  PROVE MakerAt(t)' /\ ReleaserAt(t)'
  <2>1. MakerAt(t)'
    <3>1. MakerAt(t) /\ handler'[t] = handler[t]
      BY <1>3, <1>4
    <3>2. \A u \in Sessions \ {t} : handler'[u].at \in Makers => handler'[u] = handler[u]
      BY <1>3 DEF Makers
    <3>3. handler[t].at \in Makers => handler[t].target \in own_windows'
      BY <1>7, <3>1 DEF MakerAt
    <3>4. QED
      BY <1>2, <1>6, <3>1, <3>2, <3>3 DEF MakerAt
  <2>2. ReleaserAt(t)'
    BY <1>2, <1>3, <1>4 DEF ReleaserAt
  <2>3. QED
    BY <2>1, <2>2
<1>13. NamedSlots'
  <2>1. ASSUME NEW t \in Sessions, NEW i \in 1 .. Len(surfaces[t]), surfaces[t][i] # NoHandle
        PROVE  surfaces[t][i] \in DOMAIN surface_windows'
    <3>1. surfaces[t][i] \in DOMAIN native
      BY <2>1 DEF PresentInv, SlotInv, SlotAt
    <3>2. QED
      BY <1>5, <1>6, <2>1, <3>1 DEF WindowInv, NamedSlots
  <2>2. QED
    BY <1>2, <2>1 DEF NamedSlots
<1>14. ASSUME NEW v \in own_windows'  PROVE Owned(v)'
  <2>1. Owned(v)
    BY <1>7 DEF WindowInv
  <2>2. CASE \E t \in Sessions : handler[t].at \in Makers /\ handler[t].target = v
    BY <1>2, <1>3, <2>2 DEF Owned, Makers
  <2>3. CASE \E g \in DOMAIN surface_windows : surface_windows[g] = v /\ Releasing(g)
    <3>1. PICK g \in DOMAIN surface_windows : surface_windows[g] = v /\ Releasing(g)
      BY <2>3
    <3>2. g # h
      BY <1>7, <3>1
    <3>3. QED
      BY <1>6, <1>8, <3>1, <3>2 DEF Owned
  <2>4. CASE \E g \in DOMAIN native : native[g] = v
    BY <1>2, <2>4 DEF Owned
  <2>5. QED
    BY <2>1, <2>2, <2>3, <2>4 DEF Owned
<1>15. QED
  BY <1>2, <1>9, <1>10, <1>11, <1>12, <1>13, <1>14 DEF WindowInv
\* Every step keeps the windows with their surfaces, if the driver does not return
\* the handle of a surface whose window is still to be released.
LEMMA WindowStep ==
  ASSUME PresentInv, WindowInv, ~EarlyReuse, [Next]_vars
  PROVE  WindowInv'
<1>1. CASE \/ Wayland \/ RoundtripReturns
           \/ \E o \in DOMAIN app : CreateWaylandSurfaceKHR(o)
           \/ \E w \in Windows : toplevel_close(w) \/ toplevel_configure(w)
           \/ UNCHANGED vars
  <2>1. UNCHANGED <<own, own_windows, surface_windows, native, handler, surfaces>>
    BY <1>1 DEF Wayland, RoundtripReturns, CreateWaylandSurfaceKHR, toplevel_close,
                toplevel_configure, vars, sessionVars, callVars, windowVars
  <2>2. QED
    BY <2>1, WindowQuiet
<1>2. ASSUME NEW s \in Sessions,
             \/ CreateOwnSurface(s)
             \/ \E id \in DOMAIN held[s] : DestroySurfaceKHR(s, id) \/ AcquireNextImageKHR(s, id)
             \/ handle_AcquireNextImageKHR(s) \/ Disconnect(s)
      PROVE  WindowInv'
  <2>1. UNCHANGED <<own, own_windows, surface_windows, native, handler, surfaces>>
    BY <1>2 DEF CreateOwnSurface, DestroySurfaceKHR, AcquireNextImageKHR,
                handle_AcquireNextImageKHR, Disconnect, windowVars
  <2>2. QED
    BY <2>1, WindowQuiet
<1>3. ASSUME NEW s \in Sessions, FindSurface(s) \/ CreateProxied(s)  PROVE WindowInv'
  <2>1. ~own /\ own' = own /\ UNCHANGED <<own_windows, surface_windows>>
    <3>1. own' = own /\ UNCHANGED <<own_windows, surface_windows>>
      BY <1>3 DEF FindSurface, CreateProxied, windowVars
    <3>2. CASE FindSurface(s)
      BY <3>1, <3>2 DEF FindSurface
    <3>3. CASE CreateProxied(s)
      BY <3>1, <3>3, CreatingFacts DEF CreateProxied, Creating
    <3>4. QED
      BY <1>3, <3>2, <3>3
  <2>2. QED
    BY <2>1, NoWindows
<1>4. ASSUME NEW s \in Sessions, create_own_window(s)  PROVE WindowInv'
  <2>1. /\ own /\ own' = own /\ handler[s] = Idle /\ UNCHANGED <<surface_windows, native, surfaces>>
    BY <1>4 DEF create_own_window, Begin
  <2>2. CASE \E w \in Windows \ own_windows :
               /\ own_windows' = own_windows \cup {w}
               /\ handler' = [handler EXCEPT ![s] = [at |-> "made", target |-> w]]
    <3>1. PICK w \in Windows \ own_windows :
               /\ own_windows' = own_windows \cup {w}
               /\ handler' = [handler EXCEPT ![s] = [at |-> "made", target |-> w]]
      BY <2>2
    <3>2. PICK x : x = [at |-> "made", target |-> w]
      OBVIOUS
    <3>3. x.at = "made" /\ x.target = w
      BY <3>2
    <3>4. QED
      BY <2>1, <3>1, <3>2, <3>3, OpenedWindow
  <2>3. CASE UNCHANGED own_windows /\ handler' = [handler EXCEPT ![s] = Idle]
    <3>1. handler' = handler
      BY <2>1, <2>3 DEF PresentInv, SessionTypes
    <3>2. QED
      BY <2>1, <2>3, <3>1, WindowQuiet
  <2>4. QED
    BY <1>4, <2>2, <2>3 DEF create_own_window, To, ReplyCreate
<1>5. ASSUME NEW s \in Sessions, CreateOnWindow(s)  PROVE WindowInv'
  <2>1. PICK w : w = handler[s].target
    OBVIOUS
  <2>2. /\ handler[s].at = "made" /\ own' = own
        /\ UNCHANGED <<own_windows, surface_windows, surfaces>>
        /\ \/ \E h \in Fresh :
                /\ native' = Put(native, h, w)
                /\ handler' = [handler EXCEPT ![s] = [at |-> "associate", target |-> w,
                                                      surface |-> h]]
           \/ /\ handler' = [handler EXCEPT ![s] = [at |-> "discard", target |-> w]]
              /\ UNCHANGED native
    BY <1>5, <2>1 DEF CreateOnWindow, To, callVars, windowVars
  <2>3. own
    BY <2>2, CreatingFacts DEF Creating
  <2>4. ASSUME NEW h \in Fresh, native' = Put(native, h, w),
               handler' = [handler EXCEPT ![s] = [at |-> "associate", target |-> w,
                                                  surface |-> h]]
        PROVE  WindowInv'
    <3>1. PICK x : x = [at |-> "associate", target |-> w, surface |-> h]
      OBVIOUS
    <3>2. x.at = "associate" /\ x.target = w /\ x.surface = h
      BY <3>1
    <3>3. QED
      BY <2>1, <2>2, <2>3, <2>4, <3>1, <3>2, MadeOnWindow
  <2>5. CASE /\ handler' = [handler EXCEPT ![s] = [at |-> "discard", target |-> w]]
             /\ UNCHANGED native
    <3>1. PICK x : x = [at |-> "discard", target |-> w]
      OBVIOUS
    <3>2. x.at = "discard" /\ x.target = w
      BY <3>1
    <3>3. QED
      BY <2>1, <2>2, <2>3, <2>5, <3>1, <3>2, RefusedOnWindow
  <2>6. QED
    BY <2>2, <2>4, <2>5
<1>6. ASSUME NEW s \in Sessions, associate_surface(s)  PROVE WindowInv'
  <2>1. PICK w : w = handler[s].target
    OBVIOUS
  <2>2. PICK h : h = handler[s].surface
    OBVIOUS
  <2>3. /\ handler[s].at = "associate" /\ own' = own
        /\ surface_windows' = Put(surface_windows, h, w) /\ Register(s, h) /\ To(s, Idle)
        /\ UNCHANGED <<own_windows, native>>
    BY <1>6, <2>1, <2>2 DEF associate_surface, ReplyCreate
  <2>4. own
    BY <2>3, CreatingFacts DEF Creating
  <2>5. QED
    BY <2>1, <2>2, <2>3, <2>4, AssociatedWindow
<1>7. ASSUME NEW s \in Sessions, discard_own_window(s)  PROVE WindowInv'
  <2>1. PICK w : w = handler[s].target
    OBVIOUS
  <2>2. /\ handler[s].at = "discard" /\ own' = own /\ own_windows' = own_windows \ {w}
        /\ To(s, Idle) /\ UNCHANGED <<surface_windows, native, surfaces>>
    BY <1>7, <2>1 DEF discard_own_window, ReplyCreate
  <2>3. own
    BY <2>2, CreatingFacts DEF Creating
  <2>4. QED
    BY <2>1, <2>2, <2>3, DiscardedWindow
<1>8. ASSUME NEW s \in Sessions, NEW id, NEW h, handler[s] = Idle,
             IF id \in 1 .. Len(surfaces[s]) THEN h = surfaces[s][id] ELSE h = NoHandle,
             surfaces' = [surfaces EXCEPT ![s][id] = NoHandle], native' = Without(native, h),
             To(s, [at |-> "release", surface |-> h]), own' = own,
             UNCHANGED <<own_windows, surface_windows>>
      PROVE  WindowInv'
  BY <1>8, DestroyedSurface, NoWindows
<1>9. ASSUME NEW s \in Sessions, handle_DestroySurfaceKHR(s)  PROVE WindowInv'
  <2>1. PICK id : id = Head(requests[s]).id
    OBVIOUS
  <2>2. PICK h : h = SurfaceOf(s, id)
    OBVIOUS
  <2>3. /\ handler[s] = Idle /\ own' = own /\ UNCHANGED <<own_windows, surface_windows>>
        /\ surfaces' = [surfaces EXCEPT ![s][id] = NoHandle] /\ native' = Without(native, h)
        /\ To(s, [at |-> "release", surface |-> h])
    BY <1>9, <2>1, <2>2 DEF handle_DestroySurfaceKHR, Begin, windowVars
  <2>4. surfaces[s] \in Seq(Handles \cup {NoHandle})
    BY DEF PresentInv, SessionTypes
  <2>5. IF id \in 1 .. Len(surfaces[s]) THEN h = surfaces[s][id] ELSE h = NoHandle
    BY <2>2, <2>4 DEF SurfaceOf
  <2>6. QED
    BY <1>8, <2>3, <2>5
<1>10. ASSUME NEW s \in Sessions, destroy_session_objects(s)  PROVE WindowInv'
  <2>1. PICK left : left = {i \in DOMAIN surfaces[s] : surfaces[s][i] # NoHandle}
    OBVIOUS
  <2>2. PICK id : id = CHOOSE i \in left : \A j \in left : i <= j
    OBVIOUS
  <2>3. PICK h : h = surfaces[s][id]
    OBVIOUS
  <2>4. /\ handler[s] = Idle /\ left # {} /\ own' = own
        /\ UNCHANGED <<own_windows, surface_windows>>
        /\ surfaces' = [surfaces EXCEPT ![s][id] = NoHandle] /\ native' = Without(native, h)
        /\ To(s, [at |-> "release", surface |-> h])
    BY <1>10, <2>1, <2>2, <2>3 DEF destroy_session_objects, callVars, windowVars
  <2>5. surfaces[s] \in Seq(Handles \cup {NoHandle})
    BY DEF PresentInv, SessionTypes
  <2>6. left \in SUBSET Nat /\ left \subseteq 1 .. Len(surfaces[s])
    BY <2>1, <2>5
  <2>7. id \in left
    BY <2>2, <2>4, <2>6, LeastSlot
  <2>8. IF id \in 1 .. Len(surfaces[s]) THEN h = surfaces[s][id] ELSE h = NoHandle
    BY <2>3, <2>6, <2>7
  <2>9. QED
    BY <1>8, <2>4, <2>8
<1>11. ASSUME NEW s \in Sessions, release_surface_window(s)  PROVE WindowInv'
  <2>1. CASE own
    BY <1>11, <2>1, ReleasedWindow
  <2>2. CASE ~own
    <3>1. DOMAIN surface_windows = {}
      BY <2>2 DEF WindowInv
    <3>2. own' = own /\ UNCHANGED <<own_windows, surface_windows>>
      BY <1>11, <3>1 DEF release_surface_window, callVars
    <3>3. QED
      BY <2>2, <3>2, NoWindows
  <2>3. QED
    BY <2>1, <2>2
<1>12. QED
  BY <1>1, <1>2, <1>3, <1>4, <1>5, <1>6, <1>7, <1>9, <1>10, <1>11 DEF Next
LEMMA OwnedNotLeft ==
  ASSUME WindowInv  PROVE NoWindowLeftBehind
<1>1. ASSUME NEW w \in own_windows
      PROVE  \/ w \in Range(native)
             \/ \E s \in Sessions : handler[s].at \in {"made", "associate", "discard"}
                                    /\ handler[s].target = w
             \/ \E s \in Sessions : handler[s].at = "release"
                                    /\ handler[s].surface \in DOMAIN surface_windows
                                    /\ surface_windows[handler[s].surface] = w
  <2>1. Owned(w)
    BY DEF WindowInv
  <2>2. CASE \E h \in DOMAIN native : native[h] = w
    BY <2>2 DEF Range
  <2>3. CASE \E h \in DOMAIN surface_windows : surface_windows[h] = w /\ Releasing(h)
    BY <2>3 DEF Releasing
  <2>4. QED
    BY <2>1, <2>2, <2>3 DEF Owned, Makers
<1>2. QED
  BY <1>1 DEF NoWindowLeftBehind

LEMMA WindowInit ==
  ASSUME Init  PROVE WindowInv
<1>1. DOMAIN native = {} /\ own_windows = {} /\ surface_windows = <<>>
      /\ \A s \in Sessions : surfaces[s] = <<>> /\ handler[s].at = "idle"
  BY HandlerMade DEF Init
<1>2. DOMAIN surface_windows = {} /\ \A s \in Sessions : Len(surfaces[s]) = 0
  BY <1>1
<1>3. NamedSlots
  BY <1>2 DEF NamedSlots
<1>4. QED
  BY <1>1, <1>2, <1>3 DEF WindowInv, MakerAt, ReleaserAt, Makers

\* "failed creates and normal vkDestroySurfaceKHR calls do not leave compositor
\* objects behind" (src/server/session.hpp:89-91), nor does the end of a session,
\* with a driver that does not return a VkSurfaceKHR again before its window is
\* released (release_surface_window, src/server/session.cpp).
THEOREM NoWindowIsLeftBehind == ~EarlyReuse /\ Spec => []NoWindowLeftBehind
<1>1. Init => RelayInv /\ PresentInv /\ WindowInv
  BY RelayInit, PresentInit, WindowInit DEF Init
<1>2. ~EarlyReuse /\ RelayInv /\ PresentInv /\ WindowInv /\ [Next]_vars
        => (RelayInv /\ PresentInv /\ WindowInv)'
  BY PresentStep, WindowStep
<1>3. WindowInv => NoWindowLeftBehind
  BY OwnedNotLeft
<1>4. CASE EarlyReuse
  BY <1>4
<1>5. CASE ~EarlyReuse
  <2>1. RelayInv /\ PresentInv /\ WindowInv /\ [Next]_vars
          => (RelayInv /\ PresentInv /\ WindowInv)'
    BY <1>2, <1>5
  <2>2. QED
    BY <1>1, <1>3, <2>1, PTL DEF Spec
<1>6. QED
  BY <1>4, <1>5

LEMMA CloseStep ==
  ASSUME PresentInv, WindowInv, [Next]_vars, NEW s \in Sessions,
         told'[s] = "VK_ERROR_SURFACE_LOST_KHR", told'[s] # told[s]
  PROVE  \E h \in Range(surfaces[s]) : h \in DOMAIN native /\ native[h] \in closed
<1>1. SessionTypes /\ NoHandle \notin Handles /\ surfaces[s] \in Seq(Handles \cup {NoHandle})
  BY PresentationAssumption DEF PresentInv, SessionTypes
<1>2. CASE UNCHANGED told
  BY <1>2
<1>3. ASSUME NEW t \in Sessions, handle_AcquireNextImageKHR(t)
      PROVE  \E h \in Range(surfaces[s]) : h \in DOMAIN native /\ native[h] \in closed
  <2>1. PICK id : id = Head(requests[t]).id
    OBVIOUS
  <2>2. PICK h : h = SurfaceOf(t, id)
    OBVIOUS
  <2>3. \/ poll_window_closed(h) /\ told' = [told EXCEPT ![t] = "VK_ERROR_SURFACE_LOST_KHR"]
        \/ told' = [told EXCEPT ![t] = "VK_SUCCESS"]
    BY <1>3, <2>1, <2>2 DEF handle_AcquireNextImageKHR
  <2>4. t = s
    BY <1>1, <2>3 DEF SessionTypes
  <2>5. poll_window_closed(h)
    BY <1>1, <2>3, <2>4 DEF SessionTypes
  <2>6. h \in DOMAIN surface_windows /\ surface_windows[h] \in closed
    BY <2>5 DEF poll_window_closed
  <2>7. own /\ NamedAt(h)
    BY <2>6 DEF WindowInv
  <2>8. id \in 1 .. Len(surfaces[s]) /\ h = surfaces[s][id] /\ h # NoHandle
    BY <1>1, <2>2, <2>4, <2>7 DEF SurfaceOf, NamedAt
  <2>9. h \in DOMAIN native
    BY <2>8 DEF PresentInv, SlotInv, SlotAt
  <2>10. h \in Range(surfaces[s])
    BY <1>1, <2>8 DEF Range
  <2>11. QED
    BY <2>6, <2>7, <2>9, <2>10 DEF NamedAt
<1>4. (\A t \in Sessions : ~handle_AcquireNextImageKHR(t)) => UNCHANGED told
  BY DEF Next, Wayland, RoundtripReturns, CreateWaylandSurfaceKHR, toplevel_close,
         toplevel_configure, vars, sessionVars, callVars, CreateOwnSurface, DestroySurfaceKHR,
         AcquireNextImageKHR, Disconnect, FindSurface, CreateProxied, create_own_window,
         CreateOnWindow, associate_surface, discard_own_window, handle_DestroySurfaceKHR,
         destroy_session_objects, release_surface_window
<1>5. QED
  BY <1>2, <1>3, <1>4

\* "A resize or close on one client's window must never affect another client's
\* swapchain" (src/server/session.hpp:97-99): vkAcquireNextImageKHR reports a lost
\* surface only of a session whose own window was closed, for any number of
\* sessions, with the same assumption on the driver.
THEOREM CloseIsItsOwn == ~EarlyReuse /\ Spec => CloseIsOwn
<1>1. Init => RelayInv /\ PresentInv /\ WindowInv
  BY RelayInit, PresentInit, WindowInit DEF Init
<1>2. CASE EarlyReuse
  BY <1>2
<1>3. CASE ~EarlyReuse
  <2>1. RelayInv /\ PresentInv /\ WindowInv /\ [Next]_vars
          => (RelayInv /\ PresentInv /\ WindowInv)'
    BY <1>3, PresentStep, WindowStep
  <2>2. RelayInv /\ PresentInv /\ WindowInv /\ [Next]_vars =>
          [\A s \in Sessions :
             told'[s] = "VK_ERROR_SURFACE_LOST_KHR" /\ told'[s] # told[s] =>
               \E h \in Range(surfaces[s]) : h \in DOMAIN native /\ native[h] \in closed]_vars
    BY CloseStep
  <2>3. QED
    BY <1>1, <2>1, <2>2, PTL DEF Spec, CloseIsOwn
<1>4. QED
  BY <1>2, <1>3
-----------------------------------------------------------------------------
(* The application's wl_surfaces. *)

LEMMA CarriesQuiet ==
  ASSUME UNCHANGED waylandVars, NEW o, Carries(o)  PROVE Carries(o)'
BY DEF Carries, Untouched, ClientIds, waylandVars, appVars, clientVars, serverVars

\* Nothing of a surface changes.
LEMMA AliveQuiet ==
  ASSUME AliveInv, own' = own, UNCHANGED <<surfaces, native, held, open, requests>>,
         \A o : Carries(o) => Carries(o)'
  PROVE  AliveInv'
<1>1. \A h : Kept(h) => Kept(h)'
  BY DEF Kept, KeptAt, AskedToDestroy
<1>2. QED
  BY <1>1 DEF AliveInv

\* The relay's own steps keep what surfaces are made of; so do the application's
\* requests, which destroy no wl_surface that is in use.
LEMMA AliveWayland ==
  ASSUME RelayInv, PresentInv, AliveInv, Waits, Wayland  PROVE AliveInv'
<1>1. /\ ~own /\ App \in Sessions
      /\ UNCHANGED <<own, held, requests, open, surfaces, native>>
  BY PresentationAssumption DEF Wayland, sessionVars, callVars
<1>2. CASE RelayNext
  <2>1. RelayInv' /\ RelayKeeps
    BY <1>2, RelayStep
  <2>2. ASSUME NEW o, Carries(o)  PROVE Carries(o)'
    <3>1. o \in DOMAIN client
      BY <2>2 DEF Carries, RelayInv, ClientInv
    <3>2. QED
      BY <2>1, <2>2, <3>1 DEF Carries, RelayKeeps
  <2>3. QED
    BY <1>1, <2>2, AliveQuiet
<1>3. ASSUME NEW o \in DOMAIN app, NEW r \in Requests, Ready(App),
             r.iface = "wl_surface" =>
               /\ o \notin Range(held[App])
               /\ Waits => requests[App] = <<>> /\ handler[App] = Idle,
             AppRequest(o, r)
      PROVE  AliveInv'
  <2>1. /\ ClientIds \subseteq ClientIds' /\ \A x \in DOMAIN client : client'[x] = client[x]
        /\ UNCHANGED objects
        /\ \A x : Untouched(x) /\ (r.destructor => x # o) => Untouched(x)'
    BY <1>3, AppRequestKeeps
  <2>2. ASSUME NEW h \in DOMAIN native  PROVE Carries(native[h])'
    <3>1. Carries(native[h]) /\ Kept(h)
      BY <1>1 DEF AliveInv
    <3>2. native[h] # o
      <4>1. SUFFICES ASSUME native[h] = o  PROVE FALSE
        OBVIOUS
      <4>2. r.iface = "wl_surface"
        <5>1. app[o] = r.iface /\ app[o] = client[o]
          BY <1>3 DEF AppRequest, RelayInv, ClientInv
        <5>2. QED
          BY <3>1, <4>1, <5>1 DEF Carries
      <4>3. o \notin Range(held[App]) /\ requests[App] = <<>>
        BY <1>3, <4>2
      <4>4. open[App] /\ ~\E id : AskedToDestroy(id)
        BY <1>3, <4>3 DEF Ready, AskedToDestroy
      <4>5. PICK id \in 1 .. Len(surfaces[App]) : KeptAt(id, h)
        BY <3>1 DEF Kept
      <4>6. id \in DOMAIN held[App] /\ held[App][id] = o
        BY <4>1, <4>4, <4>5 DEF KeptAt
      <4>7. QED
        BY <4>3, <4>6 DEF Range
    <3>3. native[h] \in DOMAIN client
      BY <3>1 DEF Carries, RelayInv, ClientInv
    <3>4. Untouched(native[h])'
      <4>1. PICK x : x = native[h]
        OBVIOUS
      <4>2. Untouched(x)'
        BY <2>1, <3>1, <3>2, <4>1 DEF Carries
      <4>3. native' = native
        BY <1>1
      <4>4. QED
        BY <4>1, <4>2, <4>3
    <3>5. QED
      BY <1>1, <2>1, <3>1, <3>3, <3>4 DEF Carries
  <2>3. \A h : Kept(h) => Kept(h)'
    BY <1>1 DEF Kept, KeptAt, AskedToDestroy
  <2>4. QED
    BY <1>1, <2>2, <2>3 DEF AliveInv
<1>4. QED
  BY <1>2, <1>3 DEF Wayland

\* The requests of the application's session go on; none to destroy is lost.
LEMMA AliveCalls ==
  ASSUME PresentInv, AliveInv, UNCHANGED <<surfaces, native, own>>,
         \A o : Carries(o) => Carries(o)', ~open[App] => ~open'[App],
         \A id \in 1 .. Len(surfaces[App]) :
           /\ id \in DOMAIN held[App] =>
                \/ ~open'[App] \/ AskedToDestroy(id)'
                \/ id \in DOMAIN held'[App] /\ held'[App][id] = held[App][id]
           /\ AskedToDestroy(id) => ~open'[App] \/ AskedToDestroy(id)'
  PROVE  AliveInv'
<1> SUFFICES ASSUME ~own  PROVE AliveInv'
  BY DEF AliveInv
<1>1. ASSUME NEW h \in DOMAIN native  PROVE Carries(native[h])' /\ Kept(h)'
  <2>1. Carries(native[h]) /\ Kept(h)
    BY DEF AliveInv
  <2>2. PICK id \in 1 .. Len(surfaces[App]) : KeptAt(id, h)
    BY <2>1 DEF Kept
  <2>3. KeptAt(id, h)'
    BY <2>2 DEF KeptAt
  <2>4. Kept(h)'
    BY <2>3 DEF Kept
  <2>5. Carries(native[h])'
    <3>1. PICK x : x = native[h]
      OBVIOUS
    <3>2. native' = native /\ Carries(x)'
      BY <2>1, <3>1
    <3>3. QED
      BY <3>1, <3>2
  <2>6. QED
    BY <2>4, <2>5
<1>2. QED
  BY <1>1 DEF AliveInv
\* A request more: those before it stay.
LEMMA AskedAppend ==
  ASSUME SessionTypes, App \in Sessions, NEW m \in Message,
         requests' = [requests EXCEPT ![App] = Append(@, m)]
  PROVE  /\ \A id : AskedToDestroy(id) => AskedToDestroy(id)'
         /\ m.op = "destroy" => \A id : m.id = id => AskedToDestroy(id)'
<1>1. requests[App] \in Seq(Message) /\ requests'[App] = Append(requests[App], m)
  BY DEF SessionTypes
<1>2. PICK n : n = Len(requests[App])
  OBVIOUS
<1>3. /\ n \in Nat /\ Len(requests'[App]) = n + 1 /\ requests'[App][n + 1] = m
      /\ \A i \in 1 .. n : requests'[App][i] = requests[App][i]
  BY <1>1, <1>2, AppendFacts
<1>4. n + 1 \in 1 .. Len(requests'[App])
  BY <1>3
<1>5. QED
  BY <1>2, <1>3, <1>4 DEF AskedToDestroy

\* The application's calls.
LEMMA AliveCallStep ==
  ASSUME RelayInv, PresentInv, AliveInv, NEW s \in Sessions,
         \/ CreateOwnSurface(s)
         \/ \E id \in DOMAIN held[s] : DestroySurfaceKHR(s, id) \/ AcquireNextImageKHR(s, id)
  PROVE  AliveInv'
<1>1. UNCHANGED waylandVars /\ UNCHANGED <<own, open, surfaces, native>>
  BY DEF CreateOwnSurface, DestroySurfaceKHR, AcquireNextImageKHR
<1>2. \A o : Carries(o) => Carries(o)'
  BY <1>1, CarriesQuiet
<1>3. CASE own
  BY <1>1, <1>3 DEF AliveInv
<1>4. CASE ~own
  <2>1. SessionTypes /\ CallAt(s) /\ RoleAt(s) /\ App \in Sessions
    BY PresentationAssumption DEF PresentInv, CallInv, RoleInv
  <2>2. PICK id \in DOMAIN held[s] : DestroySurfaceKHR(s, id) \/ AcquireNextImageKHR(s, id)
    BY <1>4 DEF CreateOwnSurface
  <2>3. s = App
    BY <1>4, <2>1, <2>2 DEF RoleAt
  <2>4. id \in Nat
    BY <2>1, <2>2 DEF CallAt, SessionTypes
  <2>5. CASE DestroySurfaceKHR(s, id)
    <3>1. PICK m : m = [op |-> "destroy", id |-> id]
      OBVIOUS
    <3>2. m \in Message /\ m.op = "destroy" /\ m.id = id
      BY <2>4, <3>1, MessageMade
    <3>3. /\ requests' = [requests EXCEPT ![App] = Append(@, m)]
          /\ held'[App] = Restrict(held[App], DOMAIN held[App] \ {id})
      BY <2>1, <2>3, <2>5, <3>1 DEF DestroySurfaceKHR, Send, Without, SessionTypes
    <3>4. /\ DOMAIN held'[App] = DOMAIN held[App] \ {id}
          /\ \A i \in DOMAIN held[App] : i # id => held'[App][i] = held[App][i]
      BY <3>3 DEF Restrict
    <3>5. (\A i : AskedToDestroy(i) => AskedToDestroy(i)') /\ AskedToDestroy(id)'
      BY <2>1, <3>2, <3>3, AskedAppend
    <3>6. QED
      BY <1>1, <1>2, <3>4, <3>5, AliveCalls
  <2>6. CASE AcquireNextImageKHR(s, id)
    <3>1. PICK m : m = [op |-> "acquire", id |-> id]
      OBVIOUS
    <3>2. m \in Message
      BY <2>4, <3>1, MessageMade
    <3>3. requests' = [requests EXCEPT ![App] = Append(@, m)] /\ held' = held
      BY <2>3, <2>6, <3>1 DEF AcquireNextImageKHR, Send
    <3>4. \A i : AskedToDestroy(i) => AskedToDestroy(i)'
      BY <2>1, <3>2, <3>3, AskedAppend
    <3>5. QED
      BY <1>1, <1>2, <3>3, <3>4, AliveCalls
  <2>7. QED
    BY <2>2, <2>5, <2>6
<1>5. QED
  BY <1>3, <1>4

LEMMA AliveRoundtrip ==
  ASSUME RelayInv, PresentInv, AliveInv,
         RoundtripReturns \/ \E o \in DOMAIN app : CreateWaylandSurfaceKHR(o)
  PROVE  AliveInv'
<1>1. CASE RoundtripReturns
  <2>1. UNCHANGED waylandVars /\ UNCHANGED <<own, open, surfaces, native, held>>
    BY <1>1 DEF RoundtripReturns
  <2>2. \A o : Carries(o) => Carries(o)'
    BY <2>1, CarriesQuiet
  <2>3. SessionTypes /\ App \in Sessions /\ blocked[App] \in Call
    BY PresentationAssumption DEF PresentInv, SessionTypes
  <2>4. PICK synced \in BOOLEAN : synced <=> blocked[App].callback \in seen
    BY Zenon
  <2>5. PICK m : m = [op |-> "create", surface |-> blocked[App].surface, synced |-> synced]
    OBVIOUS
  <2>6. blocked[App].in = "roundtrip" /\ requests' = [requests EXCEPT ![App] = Append(@, m)]
    BY <1>1, <2>4, <2>5 DEF RoundtripReturns, Send
  <2>7. m \in Message
    BY <2>3, <2>4, <2>5, <2>6, CallFacts, MessageMade
  <2>8. \A i : AskedToDestroy(i) => AskedToDestroy(i)'
    BY <2>3, <2>6, <2>7, AskedAppend
  <2>9. QED
    BY <2>1, <2>2, <2>8, AliveCalls
<1>2. ASSUME NEW o \in DOMAIN app, CreateWaylandSurfaceKHR(o)  PROVE AliveInv'
  <2>1. PICK r \in Requests : r = Request("wl_display", "sync", "wl_callback", FALSE)
    BY DEF Requests
  <2>2. ~r.destructor
    BY <2>1 DEF Request
  <2>3. AppRequest(1, r) /\ UNCHANGED <<own, open, surfaces, native, held, requests>>
    BY <1>2, <2>1 DEF CreateWaylandSurfaceKHR
  <2>4. /\ ClientIds \subseteq ClientIds' /\ \A x \in DOMAIN client : client'[x] = client[x]
        /\ UNCHANGED objects /\ \A x : Untouched(x) => Untouched(x)'
    BY <2>2, <2>3, AppRequestKeeps
  <2>5. ASSUME NEW x, Carries(x)  PROVE Carries(x)'
    <3>1. x \in DOMAIN client
      BY <2>5 DEF Carries, RelayInv, ClientInv
    <3>2. QED
      BY <2>4, <2>5, <3>1 DEF Carries
  <2>6. QED
    BY <2>3, <2>5, AliveQuiet
<1>3. QED
  BY <1>1, <1>2

\* Steps of the server that register no surface and destroy none.
LEMMA AliveServerStep ==
  ASSUME RelayInv, PresentInv, AliveInv, NEW s \in Sessions,
         \/ FindSurface(s) \/ handle_AcquireNextImageKHR(s) \/ Disconnect(s)
         \/ release_surface_window(s) \/ create_own_window(s)
         \/ CreateOnWindow(s) \/ associate_surface(s) \/ discard_own_window(s)
  PROVE  AliveInv'
<1>1. UNCHANGED waylandVars /\ own' = own /\ App \in Sessions /\ SessionTypes
  BY PresentationAssumption
     DEF FindSurface, handle_AcquireNextImageKHR, Disconnect, release_surface_window,
         create_own_window, CreateOnWindow, associate_surface, discard_own_window, callVars,
         PresentInv
<1>2. \A o : Carries(o) => Carries(o)'
  BY <1>1, CarriesQuiet
<1>3. CASE own
  BY <1>1, <1>3 DEF AliveInv
<1>4. CASE ~own
  <2>1. CASE create_own_window(s) \/ CreateOnWindow(s) \/ associate_surface(s)
             \/ discard_own_window(s)
    BY <1>4, <2>1, CreatingFacts
       DEF create_own_window, CreateOnWindow, associate_surface, discard_own_window, Creating
  <2>2. CASE release_surface_window(s)
    <3>1. UNCHANGED <<surfaces, native, held, open, requests>>
      BY <2>2 DEF release_surface_window, callVars
    <3>2. QED
      BY <1>1, <1>2, <3>1, AliveQuiet
  <2>3. CASE Disconnect(s)
    <3>1. s = App /\ open'[App] = FALSE /\ UNCHANGED <<surfaces, native>>
      BY <1>1, <1>4, <2>3 DEF Disconnect, SessionTypes
    <3>2. QED
      BY <1>1, <1>2, <3>1, AliveCalls
  <2>4. ASSUME NEW op \in {"create", "acquire"}, Begin(s, op),
               UNCHANGED <<surfaces, native, held, open>>
        PROVE  AliveInv'
    <3>1. s = App
      BY <1>4, <2>4, BeginFacts
    <3>2. Len(requests[App]) = 1 /\ requests[App][1].op = op
      BY <2>4, <3>1, BeginFacts DEF Begin
    <3>3. \A id : ~AskedToDestroy(id)
      BY <3>2 DEF AskedToDestroy
    <3>4. QED
      BY <1>1, <1>2, <2>4, <3>3, AliveCalls
  <2>5. CASE FindSurface(s)
    BY <2>4, <2>5 DEF FindSurface
  <2>6. CASE handle_AcquireNextImageKHR(s)
    BY <2>4, <2>6 DEF handle_AcquireNextImageKHR
  <2>7. QED
    BY <2>1, <2>2, <2>3, <2>5, <2>6
<1>5. QED
  BY <1>3, <1>4
\* A destroyed surface: the others' slots and requests stay.
LEMMA AliveDestroyed ==
  ASSUME PresentInv, AliveInv, UNCHANGED waylandVars, ~own, own' = own,
         UNCHANGED <<held, open>>, NEW s \in Sessions, NEW id, NEW h, s = App,
         IF id \in 1 .. Len(surfaces[s]) THEN h = surfaces[s][id] ELSE h = NoHandle,
         surfaces' = [surfaces EXCEPT ![s][id] = NoHandle], native' = Without(native, h),
         \A x : x # id /\ AskedToDestroy(x) => AskedToDestroy(x)'
  PROVE  AliveInv'
<1>1. /\ SessionTypes /\ App \in Sessions /\ surfaces[App] \in Seq(Handles \cup {NoHandle})
      /\ NoHandle \notin Handles /\ DOMAIN native \subseteq Handles
  BY PresentationAssumption DEF PresentInv, SessionTypes
<1>2. surfaces'[App] = [surfaces[App] EXCEPT ![id] = NoHandle]
  BY <1>1 DEF SessionTypes
<1>3. /\ Len(surfaces'[App]) = Len(surfaces[App])
      /\ \A i \in 1 .. Len(surfaces[App]) : i # id => surfaces'[App][i] = surfaces[App][i]
  BY <1>1, <1>2
<1>4. DOMAIN native' = DOMAIN native \ {h} /\ \A g \in DOMAIN native' : native'[g] = native[g]
  BY DEF Without, Restrict
<1>5. ASSUME NEW g \in DOMAIN native'  PROVE Carries(native[g])' /\ Kept(g)'
  <2>1. g \in DOMAIN native /\ g # h /\ g # NoHandle /\ native'[g] = native[g]
    BY <1>1, <1>4
  <2>2. Carries(native[g]) /\ Kept(g)
    BY <2>1 DEF AliveInv
  <2>3. Carries(native[g])'
    <3>1. PICK x : x = native[g]
      OBVIOUS
    <3>2. Carries(x)'
      BY <2>2, <3>1, CarriesQuiet
    <3>3. QED
      BY <2>1, <3>1, <3>2
  <2>4. PICK i \in 1 .. Len(surfaces[App]) : KeptAt(i, g)
    BY <2>2 DEF Kept
  <2>5. i # id
    BY <2>1, <2>4 DEF KeptAt
  <2>6. KeptAt(i, g)'
    BY <1>3, <2>1, <2>4, <2>5 DEF KeptAt
  <2>7. Kept(g)'
    BY <1>3, <2>4, <2>6 DEF Kept
  <2>8. QED
    BY <2>3, <2>7
<1>6. QED
  BY <1>5 DEF AliveInv

LEMMA AliveDestroyStep ==
  ASSUME PresentInv, AliveInv, NEW s \in Sessions,
         handle_DestroySurfaceKHR(s) \/ destroy_session_objects(s)
  PROVE  AliveInv'
<1>1. UNCHANGED waylandVars /\ UNCHANGED <<own, held, open>> /\ App \in Sessions
  BY PresentationAssumption DEF handle_DestroySurfaceKHR, destroy_session_objects, callVars
<1>2. CASE own
  BY <1>1, <1>2 DEF AliveInv
<1>3. CASE ~own /\ handle_DestroySurfaceKHR(s)
  <2>1. PICK id : id = Head(requests[s]).id
    OBVIOUS
  <2>2. PICK h : h = SurfaceOf(s, id)
    OBVIOUS
  <2>3. /\ Begin(s, "destroy") /\ requests' = [requests EXCEPT ![s] = Tail(@)]
        /\ surfaces' = [surfaces EXCEPT ![s][id] = NoHandle] /\ native' = Without(native, h)
    BY <1>3, <2>1, <2>2 DEF handle_DestroySurfaceKHR, Took
  <2>4. SessionTypes /\ surfaces[s] \in Seq(Handles \cup {NoHandle}) /\ requests[s] \in Seq(Message)
    BY DEF PresentInv, SessionTypes
  <2>5. IF id \in 1 .. Len(surfaces[s]) THEN h = surfaces[s][id] ELSE h = NoHandle
    BY <2>2, <2>4 DEF SurfaceOf
  <2>6. s = App /\ requests[s] # <<>>
    BY <1>3, <2>3, BeginFacts DEF Begin
  <2>7. /\ Len(Tail(requests[s])) = Len(requests[s]) - 1 /\ Len(requests[s]) \in Nat \ {0}
        /\ \A i \in 1 .. Len(Tail(requests[s])) : Tail(requests[s])[i] = requests[s][i + 1]
        /\ Head(requests[s]) = requests[s][1]
    BY <2>4, <2>6, TailFacts
  <2>8. requests'[App] = Tail(requests[App])
    BY <2>3, <2>4, <2>6 DEF SessionTypes
  <2>9. ASSUME NEW x, x # id, AskedToDestroy(x)  PROVE AskedToDestroy(x)'
    <3>1. PICK i \in 1 .. Len(requests[App]) : requests[App][i].op = "destroy"
                                               /\ requests[App][i].id = x
      BY <2>9 DEF AskedToDestroy
    <3>2. i # 1
      BY <2>1, <2>6, <2>7, <2>9, <3>1
    <3>3. PICK j : j = i - 1
      OBVIOUS
    <3>4. j \in 1 .. Len(requests'[App]) /\ j + 1 = i
      BY <2>6, <2>7, <2>8, <3>1, <3>2, <3>3
    <3>5. requests'[App][j] = requests[App][i]
      BY <2>6, <2>7, <2>8, <3>4
    <3>6. QED
      BY <3>1, <3>4, <3>5 DEF AskedToDestroy
  <2>10. QED
    BY <1>1, <1>3, <2>3, <2>5, <2>6, <2>9, AliveDestroyed
<1>4. CASE ~own /\ destroy_session_objects(s)
  <2>1. PICK left : left = {i \in DOMAIN surfaces[s] : surfaces[s][i] # NoHandle}
    OBVIOUS
  <2>2. PICK id : id = CHOOSE i \in left : \A j \in left : i <= j
    OBVIOUS
  <2>3. PICK h : h = surfaces[s][id]
    OBVIOUS
  <2>4. /\ ~open[s] /\ left # {} /\ UNCHANGED requests
        /\ surfaces' = [surfaces EXCEPT ![s][id] = NoHandle] /\ native' = Without(native, h)
    BY <1>4, <2>1, <2>2, <2>3 DEF destroy_session_objects, callVars
  <2>5. surfaces[s] \in Seq(Handles \cup {NoHandle}) /\ RoleAt(s)
    BY DEF PresentInv, SessionTypes, RoleInv
  <2>6. left \in SUBSET Nat /\ left \subseteq 1 .. Len(surfaces[s])
    BY <2>1, <2>5
  <2>7. id \in left
    BY <2>2, <2>4, <2>6, LeastSlot
  <2>8. IF id \in 1 .. Len(surfaces[s]) THEN h = surfaces[s][id] ELSE h = NoHandle
    BY <2>3, <2>6, <2>7
  <2>9. s = App
    BY <1>4, <2>4, <2>5 DEF RoleAt
  <2>10. \A x : AskedToDestroy(x) => AskedToDestroy(x)'
    BY <2>4 DEF AskedToDestroy
  <2>11. QED
    BY <1>1, <1>4, <2>4, <2>8, <2>9, <2>10, AliveDestroyed
<1>5. QED
  BY <1>2, <1>3, <1>4

\* A surface more, of the wl_surface the application asked for.
LEMMA AliveProxied ==
  ASSUME RelayInv, PresentInv, AliveInv, NEW s \in Sessions, CreateProxied(s)
  PROVE  AliveInv'
<1>1. /\ handler[s].at = "found" /\ UNCHANGED waylandVars /\ UNCHANGED <<own, requests, open>>
      /\ SessionTypes
  BY DEF CreateProxied, PresentInv
<1>2. ~own /\ s = App /\ blocked[App].in = "create" /\ App \in Sessions
  BY <1>1, CreatingFacts DEF Creating
<1>3. CASE UNCHANGED <<native, surfaces>> /\ ReplyCreate(s, FALSE)
  <2>1. UNCHANGED <<surfaces, native, held, open, requests>>
    BY <1>1, <1>3 DEF ReplyCreate
  <2>2. \A o : Carries(o) => Carries(o)'
    BY <1>1, CarriesQuiet
  <2>3. QED
    BY <1>1, <2>1, <2>2, AliveQuiet
<1>4. ASSUME NEW h \in Fresh, handler[s].target # 0,
             native' = Put(native, h, handler[s].target), Register(s, h), ReplyCreate(s, TRUE)
      PROVE  AliveInv'
  <2>1. PICK o : o = handler[App].target
    OBVIOUS
  <2>2. /\ o = blocked[App].surface /\ o \in DOMAIN objects
        /\ o \in DOMAIN app \cap ClientIds /\ app[o] = "wl_surface"
    BY <1>1, <1>2, <1>4, <2>1 DEF PresentInv, RoundtripInv
  <2>3. Carries(o)
    BY <2>2, HeldFacts DEF Carries
  <2>4. /\ surfaces[App] \in Seq(Handles \cup {NoHandle}) /\ h \in Handles \cup {NoHandle}
        /\ h \notin DOMAIN native
    BY <1>1, <1>2 DEF SessionTypes, Fresh
  <2>5. PICK n : n = Len(surfaces[App])
    OBVIOUS
  <2>6. surfaces'[App] = Append(surfaces[App], h)
    BY <1>1, <1>2, <1>4 DEF Register, SessionTypes
  <2>7. /\ n \in Nat /\ Len(surfaces'[App]) = n + 1 /\ surfaces'[App][n + 1] = h
        /\ \A i \in 1 .. n : surfaces'[App][i] = surfaces[App][i]
    BY <2>4, <2>5, <2>6, AppendFacts
  <2>8. held'[App] = Put(held[App], n + 1, o)
    BY <1>1, <1>2, <1>4, <2>2, <2>7 DEF ReplyCreate, SessionTypes
  <2>9. /\ DOMAIN held'[App] = DOMAIN held[App] \cup {n + 1} /\ held'[App][n + 1] = o
        /\ \A i \in DOMAIN held[App] : i # n + 1 => held'[App][i] = held[App][i]
    BY <2>8 DEF Put
  <2>10. /\ DOMAIN native' = DOMAIN native \cup {h} /\ native'[h] = o
         /\ \A g \in DOMAIN native : native'[g] = native[g]
    BY <1>2, <1>4, <2>1, <2>4 DEF Put
  <2>11. Carries(native[h])' /\ Kept(h)'
    <3>1. Carries(o)'
      BY <1>1, <2>3, CarriesQuiet
    <3>2. Carries(native[h])'
      BY <2>10, <3>1
    <3>3. n + 1 \in 1 .. Len(surfaces'[App]) /\ KeptAt(n + 1, h)'
      <4>1. n + 1 \in 1 .. Len(surfaces'[App]) /\ surfaces'[App][n + 1] = h
            /\ n + 1 \in DOMAIN held'[App] /\ held'[App][n + 1] = native'[h]
        BY <2>7, <2>9, <2>10
      <4>2. QED
        BY <4>1 DEF KeptAt
    <3>4. QED
      BY <3>2, <3>3 DEF Kept
  <2>12. ASSUME NEW g \in DOMAIN native  PROVE Carries(native[g])' /\ Kept(g)'
    <3>1. Carries(native[g]) /\ Kept(g) /\ native'[g] = native[g]
      BY <1>2, <2>10 DEF AliveInv
    <3>2. Carries(native[g])'
      <4>1. PICK x : x = native[g]
        OBVIOUS
      <4>2. Carries(x)'
        BY <1>1, <3>1, <4>1, CarriesQuiet
      <4>3. QED
        BY <3>1, <4>1, <4>2
    <3>3. PICK i \in 1 .. n : KeptAt(i, g)
      BY <2>5, <3>1 DEF Kept
    <3>4. i \in 1 .. Len(surfaces'[App]) /\ i # n + 1
      BY <2>7
    <3>5. AskedToDestroy(i) => AskedToDestroy(i)'
      BY <1>1 DEF AskedToDestroy
    <3>6. KeptAt(i, g)'
      BY <1>1, <2>7, <2>9, <3>1, <3>3, <3>4, <3>5 DEF KeptAt
    <3>7. QED
      BY <3>2, <3>4, <3>6 DEF Kept
  <2>13. QED
    BY <2>10, <2>11, <2>12 DEF AliveInv
<1>5. QED
  BY <1>3, <1>4 DEF CreateProxied
\* Every step keeps the wl_surfaces of live surfaces, if the application awaits a
\* reply before it destroys one.
LEMMA AliveStep ==
  ASSUME RelayInv, PresentInv, AliveInv, Waits, [Next]_vars
  PROVE  AliveInv'
<1>1. CASE Wayland
  BY <1>1, AliveWayland
<1>2. CASE RoundtripReturns \/ \E o \in DOMAIN app : CreateWaylandSurfaceKHR(o)
  BY <1>2, AliveRoundtrip
<1>3. ASSUME NEW s \in Sessions,
             \/ CreateOwnSurface(s)
             \/ \E id \in DOMAIN held[s] : DestroySurfaceKHR(s, id) \/ AcquireNextImageKHR(s, id)
      PROVE  AliveInv'
  BY <1>3, AliveCallStep
<1>4. ASSUME NEW s \in Sessions,
             \/ FindSurface(s) \/ handle_AcquireNextImageKHR(s) \/ Disconnect(s)
             \/ release_surface_window(s) \/ create_own_window(s)
             \/ CreateOnWindow(s) \/ associate_surface(s) \/ discard_own_window(s)
      PROVE  AliveInv'
  BY <1>4, AliveServerStep
<1>5. ASSUME NEW s \in Sessions, handle_DestroySurfaceKHR(s) \/ destroy_session_objects(s)
      PROVE  AliveInv'
  BY <1>5, AliveDestroyStep
<1>6. ASSUME NEW s \in Sessions, CreateProxied(s)  PROVE AliveInv'
  BY <1>6, AliveProxied
<1>7. CASE (\E w \in Windows : toplevel_close(w) \/ toplevel_configure(w)) \/ UNCHANGED vars
  <2>1. UNCHANGED waylandVars /\ UNCHANGED <<own, surfaces, native, held, open, requests>>
    BY <1>7 DEF toplevel_close, toplevel_configure, vars, callVars
  <2>2. QED
    BY <2>1, CarriesQuiet, AliveQuiet
<1>8. QED
  BY <1>1, <1>2, <1>3, <1>4, <1>5, <1>6, <1>7 DEF Next

LEMMA InvAlive ==
  ASSUME RelayInv, PresentInv, WindowInv, AliveInv  PROVE NativeAlive
<1>1. App \in Sessions
  BY PresentationAssumption
<1>2. CASE own
  <2>1. \A h \in DOMAIN native : native[h] \in own_windows
    BY <1>2 DEF WindowInv, NativeAt
  <2>2. \A s \in Sessions : handler[s].at # "found"
    BY <1>2 DEF PresentInv, RoleInv, RoleAt
  <2>3. QED
    BY <1>2, <2>1, <2>2 DEF NativeAlive
<1>3. CASE ~own
  <2>1. ASSUME NEW o \in DOMAIN objects \cap ClientIds, client[o] = "wl_surface"
        PROVE  o \in proxies
    <3>1. objects[o].iface = "wl_surface"
      BY <2>1 DEF RelayInv, ClientInv, ServerInv
    <3>2. objects[o].proxy = lookup_wl_interface("wl_surface")
      BY <3>1 DEF RelayInv, ServerInv
    <3>3. lookup_wl_interface("wl_surface")
      BY DEF lookup_wl_interface
    <3>4. proxies = {x \in DOMAIN objects : objects[x].proxy}
      BY DEF RelayInv, ServerInv
    <3>5. QED
      BY <3>2, <3>3, <3>4
  <2>2. \A h \in DOMAIN native : native[h] \in proxies
    BY <1>3, <2>1 DEF AliveInv, Carries
  <2>3. ASSUME NEW s \in Sessions, handler[s].at = "found"
        PROVE  handler[s].target \in proxies \cup {0}
    <3>1. s = App /\ blocked[App].in = "create"
      BY <1>3, <2>3, CreatingFacts DEF Creating
    <3>2. PICK o : o = handler[App].target
      OBVIOUS
    <3>3. o # 0 => o \in DOMAIN objects /\ o \in DOMAIN app \cap ClientIds /\ app[o] = "wl_surface"
      BY <1>3, <2>3, <3>1, <3>2 DEF PresentInv, RoundtripInv
    <3>4. o # 0 => o \in proxies
      BY <2>1, <3>3, HeldFacts
    <3>5. QED
      BY <3>1, <3>2, <3>4
  <2>4. QED
    BY <1>3, <2>2, <2>3 DEF NativeAlive
<1>4. QED
  BY <1>2, <1>3

\* What a live VkSurfaceKHR is made of is there, whatever the relay, the
\* application and the other sessions do meanwhile, and so is the wl_surface a
\* handler has looked up and holds without objects_mutex_
\* (handle_CreateWaylandSurfaceKHR, src/server/handlers_wsi.cpp).  The application
\* must await a reply between vkDestroySurfaceKHR and wl_surface.destroy, as the
\* two connections are not ordered with each other, and the driver must not be
\* quick to return a handle again.
THEOREM NativeIsAlive == Waits /\ ~EarlyReuse /\ Spec => []NativeAlive
<1>1. Init => RelayInv /\ PresentInv /\ WindowInv
  BY RelayInit, PresentInit, WindowInit DEF Init
<1>2. Init => AliveInv
  BY DEF Init, AliveInv
<1>3. RelayInv /\ PresentInv /\ WindowInv /\ AliveInv => NativeAlive
  BY InvAlive
<1>4. CASE ~(Waits /\ ~EarlyReuse)
  BY <1>4
<1>5. CASE Waits /\ ~EarlyReuse
  <2>1. RelayInv /\ PresentInv /\ WindowInv /\ AliveInv /\ [Next]_vars
          => (RelayInv /\ PresentInv /\ WindowInv /\ AliveInv)'
    BY <1>5, PresentStep, WindowStep, AliveStep
  <2>2. QED
    BY <1>1, <1>2, <1>3, <2>1, PTL DEF Spec
<1>6. QED
  BY <1>4, <1>5
=============================================================================
