---------------------------- MODULE WaylandProxy ----------------------------
(***************************************************************************)
(* The Wayland relay: the application's requests go through proxy_client   *)
(* (src/wayland/proxy_client.cpp) over one TCP link to the server's pump   *)
(* thread (src/wayland/proxy_server.cpp), which makes them on a libwayland *)
(* connection of its own; the compositor's events come back the same way.  *)
(* Each end keeps a table of objects, filled from the messages that pass.  *)
(*                                                                         *)
(* The messages are those of a few interfaces, enough to have a request    *)
(* that creates, one that destroys, one that binds, and events that create *)
(* (wl_data_device is bound here without its manager).  Frames are whole:  *)
(* a frame that has come in part is not taken yet.  The application and    *)
(* proxy_client share a machine: a request is sent and forwarded in one    *)
(* step, an event forwarded and received in one step, as any delay between *)
(* the two is one the application could have made itself.                  *)
(*                                                                         *)
(* libwayland keeps the events of wl_display for itself, so delete_id      *)
(* reaches neither table and no id is given out twice.                     *)
(***************************************************************************)
EXTENDS Naturals, Sequences, FiniteSets, SequencesExt, Functions

CONSTANTS MaxId,       \* the last id the application gives out
          MaxEvents    \* a bound on the compositor's events

ASSUME WaylandAssumption == MaxId \in Nat \ {0} /\ MaxEvents \in Nat

VARIABLES
  app,       \* the objects the application holds: id |-> interface
  nextId,    \* the application's next id
  seen,      \* wl_callbacks whose done the application has received
  client,    \* proxy_client's objects_: id |-> interface
  running,   \* proxy_client's loop
  link,      \* frames on the way to the server
  frames     \* frames on the way back

VARIABLES
  link_fd,   \* the server has accepted the link: "none", "open", "dropped"
  objects,   \* objects_: id |-> interface, proxy (FALSE for an inert stub)
  proxies,   \* the wl_proxies alive on the real connection
  waiting,   \* wl_callbacks the compositor still has to answer
  next_server_side_id,
  sent,      \* events so far
  why        \* what ended the link

appVars == <<app, nextId, seen>>
clientVars == <<client, running>>
serverVars == <<link_fd, objects, proxies, waiting, next_server_side_id>>
waylandVars == <<appVars, clientVars, link, frames, serverVars, sent, why>>

FirstServerSideId == MaxId + 1
None == "none"

\* f with v for x.
Put(f, x, v) == [y \in DOMAIN f \cup {x} |-> IF y = x THEN v ELSE f[y]]

Request(iface, name, new, destructor) ==
  [iface |-> iface, name |-> name, new |-> new, destructor |-> destructor]
Requests == {
  Request("wl_display", "get_registry", "wl_registry", FALSE),
  Request("wl_display", "sync", "wl_callback", FALSE),
  Request("wl_registry", "bind", "wl_compositor", FALSE),
  Request("wl_registry", "bind", "wl_data_device", FALSE),
  Request("wl_registry", "bind", "wl_fixes", FALSE),
  Request("wl_registry", "bind", "optional", FALSE),
  Request("wl_compositor", "create_surface", "wl_surface", FALSE),
  Request("wl_surface", "destroy", None, TRUE),
  Request("wl_data_offer", "destroy", None, TRUE),
  Request("wl_fixes", "destroy", None, TRUE),
  Request("optional", "use", None, FALSE)}
Events == [wl_registry |-> {"global"}, wl_surface |-> {"enter"}, wl_callback |-> {"done"},
           wl_data_device |-> {"data_offer"}]

\* The generated tables have every interface of wayland.xml and xdg-shell.xml,
\* wl_fixes among them where wayland.xml is a recent one.
find_interface(iface) == iface # "optional"
\* The server makes objects of the interfaces libwayland exports to it.
lookup_wl_interface(iface) == iface \notin {"optional", "wl_fixes"}
find_message(iface, event) == iface \in DOMAIN Events /\ event \in Events[iface]

WaylandInit ==
  /\ app = [o \in {1} |-> "wl_display"] /\ nextId = 2 /\ seen = {}
  /\ client = [o \in {1} |-> "wl_display"] /\ running = TRUE
  /\ link = <<>> /\ frames = <<>>
  /\ link_fd = "none"
  /\ objects = [o \in {1} |-> [iface |-> "wl_display", proxy |-> TRUE]]
  /\ proxies = {1} /\ waiting = {}
  /\ next_server_side_id = FirstServerSideId
  /\ sent = 0 /\ why = None

-----------------------------------------------------------------------------
(* proxy_client. *)

\* As if a destructor request took the object out of the client's table.
track_erasing_destroyed(table, m) ==
  IF "destructor" \in DOMAIN m /\ m.destructor THEN Restrict(table, DOMAIN table \ {m.obj})
  ELSE IF m.new # 0 THEN Put(table, m.new, m.iface) ELSE table
\* Only delete_id removes an entry: events may still come for what the
\* application has destroyed.
track_object_lifetime(table, m) == IF m.new # 0 THEN Put(table, m.new, m.iface) ELSE table

Exit(cause) ==
  /\ running' = FALSE
  /\ why' = IF why = None THEN cause ELSE why

\* extract_and_forward_requests, for the request the application sends.
Forward(m) ==
  IF m.obj \notin DOMAIN client
  THEN Exit("unknown object") /\ UNCHANGED <<client, link>>
  ELSE IF ~find_interface(client[m.obj])
  THEN Exit("unsupported") /\ UNCHANGED <<client, link>>
  ELSE /\ client' = track_object_lifetime(client, m)
       /\ link' = Append(link, m)
       /\ UNCHANGED <<running, why>>

\* The application makes request r on object o.  It binds a global once, and
\* has one registry.
AppRequest(o, r) ==
  LET new == IF r.new = None THEN 0 ELSE nextId IN
  /\ running
  /\ o \in DOMAIN app /\ app[o] = r.iface
  /\ r.new # None => nextId <= MaxId
  /\ r.name \in {"get_registry", "bind"} => r.new \notin Range(app)
  /\ app' = IF r.destructor THEN Restrict(app, DOMAIN app \ {o})
            ELSE IF new # 0 THEN Put(app, new, r.new) ELSE app
  /\ nextId' = IF new # 0 THEN nextId + 1 ELSE nextId
  /\ Forward([obj |-> o, new |-> new, iface |-> r.new, destructor |-> r.destructor])
  /\ UNCHANGED <<seen, frames, serverVars, sent>>

\* extract_and_forward_events.
ClientEvent ==
  LET m == Head(frames)
      known == m.obj \in DOMAIN client
      spec == known /\ find_message(client[m.obj], m.event) IN
  /\ running /\ frames # <<>>
  /\ frames' = Tail(frames)
  /\ IF ~known THEN Exit("unknown object") /\ UNCHANGED <<client, app, seen>>
     ELSE IF ~spec THEN Exit("unknown event") /\ UNCHANGED <<client, app, seen>>
     ELSE /\ client' = track_object_lifetime(client, m)
          /\ app' = IF m.new # 0 /\ m.obj \in DOMAIN app
                    THEN Put(app, m.new, m.iface) ELSE app
          /\ seen' = IF m.event = "done" THEN seen \cup {m.obj} ELSE seen
          /\ UNCHANGED <<running, why>>
  /\ UNCHANGED <<nextId, link, serverVars, sent>>

\* The server has closed the link and everything it sent was read.
ClientSeesEnd ==
  /\ running /\ link_fd = "dropped" /\ frames = <<>>
  /\ Exit("server")
  /\ UNCHANGED <<appVars, client, link, frames, serverVars, sent>>

\* The application closes its connection, or dies.
AppExit ==
  /\ running
  /\ Exit("application")
  /\ UNCHANGED <<appVars, client, link, frames, serverVars, sent>>

-----------------------------------------------------------------------------
(* The server's pump thread. *)

accept_link ==
  /\ link_fd = "none"
  /\ link_fd' = "open"
  /\ UNCHANGED <<appVars, clientVars, link, frames, objects, proxies, waiting,
                 next_server_side_id, sent, why>>

\* As if the connection's objects went with the link.
drop_link_and_objects(cause) ==
  /\ link_fd' = "dropped"
  /\ link' = <<>>
  /\ \E n \in 0..Len(frames) : frames' = SubSeq(frames, 1, n)
  /\ objects' = Restrict(objects, {1})
  /\ proxies' = {1}
  /\ why' = IF why = None THEN cause ELSE why
\* What was not sent yet is lost with the link; the objects stay.
drop_link(cause) ==
  /\ link_fd' = "dropped"
  /\ link' = <<>>
  /\ \E n \in 0..Len(frames) : frames' = SubSeq(frames, 1, n)
  /\ UNCHANGED <<objects, proxies>>
  /\ why' = IF why = None THEN cause ELSE why

\* pump_link finds the link closed by proxy_client.
LinkClosed ==
  /\ link_fd = "open" /\ ~running
  /\ drop_link("client")
  /\ UNCHANGED <<appVars, clientVars, waiting, next_server_side_id, sent>>

\* What handle_request_frame does to the objects: a new object, and the end of
\* the one a destructor names.  An interface the server cannot make becomes an
\* inert stub.
Registered(m) ==
  LET made == IF m.new = 0 THEN objects
              ELSE Put(objects, m.new, [iface |-> m.iface, proxy |-> lookup_wl_interface(m.iface)])
  IN IF m.destructor THEN Restrict(made, DOMAIN made \ {m.obj}) ELSE made
MadeProxies(m) ==
  (proxies \cup (IF m.new # 0 /\ lookup_wl_interface(m.iface) THEN {m.new} ELSE {}))
    \ (IF m.destructor THEN {m.obj} ELSE {})

\* One frame; objects_mutex_ is held throughout.
handle_request_frame ==
  LET m == Head(link) IN
  /\ link_fd = "open" /\ link # <<>>
  /\ IF m.obj \notin DOMAIN objects
     THEN drop_link("unknown object") /\ UNCHANGED <<waiting>>
     ELSE /\ link' = Tail(link)
          /\ objects' = IF objects[m.obj].proxy THEN Registered(m)
                        ELSE IF m.destructor THEN Restrict(objects, DOMAIN objects \ {m.obj})
                        ELSE objects
          /\ proxies' = IF objects[m.obj].proxy THEN MadeProxies(m) ELSE proxies
          /\ waiting' = IF m.iface = "wl_callback" THEN waiting \cup {m.new} ELSE waiting
          /\ UNCHANGED <<link_fd, frames, why>>
  /\ UNCHANGED <<appVars, clientVars, next_server_side_id, sent>>

\* The compositor sends event e to object o, and the pump thread puts it on the
\* link.  libwayland drops what comes for a destroyed proxy.  With no link the
\* frames collect in tx_buf_, which only another link would read.
generic_dispatcher(o, e) ==
  LET new == IF e = "data_offer" THEN next_server_side_id ELSE 0 IN
  /\ link_fd = "open" /\ sent < MaxEvents
  /\ o \in proxies /\ find_message(objects[o].iface, e)
  /\ e = "done" => o \in waiting
  /\ waiting' = waiting \ {o}
  /\ objects' = IF new = 0 THEN objects
                ELSE Put(objects, new, [iface |-> "wl_data_offer", proxy |-> TRUE])
  /\ proxies' = IF new = 0 THEN proxies ELSE proxies \cup {new}
  /\ next_server_side_id' = IF new = 0 THEN next_server_side_id ELSE new + 1
  /\ frames' = Append(frames, [obj |-> o, event |-> e, new |-> new,
                               iface |-> IF new = 0 THEN None ELSE "wl_data_offer"])
  /\ sent' = sent + 1
  /\ UNCHANGED <<appVars, clientVars, link, link_fd, why>>

\* surface_for_client_id: the wl_surface of that id, if there is one.
surface_for_client_id(id) ==
  IF id \in DOMAIN objects /\ objects[id].iface = "wl_surface" THEN id ELSE 0

RelayNext ==
  \/ ClientEvent \/ ClientSeesEnd \/ AppExit
  \/ accept_link \/ LinkClosed \/ handle_request_frame
  \/ \E o \in proxies, e \in UNION Range(Events) : generic_dispatcher(o, e)

-----------------------------------------------------------------------------
WaylandTypeOK ==
  /\ DOMAIN app \subseteq 1..FirstServerSideId + MaxEvents /\ nextId \in 2..MaxId + 1
  /\ seen \subseteq 1..MaxId /\ running \in BOOLEAN
  /\ link_fd \in {"none", "open", "dropped"}
  /\ proxies = {o \in DOMAIN objects : objects[o].proxy}
  /\ waiting \subseteq 1..MaxId /\ sent \in 0..MaxEvents

\* Neither end ever meets an object it does not know, or an event the
\* interface it has for the object does not have: the link ends when the
\* application does, or when it uses an interface the tables lack, and never
\* because the two tables have come apart (requests and events crossing on the
\* link, objects destroyed while events for them are on the way).
TablesAgree == why \notin {"unknown object", "unknown event"}

\* What the comment at src/wayland/proxy_server.cpp:305-308 wants: an optional
\* interface that a client only probed does not cost it the link.
ProbingIsHarmless == why # "unsupported"
=============================================================================
